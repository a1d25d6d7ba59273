------------------------------- MODULE Gateway -------------------------------
(***************************************************************************)
(* The path of a request: the handlers of internal/http/handler, the file  *)
(* service, the decryptor, decompressor and detector behind it, the        *)
(* background Set that a miss leaves behind, and the administrator's       *)
(* deletions.  The cache is the one Cache.tla promises; the daemon of a    *)
(* chain decrypts what it can or fails.                                    *)
(*                                                                         *)
(* One request is one walk of a handler:                                   *)
(*    Accept -> lookup -> client -> rpc -> respond -> idle                 *)
(* and every step of it may fall between two steps of the others.          *)
(***************************************************************************)
EXTENDS Integers, FiniteSets, Sequences, Decompressor

CONSTANTS
    Chain,      \* well-formed chain names
    Enabled,    \* the chains that the manager has a client for
    Txid,       \* well-formed transaction ids
    Evk,        \* viewing keys that FileRequest.Validate accepts
    LowerEvk,   \* those of them that crypto.ValidateEVK accepts too
    Name,       \* well-formed file names
    None,       \* an absent parameter
    Bad,        \* a malformed one
    Readable,   \* <<chain, txid, evk>> that the chain's daemon decrypts
    Decrypted,  \* data that a daemon may decrypt, as Decompressor.tla describes it
    Packing,    \* the data of <<chain, txid>>
    Kept,       \* files that an earlier process may have left in the cache
    Request,    \* the requests that arrive
    Handler,    \* goroutines that serve requests
    Saver,      \* goroutines that run a background Set: at most this many
    NoKey, NoValue

\* What the gateway makes of the data of a transaction.
Contents == {Decompress(Packing[ct]) : ct \in Chain \X Txid}

\* Of FileMetadata: Filename, Size and Compressed; its zero value, and that with a name.
Metadata == [name : Name \cup {None}, size : Nat, compressed : BOOLEAN]
OnlyName(name) == [name |-> name, size |-> 0, compressed |-> FALSE]
NoMetadata == OnlyName(None)

\* A file: where its Content was decrypted from and what it is, its Metadata, and its
\* TXID field.
File == [chain : Chain, txid : Txid, evk : Evk, content : Contents,
         meta : Metadata, tag : Txid \cup {None}]

\* "chain:txid" or "chain:txid:encrypted"; the parts cannot hold a colon.
CacheKeys == [chain : Chain, txid : Txid, sealed : BOOLEAN]

AnyRequest == [op : {"GET", "HEAD", "META"}, chain : Chain \cup {Bad}, txid : Txid \cup {Bad},
               evk : Evk \cup {None, Bad}, name : Name \cup {None, Bad}]

KeyOf(f) == [chain |-> f.chain, txid |-> f.txid, sealed |-> TRUE]
Source(f) == <<f.chain, f.txid, f.evk>>

\* What metadata says of a content.
Describes(meta, content) == meta.size = content.size /\ meta.compressed = content.gzip

\* What a daemon decrypted, unpacked if it can be; with metadata that describes it.
Opened(f) ==
    /\ f \in File
    /\ Source(f) \in Readable
    /\ f.content = Decompress(Packing[<<f.chain, f.txid>>])

Genuine(f) == Opened(f) /\ Describes(f.meta, f.content)

ASSUME ConstantsAssumption ==
    /\ Enabled \subseteq Chain
    /\ LowerEvk \subseteq Evk
    /\ Readable \subseteq Chain \X Txid \X LowerEvk
    /\ Request \subseteq AnyRequest
    /\ Request # {}
    /\ None \notin Txid \cup Evk \cup Name \cup Handler
    /\ Bad \notin Chain \cup Txid \cup Evk \cup Name
    /\ Bad # None
    /\ NoValue \notin File
    /\ NoKey \notin CacheKeys

ASSUME DataAssumption ==
    /\ Decrypted \subseteq Data(Nat, Seq(Nat \ {0}))
    /\ Packing \in [Chain \X Txid -> Decrypted]
    /\ \A f \in Kept : f.tag = None /\ Genuine(f)

\* HEAD and META requests name no file, so Responds names none for them.
ASSUME NameAssumption == \A r \in Request : r.op # "GET" => r.name = None

VARIABLES
    cacheOn,    \* FALSE: there is no cache (type "none")
    store, asked, answer, putting, late,    \* the cache: see Cache.tla
    pc,         \* where each handler is
    req,        \* the request it serves, or served last
    ctx,        \* is that request's context still live?
    file,       \* the file it will answer with
    reply,      \* its last answer: a status and, if "ok", a file
    job         \* the Set each background goroutine was started for

cacheVars == <<store, asked, answer, putting, late>>
vars == <<cacheOn, store, asked, answer, putting, late, pc, req, ctx, file, reply, job>>

C == INSTANCE Cache WITH Key <- CacheKeys, Value <- File, Reader <- Handler, Writer <- Saver

-----------------------------------------------------------------------------
(* Pure parts *)

\* The parts without a body to check are those that Validate rejects.
Validate(r) == Bad \notin {r.chain, r.txid, r.evk, r.name}

\* Wrong variants: the chain, or the mark of a keyed request, is left out.
CacheKeyAnyChain(r) ==
    [chain |-> CHOOSE c \in Chain : TRUE, txid |-> r.txid, sealed |-> r.evk # None]
CacheKeyUnmarked(r) == [chain |-> r.chain, txid |-> r.txid, sealed |-> TRUE]

CacheKey(r) == [chain |-> r.chain, txid |-> r.txid, sealed |-> r.evk # None]

\* Wrong variant: the name is left for the handler to fill in.
DetectTypeNameless(content, name) ==
    [name |-> None, size |-> content.size, compressed |-> content.gzip]

\* The detector looks at the first bytes of what it is given.
DetectType(content, name) ==
    [name |-> name, size |-> content.size, compressed |-> content.gzip]

MakeFile(r, content, meta) ==
    [chain |-> r.chain, txid |-> r.txid, evk |-> r.evk, content |-> content,
     meta |-> meta, tag |-> r.txid]

\* Wrong variant: the type is detected before the data is unpacked.
NewFileDetectFirst(r) ==
    LET data == Packing[<<r.chain, r.txid>>]
    IN  MakeFile(r, Decompress(data), DetectType(data, r.name))

NewFile(r) ==
    LET content == Decompress(Packing[<<r.chain, r.txid>>])
    IN  MakeFile(r, content, DetectType(content, r.name))

\* The caches keep the content and the metadata, not the TXID of the file.
Stored(f) == [f EXCEPT !.tag = None]

\* The file that Get returns with the answer a of the cache: the metadata is read
\* apart from the content, and the zero value stands for what could not be read.
Found(a) == [a.val EXCEPT !.meta = IF a.meta = NoValue THEN NoMetadata ELSE a.meta.meta]

\* GetFile of the handler names a file that has no name after the request.
Named(f, r) == IF f.meta.name = None THEN [f EXCEPT !.meta.name = r.name] ELSE f

-----------------------------------------------------------------------------
NoJob == [key |-> NoKey, file |-> NoValue, owner |-> None]
Job(k, f, h) == [key |-> k, file |-> f, owner |-> h]

NoReply == [status |-> "none", file |-> NoValue]

Busy(s) == job[s] # NoJob \/ putting[s] # C!NoSet

Init ==
    /\ cacheOn \in BOOLEAN
    /\ store \in [CacheKeys -> Kept \cup {NoValue}]
    /\ \A k \in CacheKeys : store[k] # NoValue => cacheOn /\ KeyOf(store[k]) = k
    /\ asked = [h \in Handler |-> NoKey]
    /\ answer = [h \in Handler |-> C!Undecided]
    /\ putting = [s \in Saver |-> C!NoSet]
    /\ late = {}
    /\ pc = [h \in Handler |-> "idle"]
    /\ req = [h \in Handler |-> CHOOSE r \in Request : TRUE]
    /\ ctx = [h \in Handler |-> "done"]
    /\ file = [h \in Handler |-> NoValue]
    /\ reply = [h \in Handler |-> NoReply]
    /\ job = [s \in Saver |-> NoJob]

\* Wrong variant: the handler hangs on to the file it answered with.
AnswerKeepsFile(h, status, f) ==
    /\ reply' = [reply EXCEPT ![h] = [status |-> status, file |-> f]]
    /\ pc' = [pc EXCEPT ![h] = "idle"]
    /\ ctx' = [ctx EXCEPT ![h] = "done"]
    /\ UNCHANGED file

\* The handler answers; the deferred cancel of the timeout middleware ends
\* the context.
Answer(h, status, f) ==
    /\ reply' = [reply EXCEPT ![h] = [status |-> status, file |-> f]]
    /\ pc' = [pc EXCEPT ![h] = "idle"]
    /\ ctx' = [ctx EXCEPT ![h] = "done"]
    /\ file' = [file EXCEPT ![h] = NoValue]

Goto(h, l) == pc' = [pc EXCEPT ![h] = l]

-----------------------------------------------------------------------------
(* A request *)

\* Bound: a request is only taken on when a saver is left for its Set.
Arrives(h, r) ==
    /\ pc[h] = "idle"
    /\ Cardinality({s \in Saver : Busy(s)}) + Cardinality({g \in Handler : pc[g] # "idle"})
         < Cardinality(Saver)
    /\ req' = [req EXCEPT ![h] = r]
    /\ UNCHANGED <<file, job>>

Rejects(h, r) ==
    /\ Arrives(h, r)
    /\ ~Validate(r)
    /\ reply' = [reply EXCEPT ![h] = [status |-> "invalid", file |-> NoValue]]
    /\ UNCHANGED <<cacheVars, pc, ctx>>

Takes(h, r) ==
    /\ Arrives(h, r)
    /\ Validate(r)
    /\ ctx' = [ctx EXCEPT ![h] = "live"]
    /\ reply' = [reply EXCEPT ![h] = NoReply]

AsksCache(h, r) ==
    /\ Takes(h, r)
    /\ cacheOn
    /\ C!GetCall(h, CacheKey(r))
    /\ Goto(h, "lookup")

SkipsCache(h, r) ==
    /\ Takes(h, r)
    /\ ~cacheOn
    /\ Goto(h, "client")
    /\ UNCHANGED cacheVars

Accept(h, r) == Rejects(h, r) \/ AsksCache(h, r) \/ SkipsCache(h, r)

\* The cache finds the file, or fails to: a miss, an error, a dead context.
CacheDecides(h) ==
    /\ C!GetHit(h) \/ C!GetNothing(h)
    /\ UNCHANGED <<pc, req, ctx, file, reply, job>>

\* The file has expired under this Get: another one has removed its metadata.
CacheLosesMetadata(h) ==
    /\ C!GetLoses(h)
    /\ UNCHANGED <<pc, req, ctx, file, reply, job>>

\* A cache behind a network may lose what it found and look again.
CacheLooksAgain(h) ==
    /\ C!GetAgain(h)
    /\ UNCHANGED <<pc, req, ctx, file, reply, job>>

TakesHit(h) ==
    /\ pc[h] = "lookup"
    /\ answer[h].kind = "hit"
    /\ file' = [file EXCEPT ![h] = Found(answer[h])]
    /\ C!GetReturn(h)
    /\ Goto(h, "respond")
    /\ UNCHANGED <<req, ctx, reply, job>>

TakesMiss(h) ==
    /\ pc[h] = "lookup"
    /\ answer[h].kind = "nothing"
    /\ C!GetReturn(h)
    /\ Goto(h, "client")
    /\ UNCHANGED <<req, ctx, file, reply, job>>

\* No client for the chain, or a key that only the decryptor rejects.
Refuses(h) ==
    /\ pc[h] = "client"
    /\ req[h].chain \notin Enabled \/ req[h].evk \notin LowerEvk
    /\ Answer(h, "invalid", NoValue)
    /\ UNCHANGED <<cacheVars, req, job>>

\* Wrong variant: a request whose context has ended is tried over and over.
CallsDaemonAgain(h) ==
    /\ pc[h] = "client"
    /\ req[h].chain \in Enabled /\ req[h].evk \in LowerEvk
    /\ IF ctx[h] = "live" THEN Goto(h, "rpc") ELSE UNCHANGED pc
    /\ UNCHANGED <<cacheVars, req, ctx, file, reply, job>>

CallsDaemon(h) ==
    /\ pc[h] = "client"
    /\ req[h].chain \in Enabled /\ req[h].evk \in LowerEvk
    /\ IF ctx[h] = "live"
       THEN Goto(h, "rpc") /\ UNCHANGED <<ctx, file, reply>>
       ELSE Answer(h, "failed", NoValue)
    /\ UNCHANGED <<cacheVars, req, job>>

\* Starts the goroutine of the background Set.
Spawns(h, f) ==
    IF cacheOn
    THEN \E s \in Saver :
            /\ ~Busy(s)
            /\ job' = [job EXCEPT ![s] = Job(CacheKey(req[h]), f, h)]
    ELSE UNCHANGED job

\* Wrong variant: what the daemon refused is cached with the rest.
DaemonFailsCached(h) ==
    /\ pc[h] = "rpc"
    /\ Spawns(h, NewFile(req[h]))
    /\ Answer(h, "failed", NoValue)
    /\ UNCHANGED <<cacheVars, req>>

\* The daemon reports an error, answers rubbish, or not in time.
DaemonFails(h) ==
    /\ pc[h] = "rpc"
    /\ Answer(h, "failed", NoValue)
    /\ UNCHANGED <<cacheVars, req, job>>

DaemonAnswers(h) ==
    /\ pc[h] = "rpc"
    /\ Source(req[h]) \in Readable
    /\ file' = [file EXCEPT ![h] = NewFile(req[h])]
    /\ Spawns(h, NewFile(req[h]))
    /\ Goto(h, "respond")
    /\ UNCHANGED <<cacheVars, req, ctx, reply>>

\* A file without a name is named in place: after a miss the handler holds the
\* very object that the background Set reads.
Responds(h) ==
    LET f == Named(file[h], req[h])
    IN  /\ pc[h] = "respond"
        /\ Answer(h, "ok", f)
        /\ job' = [s \in Saver |-> IF job[s].owner = h THEN Job(job[s].key, f, None) ELSE job[s]]
        /\ UNCHANGED <<cacheVars, req>>

\* The client goes away or the time limit of the middleware passes.
Cancel(h) ==
    /\ pc[h] # "idle"
    /\ ctx[h] = "live"
    /\ ctx' = [ctx EXCEPT ![h] = "done"]
    /\ UNCHANGED <<cacheVars, pc, req, file, reply, job>>

Serve(h) ==
    \/ CacheDecides(h) \/ TakesHit(h) \/ TakesMiss(h)
    \/ Refuses(h) \/ CallsDaemon(h)
    \/ DaemonFails(h) \/ DaemonAnswers(h) \/ Responds(h)

-----------------------------------------------------------------------------
(* The background Set and the rest of the cache's life *)

\* Wrong variant: the Set runs under the context of the request.
SetBeginsInRequest(s) ==
    /\ job[s] # NoJob /\ putting[s] = C!NoSet
    /\ IF job[s].owner # None /\ ctx[job[s].owner] = "live"
       THEN C!SetCall(s, job[s].key, Stored(job[s].file)) /\ UNCHANGED job
       ELSE job' = [job EXCEPT ![s] = NoJob] /\ UNCHANGED cacheVars
    /\ UNCHANGED <<pc, req, ctx, file, reply>>

SetBegins(s) ==
    /\ job[s] # NoJob /\ putting[s] = C!NoSet
    /\ C!SetCall(s, job[s].key, Stored(job[s].file))
    /\ UNCHANGED <<pc, req, ctx, file, reply, job>>

SetStores(s) ==
    /\ C!SetStore(s)
    /\ UNCHANGED <<pc, req, ctx, file, reply, job>>

\* The Set returns, with an error if it does not know its file to be stored.
SetEnds(s) ==
    /\ C!SetReturn(s)
    /\ job' = [job EXCEPT ![s] = NoJob]
    /\ UNCHANGED <<pc, req, ctx, file, reply>>

Save(s) == SetBegins(s) \/ SetStores(s) \/ SetEnds(s)

\* A Set that timed out stores its file after all, beside or after other Sets
\* and deletions.
StoresLate(p) ==
    /\ C!LateStore(p)
    /\ UNCHANGED <<pc, req, ctx, file, reply, job>>

\* Eviction and expiry, DELETE /admin/cache/{key} and, key by key,
\* DELETE /admin/cache.
Forget(k) ==
    /\ cacheOn
    /\ store[k] # NoValue
    /\ C!Forget({k})
    /\ UNCHANGED <<pc, req, ctx, file, reply, job>>

Next ==
    /\ \/ \E h \in Handler :
             \/ Serve(h) \/ CacheLosesMetadata(h) \/ CacheLooksAgain(h) \/ Cancel(h)
             \/ \E r \in Request : Accept(h, r)
       \/ \E s \in Saver : Save(s)
       \/ \E p \in late : StoresLate(p)
       \/ \E k \in CacheKeys : Forget(k)
    /\ UNCHANGED cacheOn

Spec == Init /\ [][Next]_vars

\* Goroutines run; a cache call and an RPC come to an end (the HTTP client has
\* a timeout, and so often a Get looks again).  A request need not arrive, nor
\* a client stay, nor the daemon answer well.
Fairness ==
    /\ \A h \in Handler :
          /\ WF_vars(Serve(h) /\ UNCHANGED cacheOn)
          /\ SF_vars((TakesHit(h) \/ TakesMiss(h)) /\ UNCHANGED cacheOn)
    /\ \A s \in Saver : WF_vars((SetBegins(s) \/ SetEnds(s)) /\ UNCHANGED cacheOn)

FairSpec == Spec /\ Fairness

-----------------------------------------------------------------------------
(* Properties *)

TypeOK ==
    /\ cacheOn \in BOOLEAN
    /\ store \in [CacheKeys -> File \cup {NoValue}]
    /\ asked \in [Handler -> CacheKeys \cup {NoKey}]
    /\ answer \in [Handler -> [kind : {"none", "nothing", "hit"}, val : File \cup {NoValue},
                               meta : File \cup {NoValue}]]
    /\ putting \in [Saver -> [key : CacheKeys \cup {NoKey}, val : File \cup {NoValue}]]
    /\ late \subseteq [key : CacheKeys, val : File]
    /\ pc \in [Handler -> {"idle", "lookup", "client", "rpc", "respond"}]
    /\ req \in [Handler -> Request]
    /\ ctx \in [Handler -> {"live", "done"}]
    /\ file \in [Handler -> File \cup {NoValue}]
    /\ \A h \in Handler : file[h] # NoValue <=> pc[h] = "respond"
    /\ reply \in [Handler -> [status : {"none", "ok", "invalid", "failed"}, file : File \cup {NoValue}]]
    /\ job \in [Saver -> [key : CacheKeys \cup {NoKey}, file : File \cup {NoValue},
                          owner : Handler \cup {None}]]

Answered(h) == pc[h] = "idle" /\ reply[h].status = "ok"

\* Whatever is fetched, stored, served and forgotten at the same time, nobody
\* is answered with the file of another transaction or of another chain.
NoCrossing ==
    \A h \in Handler : Answered(h) =>
        reply[h].file.chain = req[h].chain /\ reply[h].file.txid = req[h].txid

\* A request without a viewing key is never answered with a file: the decryptor
\* refuses it, and no decrypted file is cached under its key.  (README.md:171,179 and
\* openapi.yaml:404-407 offer such requests; the code as it is never serves them.)
KeylessRefused ==
    \A h \in Handler : Answered(h) => req[h].evk # None

\* Only what a daemon decrypted is cached: no failure, no file of a request
\* that was refused.
CachedIsReadable ==
    \A k \in CacheKeys : store[k] # NoValue => Source(store[k]) \in Readable

\* The metadata of an answer is that of its bytes, unpacked or not, or, of a hit
\* alone (a file without its TXID), all zero but for the name in the request: a cache
\* may lose the metadata, but never a part of it, nor does it give another file's
\* (file_service.go:67-87, detector.go:20-47, filesystem.go:123-137).
MetaDescribesContent ==
    \A h \in Handler : Answered(h) =>
        LET f == reply[h].file
        IN  \/ Describes(f.meta, f.content)
            \/ f.tag = None /\ f.meta = OnlyName(req[h].name)

DataUnpacked == \A d \in Decrypted : Decompress(d) = AllOrNothing(d)

\* What is served is the data as it came or all that was packed in it, never a
\* part, whether it was unpacked for this request or for the one that cached it.
ServedWhole ==
    \A h \in Handler : Answered(h) =>
        LET f == reply[h].file
        IN  f.content = AllOrNothing(Packing[<<f.chain, f.txid>>])

\* The decompressor does what it should with all that a daemon may decrypt, and
\* the gateway serves what comes of it (decompressor.go:60-116,
\* file_service.go:67-87).
UnpacksAllOrNothing == DataUnpacked /\ ServedWhole

\* The File that a miss shares between the handler and its background Set is
\* not written to while the Set may be reading it.
SharedFileFrozen ==
    [][\A s \in Saver : job[s] # NoJob /\ job'[s] # NoJob => job'[s].file = job[s].file]_vars

\* The Set that a miss started is carried out whether or not the client
\* waited for the answer.
SavesBegin ==
    \A s \in Saver : job[s] # NoJob ~> putting[s] # C!NoSet

\* Every request is answered, even one whose context has ended.
AllAnswered ==
    \A h \in Handler : pc[h] # "idle" ~> pc[h] = "idle"

\* A file is the one that the viewing key of the request decrypts
\* (architecture.md: the key of the cache preserves its uniqueness).
KeyHonoured ==
    \A h \in Handler : Answered(h) => reply[h].file.evk = req[h].evk

-----------------------------------------------------------------------------
(* Why: wherever a file is on its way, it is one that a daemon decrypted, *)
(* and it travels under its own key.                                       *)

GenuineFor(f, k) == Genuine(f) /\ KeyOf(f) = k

\* What a handler answers with: the same, or a hit without its metadata.
BareHit(f, name) == f.tag = None /\ f.meta = OnlyName(name)

AnswerFor(f, k, name) ==
    /\ Opened(f) /\ KeyOf(f) = k
    /\ Describes(f.meta, f.content) \/ BareHit(f, name)

\* In the cache, on its way there or back: such a file without its TXID.
StoredFor(f, k) == GenuineFor(f, k) /\ f.tag = None

CacheInv ==
    /\ \A k \in CacheKeys : store[k] # NoValue => StoredFor(store[k], k)
    /\ \A s \in Saver : putting[s] # C!NoSet => StoredFor(putting[s].val, putting[s].key)
    /\ \A p \in late : StoredFor(p.val, p.key)
    /\ \A s \in Saver : job[s] # NoJob => GenuineFor(job[s].file, job[s].key)
    /\ \A h \in Handler : answer[h].kind = "hit" =>
          StoredFor(answer[h].val, asked[h]) /\ answer[h].meta \in {answer[h].val, NoValue}

HandlerInv ==
    \A h \in Handler :
        /\ pc[h] # "idle" => Validate(req[h])
        /\ IF pc[h] = "lookup" THEN asked[h] = CacheKey(req[h]) ELSE asked[h] = NoKey
        /\ pc[h] = "rpc" => req[h].evk \in LowerEvk
        /\ pc[h] = "respond" => AnswerFor(file[h], CacheKey(req[h]), None)
        /\ pc[h] # "idle" => reply[h] = NoReply
        /\ reply[h].status = "ok" => AnswerFor(reply[h].file, CacheKey(req[h]), req[h].name)

\* A File that a Set shares with its handler already has the name that the
\* handler would give it.
SharedInv ==
    \A s \in Saver, h \in Handler : job[s].owner = h =>
        pc[h] = "respond" /\ job[s].file = file[h] /\ file[h].meta.name = req[h].name

PathInv == TypeOK /\ CacheInv /\ HandlerInv /\ SharedInv
=============================================================================
