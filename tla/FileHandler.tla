---------------------------- MODULE FileHandler ----------------------------
(***************************************************************************)
(* One open SFTP file handle (sftpFileHandler, pkg/vfs/filehandler.go) and *)
(* the file of the space behind it.                                        *)
(*                                                                         *)
(* The request server runs up to eight goroutines that call ReadAt and     *)
(* WriteAt of the same handler at the same time; Workers are those         *)
(* goroutines.  The handler keeps a copy of the whole file (cache,         *)
(* cacheValid, fileSize, etag) under one RWMutex.  ReadAt and WriteAt      *)
(* download the file when the copy is not valid; every WriteAt uploads the *)
(* whole copy again, with the mutex held and with If-Match when the        *)
(* handler has an ETag.                                                    *)
(*                                                                         *)
(* A step of a worker is a call to the gateway or the data gateway, or a   *)
(* critical section of the mutex: sections that only touch the handler's   *)
(* fields are one step, the section of WriteAt spans the upload.  Other    *)
(* clients of OpenCloud change the file between any two steps.             *)
(***************************************************************************)
EXTENDS Overlays, FiniteSets

CONSTANTS
    Workers,          \* the goroutines that serve this handle
    NoWorker,         \* the mutex is free
    Offsets,          \* offsets of requests
    Lengths,          \* buffer lengths of ReadAt
    Chunks,           \* data of WriteAt
    OpenFlags,        \* the flag sets clients open the file with
    StartContents,    \* contents the file may have before the handle is opened
    StartAbsent,      \* may the file be absent before the handle is opened
    ForeignContents,  \* contents other clients upload
    ForeignDeletes,   \* do other clients delete the file
    GetEtag,          \* may (TRUE, FALSE) the answer to GET carry an ETag
    PutEtag,          \* may (TRUE, FALSE) the answer to PUT carry an ETag
    Faults,           \* the calls that may fail
    MaxWrites,        \* bound: WriteAt calls in a behaviour
    MaxForeign        \* bound: uploads and deletions of other clients

FaultKinds == {"touch", "stat", "get", "initiate", "refuse", "timeout"}

\* Everything the proofs need of the constants; TLC evaluates it on each run.
ASSUME ConstantsAssumption ==
    /\ NoWorker \notin Workers
    /\ Zero \in Bytes
    /\ Offsets \subseteq Nat
    /\ Lengths \subseteq Nat
    /\ Chunks \subseteq Seq(Bytes)
    /\ StartContents \subseteq Seq(Bytes)
    /\ StartAbsent \in BOOLEAN
    /\ ForeignContents \subseteq Seq(Bytes)
    /\ ForeignDeletes \in BOOLEAN
    /\ GetEtag \subseteq BOOLEAN
    /\ PutEtag \subseteq BOOLEAN
    /\ Faults \subseteq FaultKinds
    /\ OpenFlags \subseteq SUBSET {"read", "write", "append", "creat", "trunc"}
    /\ MaxWrites \in Nat
    /\ MaxForeign \in Nat

VARIABLES
    \* the file in the space, as the gateway sees it
    versions,    \* every content the file has had, with its author
    current,     \* the version the path has now, 0 when there is no file
    inflight,    \* uploads whose PUT timed out and may still arrive
    \* the handle
    flags,       \* h.flags, {} when no handle is open
    mu,          \* who holds h.mu for writing
    cache, cacheValid, fileSize, etag,
    \* the workers
    pc, req,
    resp,        \* what GET answered: the version read and its ETag header
    session,     \* what InitiateFileUpload was told: length and If-Match
    \* history, read by properties only
    base,        \* the version the cache was made from
    dirty,       \* the writes in the cache that are not in that version
    \* bounds
    writes, foreign

store  == <<versions, current, inflight>>
fields == <<cache, cacheValid, fileSize, etag, base, dirty>>
calls  == <<req, resp, session>>
count  == <<writes, foreign>>
vars   == <<store, flags, mu, fields, pc, calls, count>>

-----------------------------------------------------------------------------
(* Values *)

NoEtag    == 0
NoRequest == [kind |-> "none"]
NoAnswer  == [version |-> 0, etag |-> NoEtag]
NoSession == [length |-> 0, ifMatch |-> NoEtag]

ReadRequests  == [kind : {"read"}, off : Offsets, len : Lengths]
WriteRequests == [kind : {"write"}, off : Offsets, data : Chunks]

\* The content of a version; an absent file counts as empty.
Content(v) == IF v = 0 THEN <<>> ELSE versions[v].data

\* What the flags of the open request let the handle do: the dispatch of the
\* request server together with the checks of Fileread and Filewrite.
Mode(fl) ==
    IF fl \cap {"write", "append", "creat", "trunc"} # {}
    THEN IF "read" \in fl THEN {"read", "write"}
         ELSE IF "write" \in fl THEN {"write"} ELSE {}
    ELSE fl \cap {"read"}

-----------------------------------------------------------------------------
(* The handle *)

Init ==
    /\ \/ StartAbsent /\ versions = <<>> /\ current = 0
       \/ /\ \E c \in StartContents : versions = <<[data |-> c, by |-> "start"]>>
          /\ current = 1
    /\ inflight = {}
    /\ flags = {} /\ mu = NoWorker
    /\ cache = <<>> /\ cacheValid = FALSE /\ fileSize = 0 /\ etag = NoEtag
    /\ base = 0 /\ dirty = {}
    /\ pc = [w \in Workers |-> "idle"]
    /\ req = [w \in Workers |-> NoRequest]
    /\ resp = [w \in Workers |-> NoAnswer]
    /\ session = [w \in Workers |-> NoSession]
    /\ writes = 0 /\ foreign = 0

\* The path gets a new version; the gateway gives it the next ETag.
Store(data, by) ==
    /\ versions' = Append(versions, [data |-> data, by |-> by])
    /\ current' = Len(versions) + 1

\* OpenFile: TouchFile if the flags ask for it, its answer ignored, then a
\* handler with nothing cached.
OpenFile(fl) ==
    /\ flags = {} /\ Mode(fl) # {}
    /\ flags' = fl
    /\ \/ /\ "write" \in fl /\ fl \cap {"creat", "trunc"} # {}
          /\ current = 0
          /\ Store(<<>>, "touch")
       \/ /\ \/ ~("write" \in fl /\ fl \cap {"creat", "trunc"} # {})
             \/ current # 0
             \/ "touch" \in Faults
          /\ UNCHANGED <<versions, current>>
    /\ cache' = <<>> /\ cacheValid' = FALSE /\ fileSize' = 0 /\ etag' = NoEtag
    /\ base' = 0 /\ dirty' = {}
    /\ UNCHANGED <<inflight, mu, pc, calls, count>>

\* The request server lets go of the handle once its reads and writes have
\* returned; the handler has no Close of its own.
CloseFile ==
    /\ flags # {} /\ \A w \in Workers : pc[w] = "idle"
    /\ flags' = {}
    /\ UNCHANGED <<store, mu, fields, pc, calls, count>>

Goto(w, label) == pc' = [pc EXCEPT ![w] = label]

\* The call of w returns to the request server.
Return(w) ==
    /\ Goto(w, "idle")
    /\ req' = [req EXCEPT ![w] = NoRequest]
    /\ resp' = [resp EXCEPT ![w] = NoAnswer]
    /\ session' = [session EXCEPT ![w] = NoSession]

-----------------------------------------------------------------------------
(* ReadAt and WriteAt up to the download *)

ReadAt(w) ==
    /\ pc[w] = "idle" /\ "read" \in Mode(flags)
    /\ \E r \in ReadRequests : req' = [req EXCEPT ![w] = r]
    /\ Goto(w, "check")
    /\ UNCHANGED <<store, flags, mu, fields, resp, session, count>>

\* ReadAt looks at the cache under RLock and lets go of it again.
CheckCache(w) ==
    /\ pc[w] = "check" /\ mu = NoWorker
    /\ Goto(w, IF cacheValid THEN "serve" ELSE "stat")
    /\ UNCHANGED <<store, flags, mu, fields, calls, count>>

\* WriteAt looks at cacheValid without the mutex.  A read that races with a
\* download storing TRUE gets the old value or the new one: the step comes
\* before or after that of the download.
WriteAt(w) ==
    /\ pc[w] = "idle" /\ "write" \in Mode(flags) /\ writes < MaxWrites
    /\ \E r \in WriteRequests : req' = [req EXCEPT ![w] = r]
    /\ Goto(w, IF cacheValid THEN "lock" ELSE "stat")
    /\ writes' = writes + 1
    /\ UNCHANGED <<store, flags, mu, fields, resp, session, foreign>>

-----------------------------------------------------------------------------
(* downloadFile *)

\* A failed download ends ReadAt with an error; WriteAt ignores the error.
DownloadFails(w) ==
    /\ \/ req[w].kind = "read" /\ Return(w)
       \/ req[w].kind = "write" /\ Goto(w, "lock") /\ UNCHANGED calls
    /\ UNCHANGED <<store, flags, mu, fields, count>>

StatFails(w) == pc[w] = "stat" /\ "stat" \in Faults /\ DownloadFails(w)

Stat(w) ==
    /\ pc[w] = "stat"
    /\ Goto(w, IF current = 0 THEN "empty" ELSE "get")
    /\ UNCHANGED <<store, flags, mu, fields, calls, count>>

GetFails(w) ==
    /\ pc[w] = "get"
    /\ current = 0 \/ "get" \in Faults
    /\ DownloadFails(w)

\* InitiateFileDownload and GET: the content of the file at this moment.
Get(w) ==
    /\ pc[w] = "get" /\ current # 0
    /\ \E header \in GetEtag :
          resp' = [resp EXCEPT ![w] =
                     [version |-> current,
                      etag |-> IF header THEN current ELSE NoEtag]]
    /\ Goto(w, "fill")
    /\ UNCHANGED <<store, flags, mu, fields, req, session, count>>

Downloaded(w) == Goto(w, IF req[w].kind = "read" THEN "serve" ELSE "lock")

\* A mutant of CacheEmpty: the bytes stay.
CacheForgets(w) ==
    /\ pc[w] = "empty" /\ mu = NoWorker
    /\ cacheValid' = TRUE /\ fileSize' = 0 /\ base' = 0 /\ dirty' = {}
    /\ Downloaded(w)
    /\ UNCHANGED <<store, flags, mu, cache, etag, calls, count>>

\* The file was not found: an empty cache; the ETag stays as it was.
CacheEmpty(w) ==
    /\ pc[w] = "empty" /\ mu = NoWorker
    /\ cache' = <<>> /\ cacheValid' = TRUE /\ fileSize' = 0
    /\ base' = 0 /\ dirty' = {}
    /\ Downloaded(w)
    /\ UNCHANGED <<store, flags, mu, etag, calls, count>>

\* What a download stores, with a given ETag; and two mutants of CacheFill: an
\* ETag once known is kept, and the cache is filled without the mutex.
Filled(w, tag) ==
    /\ cache' = Content(resp[w].version) /\ cacheValid' = TRUE
    /\ fileSize' = Len(Content(resp[w].version))
    /\ etag' = tag
    /\ base' = resp[w].version /\ dirty' = {}
    /\ resp' = [resp EXCEPT ![w] = NoAnswer]
    /\ Downloaded(w)
    /\ UNCHANGED <<store, flags, mu, req, session, count>>
CacheFillKeepsEtag(w) ==
    /\ pc[w] = "fill" /\ mu = NoWorker
    /\ Filled(w, IF etag = NoEtag THEN resp[w].etag ELSE etag)
CacheFillUnlocked(w) == pc[w] = "fill" /\ Filled(w, resp[w].etag)

\* The body becomes the cache, whatever the cache has become meanwhile.
CacheFill(w) ==
    pc[w] = "fill" /\ mu = NoWorker /\ Filled(w, resp[w].etag)

-----------------------------------------------------------------------------
(* readFromCache *)

\* How many bytes a read of len bytes at off copies out of the cache, and
\* whether it reports io.EOF.
ReadCount(off, len) ==
    IF off >= fileSize THEN 0
    ELSE IF Len(cache) - off < len THEN Len(cache) - off ELSE len

ReadEOF(off, len) == off >= fileSize \/ off + ReadCount(off, len) >= fileSize

Serve(w) ==
    /\ pc[w] = "serve" /\ mu = NoWorker
    /\ Return(w)
    /\ UNCHANGED <<store, flags, mu, fields, count>>

-----------------------------------------------------------------------------
(* WriteAt under the mutex, and uploadFile *)

\* A mutant of LockAndWrite: fileSize does not follow a growing cache.
LockAndWriteKeepsSize(w) ==
    /\ pc[w] = "lock" /\ mu = NoWorker
    /\ mu' = w
    /\ cache' = Overwrite(cache, req[w]) /\ dirty' = dirty \cup {req[w]}
    /\ Goto(w, "initiate")
    /\ UNCHANGED <<store, flags, cacheValid, fileSize, etag, base, calls, count>>

LockAndWrite(w) ==
    /\ pc[w] = "lock" /\ mu = NoWorker
    /\ mu' = w
    /\ cache' = Overwrite(cache, req[w])
    /\ fileSize' = IF Len(cache) < End(req[w]) THEN End(req[w]) ELSE fileSize
    /\ dirty' = dirty \cup {req[w]}
    /\ Goto(w, "initiate")
    /\ UNCHANGED <<store, flags, cacheValid, etag, base, calls, count>>

\* A mutant of UploadFails: the mutex stays locked.
UploadFailsLocked(w) ==
    Return(w) /\ UNCHANGED <<versions, current, flags, mu, fields, count>>

\* uploadFile returned an error: the mutex is released, the cache keeps the
\* bytes that were not stored.
UploadFails(w) ==
    /\ mu' = NoWorker
    /\ Return(w)
    /\ UNCHANGED <<versions, current, flags, fields, count>>

InitiateFails(w) ==
    /\ pc[w] = "initiate" /\ "initiate" \in Faults
    /\ UploadFails(w) /\ UNCHANGED inflight

\* Mutants of Initiate: no If-Match; the mutex is released before the PUT.
InitiateWithoutEtag(w) ==
    /\ pc[w] = "initiate"
    /\ session' = [session EXCEPT ![w] = [length |-> fileSize, ifMatch |-> NoEtag]]
    /\ Goto(w, "put")
    /\ UNCHANGED <<store, flags, mu, fields, req, resp, count>>
InitiateUnlocks(w) ==
    /\ pc[w] = "initiate"
    /\ session' = [session EXCEPT ![w] = [length |-> fileSize, ifMatch |-> etag]]
    /\ mu' = NoWorker /\ Goto(w, "put")
    /\ UNCHANGED <<store, flags, fields, req, resp, count>>

Initiate(w) ==
    /\ pc[w] = "initiate"
    /\ session' = [session EXCEPT ![w] =
                     [length |-> fileSize, ifMatch |-> etag]]
    /\ Goto(w, "put")
    /\ UNCHANGED <<store, flags, mu, fields, req, resp, count>>

\* The storage compares If-Match, if there is one, when it takes the upload.
Matches(ifMatch) == ifMatch \in {NoEtag, current}

Body == SubSeq(cache, 1, fileSize)

PutStored(w) ==
    /\ pc[w] = "put" /\ Matches(session[w].ifMatch)
    /\ Store(Body, "handle")
    /\ \E header \in PutEtag :
          etag' = IF header THEN Len(versions) + 1 ELSE etag
    /\ base' = Len(versions) + 1 /\ dirty' = {}
    /\ mu' = NoWorker
    /\ Return(w)
    /\ UNCHANGED <<inflight, flags, cache, cacheValid, fileSize, count>>

\* A mutant of PutRefused: after a conflict the ETag is dropped.
PutRefusedForgets(w) ==
    /\ pc[w] = "put"
    /\ ~Matches(session[w].ifMatch) \/ "refuse" \in Faults
    /\ mu' = NoWorker /\ etag' = NoEtag
    /\ Return(w)
    /\ UNCHANGED <<store, flags, cache, cacheValid, fileSize, base, dirty, count>>

PutRefused(w) ==
    /\ pc[w] = "put"
    /\ ~Matches(session[w].ifMatch) \/ "refuse" \in Faults
    /\ UploadFails(w) /\ UNCHANGED inflight

\* The HTTP client gives up after its timeout; the upload is still under way.
PutTimesOut(w) ==
    /\ pc[w] = "put" /\ "timeout" \in Faults
    /\ inflight' = inflight \cup {[data |-> Body, ifMatch |-> session[w].ifMatch,
                                   base |-> base, writes |-> dirty]}
    /\ UploadFails(w)

-----------------------------------------------------------------------------
(* What happens without the handle *)

LateUpload(u) ==
    /\ Matches(u.ifMatch)
    /\ Store(u.data, "handle")
    /\ inflight' = inflight \ {u}
    /\ UNCHANGED <<flags, mu, fields, pc, calls, count>>

LoseUpload(u) ==
    /\ inflight' = inflight \ {u}
    /\ UNCHANGED <<versions, current, flags, mu, fields, pc, calls, count>>

ForeignWrite ==
    /\ foreign < MaxForeign /\ foreign' = foreign + 1
    /\ \E c \in ForeignContents : Store(c, "other")
    /\ UNCHANGED <<inflight, flags, mu, fields, pc, calls, writes>>

ForeignDelete ==
    /\ foreign < MaxForeign /\ foreign' = foreign + 1
    /\ ForeignDeletes /\ current # 0
    /\ current' = 0
    /\ UNCHANGED <<versions, inflight, flags, mu, fields, pc, calls, writes>>

-----------------------------------------------------------------------------

\* Steps of w that wait for the mutex, and steps that do not.
LockStep(w) ==
    CheckCache(w) \/ CacheEmpty(w) \/ CacheFill(w) \/ Serve(w) \/ LockAndWrite(w)

CallStep(w) ==
    \/ StatFails(w) \/ Stat(w) \/ GetFails(w) \/ Get(w)
    \/ InitiateFails(w) \/ Initiate(w)
    \/ PutStored(w) \/ PutRefused(w) \/ PutTimesOut(w)

Request(w) == ReadAt(w) \/ WriteAt(w)

Environment ==
    \/ \E u \in inflight : LateUpload(u) \/ LoseUpload(u)
    \/ ForeignWrite \/ ForeignDelete

Next ==
    \/ \E fl \in OpenFlags : OpenFile(fl)
    \/ CloseFile
    \/ \E w \in Workers : Request(w) \/ CallStep(w) \/ LockStep(w)
    \/ Environment

Spec == Init /\ [][Next]_vars

\* Calls return (the HTTP client has a timeout; for the gateway calls, which
\* have no deadline, this assumes that the gateway answers), and a goroutine
\* waiting for h.mu gets it (the mutex hands over to starving waiters).
Fairness ==
    \A w \in Workers : WF_vars(CallStep(w)) /\ SF_vars(LockStep(w))

FairSpec == Spec /\ Fairness

-----------------------------------------------------------------------------
(* Types *)

Labels == {"idle", "check", "stat", "get", "empty", "fill", "serve", "lock",
           "initiate", "put"}

Authors == {"start", "touch", "handle", "other"}

VersionNumbers == 0 .. Len(versions)
Answers  == [version : VersionNumbers, etag : VersionNumbers]
Sessions == [length : Nat, ifMatch : VersionNumbers]
Uploads  == [data : Seq(Bytes), ifMatch : VersionNumbers, base : VersionNumbers,
             writes : SUBSET WriteRequests]

FileTypes ==
    /\ versions \in Seq([data : Seq(Bytes), by : Authors])
    /\ current \in VersionNumbers
    /\ inflight \subseteq Uploads

HandleTypes ==
    /\ flags \in OpenFlags \cup {{}}
    /\ mu \in Workers \cup {NoWorker}
    /\ cache \in Seq(Bytes) /\ cacheValid \in BOOLEAN
    /\ fileSize \in Nat /\ etag \in VersionNumbers
    /\ base \in VersionNumbers /\ dirty \subseteq WriteRequests

WorkerTypes ==
    /\ pc \in [Workers -> Labels]
    /\ req \in [Workers -> ReadRequests \cup WriteRequests \cup {NoRequest}]
    /\ resp \in [Workers -> Answers]
    /\ session \in [Workers -> Sessions]

\* The types of the variables; every version number names a version.
TypeOK ==
    /\ FileTypes /\ HandleTypes /\ WorkerTypes
    /\ writes \in Nat /\ foreign \in Nat

-----------------------------------------------------------------------------
(* What the handle has to keep *)

\* ReadAt keeps the promise of io.ReaderAt (filehandler.go:56): it copies what
\* the cache has of the range and says io.EOF exactly when the range reaches
\* the end.  It needs fileSize to follow the cache through downloads, growing
\* writes and failed uploads; a stale size is a short read without EOF or a
\* slice out of range.
ReadContract ==
    \A off \in Offsets, len \in Lengths :
        /\ ReadCount(off, len) = Cardinality((off + 1 .. off + len) \cap DOMAIN cache)
        /\ ReadEOF(off, len) <=> off + len >= Len(cache)

\* Between InitiateFileUpload and PUT nothing touches the cache: the body sent
\* has the Upload-Length announced and was checked under the ETag announced,
\* although other goroutines download into the same cache (uploadFile).
UploadAsAnnounced ==
    \A w \in Workers : pc[w] = "put" =>
        session[w] = [length |-> Len(Body), ifMatch |-> etag]

\* The cache is one version of the file with the writes of this handle that
\* are not in that version, whoever downloaded it and whichever uploads
\* failed; without failed uploads a reader sees bytes of one version only.
CacheIsVersionPlusWrites == IsOverlay(cache, Content(base), dirty)

\* A version the file will not have again.
Gone(v) == current = 0 \/ v < current

\* The ETag is that of the version the cache was made from, or of a version
\* the file will not have again, so that If-Match protects what the cache
\* does not show (filehandler.go:244).
EtagDescribesCache == etag = base \/ Gone(etag)

\* A step in which the storage takes an upload of this handle.
Committed ==
    /\ Len(versions') > Len(versions)
    /\ versions'[Len(versions')].by = "handle"

Newest == versions[Len(versions)].data

\* An upload replaces the version that it was made from: it changes the
\* content the file has at this moment by writes of the handle and nothing
\* else.  What another client or another WriteAt stored meanwhile is not
\* overwritten, also not by an upload that arrives after its timeout.
NoLostUpdate ==
    [][Committed =>
         \E S \in {dirty} \cup {u.writes : u \in inflight} :
             IsOverlay(Newest', Content(current), S)]_vars

\* When WriteAt returns success the stored file has its bytes, also when
\* downloads of other goroutines replaced the cache on the way.
AckedWriteStored ==
    [][\A w \in Workers :
         pc[w] = "put" /\ pc'[w] = "idle" /\ Committed => Holds(Newest', req[w])]_vars

\* Nobody is about to replace the cache.
NoDownload == \A w \in Workers : pc[w] \notin {"stat", "get", "empty", "fill"}

StaleHandle == flags # {} /\ cacheValid /\ NoDownload /\ etag # NoEtag /\ Gone(etag)

\* A handle whose file was changed by somebody else stays useless for writing
\* until it is opened again: cacheValid is never taken back (ReadAt, WriteAt).
StaleHandleNeverCommits ==
    [][StaleHandle =>
         /\ flags' = {} \/ StaleHandle'
         /\ Committed => \E u \in inflight : u \notin inflight']_vars

\* The writes that may still reach the file: those of calls under way, those
\* in the cache, and those of uploads that timed out.
Pending ==
    {req[w] : w \in {v \in Workers : req[v].kind = "write"}}
        \cup dirty \cup UNION {u.writes : u \in inflight}

\* The handle is an implementation of SpaceFile: whatever the goroutines, the
\* timeouts and the other clients do, the file changes by uploads of others or
\* by writes of this handle over what the file holds at that moment, and a
\* write that a new download discarded from the cache never arrives.
File == INSTANCE SpaceFile WITH pending <- Pending

ImplementsSpaceFile == File!Spec

\* Every ReadAt and WriteAt returns: no call waits for ever on h.mu, which is
\* held across the upload and taken again by downloadFile.
RequestReturns == \A w \in Workers : pc[w] # "idle" ~> pc[w] = "idle"

=============================================================================
