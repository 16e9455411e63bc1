-------------------------- MODULE FileHandler_etag --------------------------
(***************************************************************************)
(* When updates are not lost: which uploads of FileHandler are safe, that  *)
(* If-Match makes all of them safe if the gateway hands out ETags and the  *)
(* handle downloads what is there, and that a client which is alone and    *)
(* waits for its answers needs no ETags.                                   *)
(***************************************************************************)
EXTENDS FileHandler_safety

-----------------------------------------------------------------------------
(* Safe uploads *)

\* An upload, of the version base under the ETag ifMatch, overwrites nothing
\* that it was not made from: the base is what the file has, or else the ETag
\* is one that makes the storage refuse it.
IsSafe(ifMatch, b) ==
    b = current \/ (ifMatch # NoEtag /\ (ifMatch = b \/ Gone(ifMatch)))

SafeUploads ==
    /\ \A w \in Workers : pc[w] = "put" => IsSafe(etag, base)
    /\ \A u \in inflight : IsSafe(u.ifMatch, u.base)

\* A safe upload that is taken was made from what the file has.
LEMMA TakenFromCurrent ==
    ASSUME TypeInv, NEW ifMatch, NEW b \in VersionNumbers, IsSafe(ifMatch, b), Matches(ifMatch)
    PROVE  b = current
<1>1. CASE ifMatch = NoEtag
  BY <1>1 DEF IsSafe
<1>2. CASE ifMatch = current /\ ifMatch # NoEtag
  <2>1. current \in Nat /\ current # 0
    BY <1>2 DEF TypeInv, TypeOK, FileTypes, VersionNumbers, NoEtag
  <2>2. ~Gone(current)
    BY <2>1 DEF Gone
  <2> QED BY <1>2, <2>2 DEF IsSafe
<1> QED BY <1>1, <1>2 DEF Matches

\* A safe PUT replaces the version its body was made from.
LEMMA PutOverCurrent ==
    ASSUME TypeInv, UploadInv, OverlayInv, SafeUploads, NEW w \in Workers, PutStored(w)
    PROVE  /\ Newest' = cache /\ IsOverlay(cache, Content(current), dirty)
           /\ Len(versions') = Len(versions) + 1 /\ current' = Len(versions')
           /\ versions'[Len(versions')].by = "handle"
<1>1. /\ Store(Body, "handle") /\ "handle" \in Authors
      /\ Body = cache /\ cache \in Seq(Bytes)
  BY ContentType DEF PutStored, Authors
<1>2. /\ versions'[Len(versions')] = [data |-> cache, by |-> "handle"]
      /\ Len(versions') = Len(versions) + 1 /\ current' = Len(versions')
  BY <1>1, StoreType DEF TypeInv
<1>3. IsSafe(etag, base) /\ Matches(etag) /\ base \in VersionNumbers
  BY DEF PutStored, UploadInv, UploadAsAnnounced, SafeUploads, TypeInv, TypeOK, HandleTypes
<1>4. base = current
  BY <1>3, TakenFromCurrent
<1> QED BY <1>2, <1>4 DEF Newest, OverlayInv, CacheIsVersionPlusWrites

\* Likewise a safe upload that arrives after its timeout.
LEMMA LatePutOverCurrent ==
    ASSUME TypeInv, OverlayInv, SafeUploads, NEW u \in inflight, LateUpload(u)
    PROVE  /\ Newest' = u.data /\ IsOverlay(u.data, Content(current), u.writes)
           /\ Len(versions') = Len(versions) + 1 /\ current' = Len(versions')
           /\ versions'[Len(versions')].by = "handle"
<1>1. Store(u.data, "handle") /\ u.data \in Seq(Bytes) /\ "handle" \in Authors
  BY DEF LateUpload, Authors, TypeInv, TypeOK, FileTypes, Uploads
<1>2. /\ versions'[Len(versions')] = [data |-> u.data, by |-> "handle"]
      /\ Len(versions') = Len(versions) + 1 /\ current' = Len(versions')
  BY <1>1, StoreType DEF TypeInv
<1>3. IsSafe(u.ifMatch, u.base) /\ Matches(u.ifMatch) /\ u.base \in VersionNumbers
  BY DEF LateUpload, SafeUploads, TypeInv, TypeOK, FileTypes, Uploads
<1>4. u.base = current
  BY <1>3, TakenFromCurrent
<1> QED BY <1>2, <1>4 DEF Newest, OverlayInv, InflightInv

\* What NoLostUpdate says of a step.
LaidOver ==
    \E S \in {dirty} \cup {u.writes : u \in inflight} : IsOverlay(Newest', Content(current), S)

\* The uploads that commit are those of PutStored and LateUpload; a touch and
\* other clients store in their own name.
LEMMA SafeStep ==
    ASSUME TypeInv, UploadInv, OverlayInv, [Next]_vars, Committed, SafeUploads
    PROVE  LaidOver
<1>1. versions' # versions
  BY DEF Committed, TypeInv, TypeOK, FileTypes
<1>2. CASE \E w \in Workers : PutStored(w)
  BY <1>2, PutOverCurrent DEF LaidOver
<1>3. CASE \E u \in inflight : LateUpload(u)
  BY <1>3, LatePutOverCurrent DEF LaidOver
<1>4. CASE ForeignWrite
  <2>1. PICK c \in ForeignContents : Store(c, "other")
    BY <1>4 DEF ForeignWrite
  <2>2. c \in Seq(Bytes) /\ "other" \in Authors
    BY ConstantsAssumption DEF ConstantsAssumption, Authors
  <2>3. versions'[Len(versions')] = [data |-> c, by |-> "other"]
    BY <2>1, <2>2, StoreType DEF TypeInv
  <2> QED BY <2>3 DEF Committed
<1>5. CASE \E fl \in OpenFlags : OpenFile(fl)
  <2>1. Store(<<>>, "touch")
    BY <1>1, <1>5 DEF OpenFile
  <2>2. versions'[Len(versions')] = [data |-> <<>>, by |-> "touch"]
    BY <2>1, EmptySeq, StoreType DEF TypeInv, Authors
  <2> QED BY <2>2 DEF Committed
<1> QED BY <1>1, <1>2, <1>3, <1>4, <1>5 DEF Next, Request, CallStep, LockStep,
   Environment,
        CloseFile, ReadAt, WriteAt, StatFails, Stat, GetFails, Get, CheckCache, CacheEmpty,
        CacheFill, Filled, Serve, LockAndWrite, InitiateFails, Initiate, PutRefused, PutTimesOut,
        UploadFails, DownloadFails, LoseUpload, ForeignDelete, store, vars

\* Whatever the gateway, the storage and other clients do, an update is lost only
\* where an upload is not safe: it has no ETag, or that of something else than
\* its cache shows, and the file is not what it was made from.
THEOREM OnlyUnsafeUploadsLose == Spec => [][SafeUploads /\ Committed => LaidOver]_vars
<1>1. TypeInv /\ UploadInv /\ OverlayInv /\ [Next]_vars =>
         [SafeUploads /\ Committed => LaidOver]_vars
  BY SafeStep
<1> QED BY <1>1, TypeCorrect, UploadsCorrect, OverlaysCorrect, PTL DEF Spec

\* Where every upload is safe no update is lost.
LEMMA SafeIsEnough == Spec /\ []SafeUploads => NoLostUpdate
<1>1. SafeUploads /\ [SafeUploads /\ Committed => LaidOver]_vars =>
         [Committed =>
            \E S \in {dirty} \cup {u.writes : u \in inflight} :
                IsOverlay(Newest', Content(current), S)]_vars
  BY DEF LaidOver
<1> QED BY <1>1, OnlyUnsafeUploadsLose, PTL DEF NoLostUpdate

-----------------------------------------------------------------------------
(* A client that is alone *)

\* One goroutine serves the handle, as when the client waits for each answer;
\* nobody else changes the file, no download fails and no upload times out.
\* ETags may be missing, the file may be, and touches and uploads may fail.
SoleClient ==
    /\ \A v, w \in Workers : v = w
    /\ MaxForeign = 0
    /\ Faults \cap {"stat", "get", "timeout"} = {}

\* The handle knows what the file has, also while it is being downloaded.
FreshInv == inflight = {} /\ (cacheValid => base = current)

CallInv ==
    \A w \in Workers :
        /\ pc[w] = "get" => current # 0
        /\ pc[w] = "empty" => current = 0
        /\ pc[w] = "fill" => resp[w].version = current
        /\ pc[w] \in {"lock", "initiate", "put"} => cacheValid

SoleInv == FreshInv /\ CallInv

\* The file only changes by the uploads of the one goroutine, which leave the
\* cache at the new version, and by the touch of OpenFile, which empties it.
LEMMA SoleStep ==
    ASSUME SoleClient, TypeInv, UploadInv, SoleInv, [Next]_vars
    PROVE  SoleInv'
<1>a. /\ pc \in [Workers -> Labels] /\ resp \in [Workers -> Answers]
      /\ \A v, w \in Workers : v = w
  BY DEF TypeInv, TypeOK, WorkerTypes, SoleClient
<1>b. foreign \in Nat /\ ~(foreign < MaxForeign)
  BY DEF TypeInv, TypeOK, SoleClient
<1>1. ASSUME NEW w \in Workers, ReadAt(w) PROVE SoleInv'
  BY <1>1, <1>a DEF ReadAt, SoleInv, FreshInv, CallInv, Goto, store, fields, count
<1>2. ASSUME NEW w \in Workers, CheckCache(w) PROVE SoleInv'
  BY <1>2, <1>a DEF CheckCache, SoleInv, FreshInv, CallInv, Goto, store, fields, calls, count
<1>3. ASSUME NEW w \in Workers, WriteAt(w) PROVE SoleInv'
  BY <1>3, <1>a DEF WriteAt, SoleInv, FreshInv, CallInv, Goto, store, fields
<1>4. ASSUME NEW w \in Workers, StatFails(w) PROVE SoleInv'
  BY <1>4 DEF StatFails, SoleClient
<1>5. ASSUME NEW w \in Workers, Stat(w) PROVE SoleInv'
  BY <1>5, <1>a DEF Stat, SoleInv, FreshInv, CallInv, Goto, store, fields, calls, count
<1>6. ASSUME NEW w \in Workers, GetFails(w) PROVE SoleInv'
  BY <1>6 DEF GetFails, SoleClient, SoleInv, CallInv
<1>7. ASSUME NEW w \in Workers, Get(w) PROVE SoleInv'
  <2>1. PICK tag : resp' = [resp EXCEPT ![w] = [version |-> current, etag |-> tag]]
    BY <1>7 DEF Get
  <2> QED BY <1>7, <1>a, <2>1 DEF Get, SoleInv, FreshInv, CallInv, Goto, store, fields, count
<1>8. ASSUME NEW w \in Workers, CacheEmpty(w) PROVE SoleInv'
  BY <1>8, <1>a DEF CacheEmpty, SoleInv, FreshInv, CallInv, Goto, Downloaded, store, calls, count
<1>9. ASSUME NEW w \in Workers, CacheFill(w) PROVE SoleInv'
  BY <1>9, <1>a DEF CacheFill, SoleInv, FreshInv, CallInv, Goto, Filled, Downloaded, store, count
<1>10. ASSUME NEW w \in Workers, Serve(w) PROVE SoleInv'
  BY <1>10, <1>a DEF Serve, SoleInv, FreshInv, CallInv, Goto, Return, store, fields, count
<1>11. ASSUME NEW w \in Workers, LockAndWrite(w) PROVE SoleInv'
  BY <1>11, <1>a DEF LockAndWrite, SoleInv, FreshInv, CallInv, Goto, store, calls, count
<1>12. ASSUME NEW w \in Workers, InitiateFails(w) PROVE SoleInv'
  BY <1>12, <1>a DEF InitiateFails, SoleInv, FreshInv, CallInv, Goto, UploadFails, Return, fields, count
<1>13. ASSUME NEW w \in Workers, Initiate(w) PROVE SoleInv'
  BY <1>13, <1>a DEF Initiate, SoleInv, FreshInv, CallInv, Goto, store, fields, count
<1>14. ASSUME NEW w \in Workers, PutStored(w) PROVE SoleInv'
  <2>1. current' = Len(versions) + 1 /\ base' = current' /\ UNCHANGED inflight
    BY <1>14 DEF PutStored, Store
  <2>2. \A v \in Workers : pc'[v] = "idle"
    BY <1>14, <1>a DEF PutStored, Return, Goto
  <2> QED BY <2>1, <2>2 DEF SoleInv, FreshInv, CallInv
<1>15. ASSUME NEW w \in Workers, PutRefused(w) PROVE SoleInv'
  BY <1>15, <1>a DEF PutRefused, SoleInv, FreshInv, CallInv, Goto, UploadFails, Return, fields, count
<1>16. ASSUME NEW w \in Workers, PutTimesOut(w) PROVE SoleInv'
  BY <1>16 DEF PutTimesOut, SoleClient
<1>17. ASSUME NEW fl \in OpenFlags, OpenFile(fl) PROVE SoleInv'
  <2>1. \A w \in Workers : pc'[w] = "idle"
    BY <1>17 DEF OpenFile, UploadInv, IdleInv
  <2> QED BY <1>17, <2>1 DEF OpenFile, SoleInv, FreshInv, CallInv
<1>18. ASSUME CloseFile PROVE SoleInv'
  BY <1>18, <1>a DEF CloseFile, SoleInv, FreshInv, CallInv, Goto, store, fields, calls, count
<1>19. ASSUME NEW u \in inflight PROVE SoleInv'
  BY <1>19 DEF SoleInv, FreshInv
<1>20. ASSUME ForeignWrite \/ ForeignDelete PROVE SoleInv'
  BY <1>20, <1>b DEF ForeignWrite, ForeignDelete
<1>21. ASSUME UNCHANGED vars PROVE SoleInv'
  BY <1>21, <1>a DEF vars, SoleInv, FreshInv, CallInv, Goto, store, fields, calls, count
<1> QED BY <1>1, <1>2, <1>3, <1>4, <1>5, <1>6, <1>7, <1>8, <1>9, <1>10, <1>11,
   <1>12, <1>13, <1>14, <1>15, <1>16, <1>17, <1>18, <1>19, <1>20, <1>21 DEF
   Next, Request, CallStep, LockStep, Environment

\* A client that works alone and waits for each answer loses nothing, also where
\* neither GET nor PUT brings an ETag: what it uploads is what the file has with
\* its own write over it, after failed uploads and a file that was missing too.
THEOREM SoleClientLosesNothing == ASSUME SoleClient PROVE Spec => NoLostUpdate
<1>1. Init => SoleInv
  BY DEF Init, SoleInv, FreshInv, CallInv
<1>2. TypeInv /\ UploadInv /\ SoleInv /\ [Next]_vars => SoleInv'
  BY SoleStep
<1>3. SoleInv => SafeUploads
  BY DEF SoleInv, FreshInv, CallInv, SafeUploads, IsSafe
<1> QED BY <1>1, <1>2, <1>3, TypeCorrect, UploadsCorrect, SafeIsEnough, PTL DEF Spec

-----------------------------------------------------------------------------
(* Uploads under ETags *)

\* The downloads of the handle find the file and an ETag.  Each part is
\* needed: WriteAt ignores that a download failed, and the branch of
\* downloadFile for a missing file leaves the ETag as it was.
EtagsProtect ==
    /\ GetEtag \subseteq {TRUE}
    /\ Faults \cap {"stat", "get"} = {}
    /\ ~StartAbsent /\ ~ForeignDeletes

-----------------------------------------------------------------------------

\* There is a file, and nobody believes otherwise.
PresentInv == current # 0 /\ \A w \in Workers : pc[w] # "empty"

\* What is downloaded comes with its ETag.
AnswerInv ==
    \A w \in Workers : pc[w] = "fill" =>
        resp[w].version # 0 /\ resp[w].etag = resp[w].version

\* Nobody writes without an ETag.
GuardedInv ==
    /\ cacheValid => etag # NoEtag
    /\ \A w \in Workers : pc[w] \in {"lock", "initiate", "put"} => cacheValid

\* The ETag announced with a timed out upload is that of its version too.
LateEtagInv ==
    \A u \in inflight :
        u.ifMatch # NoEtag /\ (u.ifMatch = u.base \/ Gone(u.ifMatch))

EtagInv ==
    PresentInv /\ AnswerInv /\ GuardedInv /\ EtagDescribesCache /\ LateEtagInv

\* A new version makes every older one a version the file will not have again,
\* so an ETag that differs from its base stays harmless.
LEMMA StoreKeepsEtags ==
    ASSUME TypeInv, EtagInv, NEW data \in Seq(Bytes), NEW by \in Authors, Store(data, by)
    PROVE  /\ current' # 0
           /\ etag = base \/ etag < current'
           /\ \A u \in inflight :
                 u.ifMatch # NoEtag /\ (u.ifMatch = u.base \/ u.ifMatch < current')
<1>1. etag \in VersionNumbers /\ \A u \in inflight : u.ifMatch \in VersionNumbers
  BY DEF TypeInv, TypeOK, FileTypes, HandleTypes, Uploads
<1>2. Len(versions) \in Nat /\ current' = Len(versions) + 1
  BY StoreType DEF TypeInv
<1>3. current' # 0
  BY <1>2
<1>4. etag = base \/ etag < current'
  BY <1>1, GoneForEver DEF EtagInv, EtagDescribesCache
<1>5. \A u \in inflight : u.ifMatch = u.base \/ u.ifMatch < current'
  BY <1>1, GoneForEver DEF EtagInv, LateEtagInv
<1> QED BY <1>3, <1>4, <1>5 DEF EtagInv, LateEtagInv

\* Every download brings an ETag and every upload announces it: the steps of
\* downloadFile and uploadFile keep EtagInv.
LEMMA EtagStep ==
    ASSUME EtagsProtect, TypeInv, UploadInv, EtagInv, [Next]_vars
    PROVE  EtagInv'
<1>a. pc \in [Workers -> Labels] /\ resp \in [Workers -> Answers]
  BY DEF TypeInv, TypeOK, WorkerTypes
<1>1. ASSUME NEW w \in Workers, ReadAt(w) PROVE EtagInv'
  BY <1>1, <1>a DEF ReadAt, EtagInv, PresentInv, AnswerInv, GuardedInv,
     EtagDescribesCache, LateEtagInv, Gone, NoEtag, Goto, store, fields, count
<1>2. ASSUME NEW w \in Workers, CheckCache(w) PROVE EtagInv'
  BY <1>2, <1>a DEF CheckCache, EtagInv, PresentInv, AnswerInv, GuardedInv,
     EtagDescribesCache, LateEtagInv, Gone, NoEtag, Goto, store, fields, calls,
     count
<1>3. ASSUME NEW w \in Workers, WriteAt(w) PROVE EtagInv'
  BY <1>3, <1>a DEF WriteAt, EtagInv, PresentInv, AnswerInv, GuardedInv,
     EtagDescribesCache, LateEtagInv, Gone, NoEtag, Goto, store, fields
<1>4. ASSUME NEW w \in Workers, StatFails(w) PROVE EtagInv'
  BY <1>4 DEF StatFails, EtagsProtect
<1>5. ASSUME NEW w \in Workers, Stat(w) PROVE EtagInv'
  BY <1>5, <1>a DEF Stat, EtagInv, PresentInv, AnswerInv, GuardedInv,
     EtagDescribesCache, LateEtagInv, Gone, NoEtag, Goto, store, fields, calls,
     count
<1>6. ASSUME NEW w \in Workers, GetFails(w) PROVE EtagInv'
  BY <1>6 DEF GetFails, EtagsProtect, EtagInv, PresentInv
<1>7. ASSUME NEW w \in Workers, Get(w) PROVE EtagInv'
  <2>1. resp' = [resp EXCEPT ![w] = [version |-> current, etag |-> current]]
    BY <1>7 DEF Get, EtagsProtect
  <2> QED BY <1>7, <1>a, <2>1 DEF Get, Goto, store, fields, EtagInv, PresentInv,
     AnswerInv, GuardedInv, EtagDescribesCache, LateEtagInv, Gone, NoEtag
<1>8. ASSUME NEW w \in Workers, CacheEmpty(w) PROVE EtagInv'
  BY <1>8 DEF CacheEmpty, EtagInv, PresentInv
<1>9. ASSUME NEW w \in Workers, CacheFill(w) PROVE EtagInv'
  BY <1>9, <1>a DEF CacheFill, Filled, EtagInv, PresentInv, AnswerInv, GuardedInv,
     EtagDescribesCache, LateEtagInv, Gone, NoEtag, Goto, Downloaded, store, count
<1>10. ASSUME NEW w \in Workers, Serve(w) PROVE EtagInv'
  BY <1>10, <1>a DEF Serve, EtagInv, PresentInv, AnswerInv, GuardedInv,
     EtagDescribesCache, LateEtagInv, Gone, NoEtag, Goto, Return, store, fields,
     count
<1>11. ASSUME NEW w \in Workers, LockAndWrite(w) PROVE EtagInv'
  BY <1>11, <1>a DEF LockAndWrite, EtagInv, PresentInv, AnswerInv, GuardedInv,
     EtagDescribesCache, LateEtagInv, Gone, NoEtag, Goto, store, calls, count
<1>12. ASSUME NEW w \in Workers, InitiateFails(w) PROVE EtagInv'
  BY <1>12, <1>a DEF InitiateFails, EtagInv, PresentInv, AnswerInv, GuardedInv,
     EtagDescribesCache, LateEtagInv, Gone, NoEtag, Goto, Return, UploadFails,
     fields, count
<1>13. ASSUME NEW w \in Workers, Initiate(w) PROVE EtagInv'
  BY <1>13, <1>a DEF Initiate, EtagInv, PresentInv, AnswerInv, GuardedInv,
     EtagDescribesCache, LateEtagInv, Gone, NoEtag, Goto, store, fields, count
<1>14. ASSUME NEW w \in Workers, PutStored(w) PROVE EtagInv'
  <2>1. Store(Body, "handle") /\ Body \in Seq(Bytes) /\ "handle" \in Authors
    BY <1>14, ContentType DEF PutStored, Authors
  <2>2. Len(versions) \in Nat /\ current' = Len(versions) + 1 /\ current' # 0
    <3>1. Len(versions) \in Nat /\ current' = Len(versions) + 1
      BY <2>1, StoreType DEF TypeInv
    <3> QED BY <3>1
  <2>3. etag \in 0 .. Len(versions) /\ etag # 0
    BY <1>14 DEF PutStored, TypeInv, TypeOK, HandleTypes, VersionNumbers, EtagInv,
       GuardedInv, NoEtag
  <2>4. EtagDescribesCache' /\ etag' # 0
    BY <1>14, <2>2, <2>3 DEF PutStored, EtagDescribesCache, Gone
  <2>5. LateEtagInv'
    BY <1>14, <2>1, StoreKeepsEtags DEF PutStored, LateEtagInv, Gone
  <2>6. PresentInv' /\ AnswerInv' /\ GuardedInv'
    BY <1>14, <1>a, <2>2, <2>4 DEF PutStored, Return, Goto, EtagInv, PresentInv,
       AnswerInv, GuardedInv, NoEtag
  <2> QED BY <2>4, <2>5, <2>6 DEF EtagInv
<1>15. ASSUME NEW w \in Workers, PutRefused(w) PROVE EtagInv'
  BY <1>15, <1>a DEF PutRefused, EtagInv, PresentInv, AnswerInv, GuardedInv,
     EtagDescribesCache, LateEtagInv, Gone, NoEtag, Goto, Return, UploadFails,
     fields, count
<1>16. ASSUME NEW w \in Workers, PutTimesOut(w) PROVE EtagInv'
  <2>1. session[w].ifMatch = etag
    BY <1>16 DEF PutTimesOut, UploadInv, UploadAsAnnounced
  <2>2. LateEtagInv'
    BY <1>16, <2>1 DEF PutTimesOut, UploadFails, LateEtagInv, EtagInv, GuardedInv,
       EtagDescribesCache, Gone, NoEtag
  <2> QED BY <1>16, <1>a, <2>2 DEF PutTimesOut, UploadFails, Return, Goto, fields,
     EtagInv, PresentInv,
          AnswerInv, GuardedInv, EtagDescribesCache, Gone
<1>17. ASSUME NEW fl \in OpenFlags, OpenFile(fl) PROVE EtagInv'
  <2>1. UNCHANGED <<versions, current>>
    BY <1>17 DEF OpenFile, EtagInv, PresentInv
  <2>2. \A w \in Workers : pc[w] = "idle"
    BY <1>17 DEF OpenFile, UploadInv, IdleInv
  <2> QED BY <1>17, <2>1, <2>2 DEF OpenFile, calls, EtagInv, PresentInv, AnswerInv,
     GuardedInv,
          EtagDescribesCache, LateEtagInv, Gone, NoEtag
<1>18. ASSUME CloseFile PROVE EtagInv'
  BY <1>18, <1>a DEF CloseFile, EtagInv, PresentInv, AnswerInv, GuardedInv,
     EtagDescribesCache, LateEtagInv, Gone, NoEtag, store, fields, calls, count
<1>19. ASSUME NEW u \in inflight, LateUpload(u) PROVE EtagInv'
  <2>1. u.data \in Seq(Bytes) /\ "handle" \in Authors
    BY DEF TypeInv, TypeOK, FileTypes, Uploads, Authors
  <2> QED BY <1>19, <2>1, StoreKeepsEtags DEF LateUpload, fields, calls, EtagInv,
     PresentInv, AnswerInv, GuardedInv, EtagDescribesCache, LateEtagInv, Gone,
     NoEtag
<1>20. ASSUME NEW u \in inflight, LoseUpload(u) PROVE EtagInv'
  BY <1>20, <1>a DEF LoseUpload, EtagInv, PresentInv, AnswerInv, GuardedInv,
     EtagDescribesCache, LateEtagInv, Gone, NoEtag, fields, calls, count
<1>21. ASSUME ForeignWrite PROVE EtagInv'
  <2>1. PICK c \in ForeignContents : Store(c, "other")
    BY <1>21 DEF ForeignWrite
  <2>2. c \in Seq(Bytes) /\ "other" \in Authors
    BY ConstantsAssumption DEF ConstantsAssumption, Authors
  <2> QED BY <1>21, <2>1, <2>2, StoreKeepsEtags DEF ForeignWrite, fields, calls,
     EtagInv, PresentInv, AnswerInv, GuardedInv, EtagDescribesCache, LateEtagInv,
     Gone, NoEtag
<1>22. ASSUME ForeignDelete PROVE EtagInv'
  BY <1>22 DEF ForeignDelete, EtagsProtect
<1>23. ASSUME UNCHANGED vars PROVE EtagInv'
  BY <1>23, <1>a DEF vars, EtagInv, PresentInv, AnswerInv, GuardedInv,
     EtagDescribesCache, LateEtagInv, Gone, NoEtag, store, fields, calls, count
<1> QED BY <1>1, <1>2, <1>3, <1>4, <1>5, <1>6, <1>7, <1>8, <1>9, <1>10, <1>11,
   <1>12, <1>13, <1>14, <1>15, <1>16, <1>17, <1>18, <1>19, <1>20, <1>21, <1>22,
   <1>23 DEF Next, Request, CallStep, LockStep, Environment

\* No goroutine ever uploads without an ETag, and the one it sends is that of
\* the version its cache was made from, or a dead one (uploadFile).
THEOREM EtagsCorrect == ASSUME EtagsProtect PROVE Spec => []EtagInv
<1>1. Init => EtagInv
  <2> SUFFICES ASSUME Init PROVE EtagInv
    OBVIOUS
  <2>1. current = 1
    BY DEF Init, EtagsProtect
  <2> QED BY <2>1 DEF Init, EtagInv, PresentInv, AnswerInv, GuardedInv,
          EtagDescribesCache, LateEtagInv, NoEtag
<1>2. TypeInv /\ UploadInv /\ EtagInv /\ [Next]_vars => EtagInv'
  BY EtagStep
<1> QED BY <1>1, <1>2, TypeCorrect, UploadsCorrect, PTL DEF Spec

\* When downloads find the file and its ETag, the ETag the handle sends is the
\* one of what it has in its cache, or is refused.
THEOREM EtagsDescribeCaches == ASSUME EtagsProtect PROVE Spec => []EtagDescribesCache
<1>1. EtagInv => EtagDescribesCache
  BY DEF EtagInv
<1> QED BY <1>1, EtagsCorrect, PTL

-----------------------------------------------------------------------------
(* Lost updates *)

Inv == TypeInv /\ UploadInv /\ OverlayInv /\ EtagInv

\* The invariants of WriteAt, downloadFile and uploadFile together: what the
\* argument about lost updates rests on.
THEOREM InvHolds == ASSUME EtagsProtect PROVE Spec => []Inv
<1>1. TypeInv /\ UploadInv /\ OverlayInv /\ EtagInv => Inv
  BY DEF Inv
<1> QED BY <1>1, TypeCorrect, UploadsCorrect, OverlaysCorrect, EtagsCorrect, PTL

\* Under EtagInv every upload is safe.
LEMMA EtagsMakeSafe == Inv => SafeUploads
  BY DEF Inv, EtagInv, GuardedInv, EtagDescribesCache, LateEtagInv, SafeUploads, IsSafe

\* No upload of the handle, in time or late, overwrites what another client or
\* another goroutine stored after the download it is based on.
THEOREM UpdatesAreNotLost == ASSUME EtagsProtect PROVE Spec => NoLostUpdate
  BY EtagsMakeSafe, InvHolds, SafeIsEnough, PTL

-----------------------------------------------------------------------------
(* Refinement *)

\* The operators of SpaceFile are those of FileHandler (same definitions, seen
\* through the refinement mapping of the handler to its file).
LEMMA SameOverlay ==
    /\ \A d, c, S : File!IsOverlay(d, c, S) <=> IsOverlay(d, c, S)
    /\ File!Content(current) = Content(current)
    /\ \A by : File!Appended(by) <=>
          /\ Len(versions') = Len(versions) + 1
          /\ \A v \in DOMAIN versions : versions'[v] = versions[v]
          /\ versions'[Len(versions')].by = by
          /\ current' = Len(versions')
<1>1. \A d, c, S : File!IsOverlay(d, c, S) <=> IsOverlay(d, c, S)
  BY DEF File!IsOverlay, IsOverlay, File!ByteAt, ByteAt, File!Span, Span, File!End,
     End
<1>2. File!Content(current) = Content(current)
  BY DEF File!Content, Content
<1> QED BY <1>1, <1>2 DEF File!Appended, File!Newest

\* Where a pending write is.
LEMMA PendingParts ==
    ASSUME NEW e
    PROVE  /\ e \in Pending <=>
                 \/ \E v \in Workers : req[v].kind = "write" /\ e = req[v]
                 \/ e \in dirty \/ \E u \in inflight : e \in u.writes
           /\ e \in Pending' <=>
                 \/ \E v \in Workers : req'[v].kind = "write" /\ e = req'[v]
                 \/ e \in dirty' \/ \E u \in inflight' : e \in u.writes
<1>1. e \in Pending <=>
         \/ \E v \in Workers : req[v].kind = "write" /\ e = req[v]
         \/ e \in dirty \/ \E u \in inflight : e \in u.writes
  BY DEF Pending
<1>2. e \in Pending' <=>
         \/ \E v \in Workers : req'[v].kind = "write" /\ e = req'[v]
         \/ e \in dirty' \/ \E u \in inflight' : e \in u.writes
  BY DEF Pending
<1> QED BY <1>1, <1>2

\* A step that starts no write makes no write pending.
LEMMA PendingShrinks ==
    ASSUME \A v \in Workers : req'[v].kind = "write" => req'[v] = req[v],
           \A e \in dirty' : e \in Pending,
           \A u \in inflight' : \A e \in u.writes : e \in Pending
    PROVE  Pending' \subseteq Pending
  BY PendingParts

\* The versions there were stay where they are.
LEMMA StoreAppends ==
    ASSUME TypeInv, NEW data \in Seq(Bytes), NEW by \in Authors, Store(data, by)
    PROVE  File!Appended(by)
<1>1. versions \in Seq([data : Seq(Bytes), by : Authors])
  BY DEF TypeInv, TypeOK, FileTypes
<1>2. /\ Len(versions') = Len(versions) + 1 /\ current' = Len(versions')
      /\ versions'[Len(versions')] = [data |-> data, by |-> by]
  BY StoreType DEF TypeInv
<1>3. \A v \in DOMAIN versions : versions'[v] = versions[v]
  BY <1>1 DEF Store
<1> QED BY <1>2, <1>3, SameOverlay

\* Every step of the handle and its surroundings is a step of SpaceFile.
LEMMA StepRefines ==
    ASSUME EtagsProtect, Inv, [Next]_vars
    PROVE  File!Next \/ UNCHANGED File!fileVars
<1>a. /\ pc \in [Workers -> Labels]
      /\ req \in [Workers -> ReadRequests \cup WriteRequests \cup {NoRequest}]
  BY DEF Inv, TypeInv, TypeOK, WorkerTypes
<1>b. NoRequest.kind # "write" /\ \A r \in ReadRequests : r.kind # "write"
  BY DEF NoRequest, ReadRequests
<1>c. /\ dirty \subseteq Pending
      /\ \A u \in inflight : \A e \in u.writes : e \in Pending
      /\ \A v \in Workers : req[v].kind = "write" => req[v] \in Pending
  BY PendingParts
<1>d. ASSUME UNCHANGED <<versions, current>>, Pending' \subseteq Pending
      PROVE  File!Next
  BY <1>d DEF File!Next, File!Forget
<1>1. ASSUME NEW w \in Workers, ReadAt(w) PROVE File!Next \/ UNCHANGED File!fileVars
  <2>1. Pending' \subseteq Pending
    BY <1>1, <1>a, <1>b, <1>c, PendingShrinks DEF ReadAt, Goto, store, fields
  <2> QED BY <1>1, <1>d, <2>1 DEF ReadAt, store
<1>2. ASSUME NEW w \in Workers, CheckCache(w) PROVE File!Next \/ UNCHANGED File!fileVars
  <2>1. Pending' \subseteq Pending
    BY <1>2, <1>a, <1>b, <1>c, PendingShrinks DEF CheckCache, Goto, store, fields,
       calls
  <2> QED BY <1>2, <1>d, <2>1 DEF CheckCache, store
<1>3. ASSUME NEW w \in Workers, WriteAt(w) PROVE File!Next \/ UNCHANGED File!fileVars
  <2>1. PICK r \in WriteRequests : req' = [req EXCEPT ![w] = r]
    BY <1>3 DEF WriteAt
  <2>2. req[w].kind # "write" /\ r.kind = "write"
    BY <1>3, <1>b DEF WriteAt, WriteRequests, Inv, TypeInv, RequestInv
  <2>3. Pending' = Pending \cup {r}
    <3> SUFFICES ASSUME NEW e PROVE e \in Pending' <=> e \in Pending \/ e = r
      OBVIOUS
    <3>1. dirty' = dirty /\ inflight' = inflight
      BY <1>3 DEF WriteAt, store, fields
    <3>2. (\E v \in Workers : req'[v].kind = "write" /\ e = req'[v]) <=>
             (\E v \in Workers : req[v].kind = "write" /\ e = req[v]) \/ e = r
      BY <1>a, <2>1, <2>2
    <3> QED BY <3>1, <3>2, PendingParts
  <2>4. UNCHANGED <<versions, current>>
    BY <1>3 DEF WriteAt, store
  <2> QED BY <2>3, <2>4 DEF File!Next, File!Ask
<1>4. ASSUME NEW w \in Workers, StatFails(w) PROVE File!Next \/ UNCHANGED File!fileVars
  BY <1>4 DEF StatFails, EtagsProtect
<1>5. ASSUME NEW w \in Workers, Stat(w) PROVE File!Next \/ UNCHANGED File!fileVars
  <2>1. Pending' \subseteq Pending
    BY <1>5, <1>a, <1>b, <1>c, PendingShrinks DEF Stat, Goto, store, fields, calls
  <2> QED BY <1>5, <1>d, <2>1 DEF Stat, store
<1>6. ASSUME NEW w \in Workers, GetFails(w) PROVE File!Next \/ UNCHANGED File!fileVars
  BY <1>6 DEF GetFails, EtagsProtect, Inv, EtagInv, PresentInv
<1>7. ASSUME NEW w \in Workers, Get(w) PROVE File!Next \/ UNCHANGED File!fileVars
  <2>1. Pending' \subseteq Pending
    BY <1>7, <1>a, <1>b, <1>c, PendingShrinks DEF Get, Goto, store, fields
  <2> QED BY <1>7, <1>d, <2>1 DEF Get, store
<1>8. ASSUME NEW w \in Workers, CacheEmpty(w) PROVE File!Next \/ UNCHANGED File!fileVars
  <2>1. Pending' \subseteq Pending
    BY <1>8, <1>a, <1>b, <1>c, PendingShrinks DEF CacheEmpty, Downloaded, store,
       calls, Goto
  <2> QED BY <1>8, <1>d, <2>1 DEF CacheEmpty, store
<1>9. ASSUME NEW w \in Workers, CacheFill(w) PROVE File!Next \/ UNCHANGED File!fileVars
  <2>1. Pending' \subseteq Pending
    BY <1>9, <1>a, <1>b, <1>c, PendingShrinks DEF CacheFill, Filled, Downloaded, store, Goto
  <2> QED BY <1>9, <1>d, <2>1 DEF CacheFill, Filled, store
<1>10. ASSUME NEW w \in Workers, Serve(w) PROVE File!Next \/ UNCHANGED File!fileVars
  <2>1. Pending' \subseteq Pending
    BY <1>10, <1>a, <1>b, <1>c, PendingShrinks DEF Serve, Return, store, fields,
       Goto
  <2> QED BY <1>10, <1>d, <2>1 DEF Serve, store
<1>11. ASSUME NEW w \in Workers, LockAndWrite(w) PROVE File!Next \/ UNCHANGED File!fileVars
  <2>0. req[w].kind = "write"
    BY <1>11 DEF LockAndWrite, WriteRequests, Inv, TypeInv, RequestInv
  <2>1. Pending' \subseteq Pending
    BY <1>11, <1>c, <2>0, PendingShrinks DEF LockAndWrite, store, calls
  <2> QED BY <1>11, <1>d, <2>1 DEF LockAndWrite, store
<1>12. ASSUME NEW w \in Workers, InitiateFails(w) PROVE File!Next \/ UNCHANGED File!fileVars
  <2>1. Pending' \subseteq Pending
    BY <1>12, <1>a, <1>b, <1>c, PendingShrinks DEF InitiateFails, UploadFails,
       Return, fields, Goto
  <2> QED BY <1>12, <1>d, <2>1 DEF InitiateFails, UploadFails
<1>13. ASSUME NEW w \in Workers, Initiate(w) PROVE File!Next \/ UNCHANGED File!fileVars
  <2>1. Pending' \subseteq Pending
    BY <1>13, <1>a, <1>b, <1>c, PendingShrinks DEF Initiate, Goto, store, fields
  <2> QED BY <1>13, <1>d, <2>1 DEF Initiate, store
<1>14. ASSUME NEW w \in Workers, PutStored(w) PROVE File!Next \/ UNCHANGED File!fileVars
  <2>1. Pending' \subseteq Pending
    BY <1>14, <1>a, <1>b, <1>c, PendingShrinks DEF PutStored, Return
  <2>2. /\ Newest' = cache /\ IsOverlay(cache, Content(current), dirty)
    BY <1>14, EtagsMakeSafe, PutOverCurrent DEF Inv
  <2>3. File!Newest.data' = Newest'
    BY DEF File!Newest, Newest
  <2>4. \E S \in SUBSET Pending : File!IsOverlay(File!Newest.data', File!Content(current), S)
    BY <1>c, <2>2, <2>3, SameOverlay
  <2>5. File!Appended("handle")
    BY <1>14, ContentType, StoreAppends DEF PutStored, Authors, Inv
  <2> QED BY <2>1, <2>4, <2>5 DEF File!Next, File!Land
<1>15. ASSUME NEW w \in Workers, PutRefused(w) PROVE File!Next \/ UNCHANGED File!fileVars
  <2>1. Pending' \subseteq Pending
    BY <1>15, <1>a, <1>b, <1>c, PendingShrinks DEF PutRefused, UploadFails, Return,
       fields, Goto
  <2> QED BY <1>15, <1>d, <2>1 DEF PutRefused, UploadFails
<1>16. ASSUME NEW w \in Workers, PutTimesOut(w) PROVE File!Next \/ UNCHANGED File!fileVars
  <2>1. Pending' \subseteq Pending
    BY <1>16, <1>a, <1>b, <1>c, PendingShrinks DEF PutTimesOut, UploadFails, Return,
       fields
  <2> QED BY <1>16, <1>d, <2>1 DEF PutTimesOut, UploadFails
<1>17. ASSUME NEW fl \in OpenFlags, OpenFile(fl) PROVE File!Next \/ UNCHANGED File!fileVars
  <2>1. UNCHANGED <<versions, current>>
    BY <1>17 DEF OpenFile, Inv, EtagInv, PresentInv
  <2>2. Pending' \subseteq Pending
    BY <1>17, <1>a, <1>b, <1>c, PendingShrinks DEF OpenFile, calls
  <2> QED BY <1>d, <2>1, <2>2
<1>18. ASSUME CloseFile PROVE File!Next \/ UNCHANGED File!fileVars
  <2>1. Pending' \subseteq Pending
    BY <1>18, <1>a, <1>b, <1>c, PendingShrinks DEF CloseFile, store, fields, calls
  <2> QED BY <1>18, <1>d, <2>1 DEF CloseFile, store
<1>19. ASSUME NEW u \in inflight, LateUpload(u) PROVE File!Next \/ UNCHANGED File!fileVars
  <2>1. Pending' \subseteq Pending
    BY <1>19, <1>a, <1>b, <1>c, PendingShrinks DEF LateUpload, fields, calls
  <2>2. /\ Newest' = u.data /\ IsOverlay(u.data, Content(current), u.writes)
    BY <1>19, EtagsMakeSafe, LatePutOverCurrent DEF Inv
  <2>3. File!Newest.data' = Newest'
    BY DEF File!Newest, Newest
  <2>4. u.writes \subseteq Pending
    BY <1>c
  <2>5. \E S \in SUBSET Pending : File!IsOverlay(File!Newest.data', File!Content(current), S)
    BY <2>2, <2>3, <2>4, SameOverlay
  <2>6. u.data \in Seq(Bytes) /\ "handle" \in Authors
    BY DEF Inv, TypeInv, TypeOK, FileTypes, Uploads, Authors
  <2>7. File!Appended("handle")
    BY <1>19, <2>6, StoreAppends DEF LateUpload, Inv
  <2> QED BY <2>1, <2>5, <2>7 DEF File!Next, File!Land
<1>20. ASSUME NEW u \in inflight, LoseUpload(u) PROVE File!Next \/ UNCHANGED File!fileVars
  <2>1. Pending' \subseteq Pending
    BY <1>20, <1>a, <1>b, <1>c, PendingShrinks DEF LoseUpload, fields, calls
  <2> QED BY <1>20, <1>d, <2>1 DEF LoseUpload
<1>21. ASSUME ForeignWrite PROVE File!Next \/ UNCHANGED File!fileVars
  <2>1. PICK c \in ForeignContents : Store(c, "other")
    BY <1>21 DEF ForeignWrite
  <2>2. c \in Seq(Bytes) /\ "other" \in Authors
    BY ConstantsAssumption DEF ConstantsAssumption, Authors
  <2>3. File!Appended("other")
    BY <2>1, <2>2, StoreAppends DEF Inv
  <2>4. Pending' = Pending
    BY <1>21 DEF ForeignWrite, fields, calls, Pending
  <2> QED BY <2>3, <2>4 DEF File!Next, File!Foreign
<1>22. ASSUME ForeignDelete PROVE File!Next \/ UNCHANGED File!fileVars
  BY <1>22 DEF ForeignDelete, EtagsProtect
<1>23. ASSUME UNCHANGED vars PROVE File!Next \/ UNCHANGED File!fileVars
  BY <1>23 DEF vars, store, fields, calls, Pending, File!fileVars
<1> QED BY <1>1, <1>2, <1>3, <1>4, <1>5, <1>6, <1>7, <1>8, <1>9, <1>10, <1>11,
   <1>12, <1>13, <1>14, <1>15, <1>16, <1>17, <1>18, <1>19, <1>20, <1>21, <1>22,
   <1>23 DEF Next, Request, CallStep, LockStep, Environment

\* The handle implements SpaceFile: seen from the space, concurrent reads and
\* writes, failed and late uploads and the changes of other clients are nothing
\* but writes of the client laid over what the file holds, one after the other.
THEOREM HandleImplementsSpaceFile ==
    ASSUME EtagsProtect PROVE Spec => ImplementsSpaceFile
<1>1. Init => File!Init
  <2> SUFFICES ASSUME Init PROVE File!Init
    OBVIOUS
  <2>1. current = Len(versions)
    <3>1. PICK c \in StartContents : versions = <<[data |-> c, by |-> "start"]>> /\ current = 1
      BY DEF Init, EtagsProtect
    <3> QED BY <3>1
  <2>2. \A w \in Workers : req[w].kind # "write"
    BY DEF Init, NoRequest
  <2>3. dirty = {} /\ inflight = {}
    BY DEF Init
  <2>4. Pending = {}
    BY <2>2, <2>3, PendingParts
  <2> QED BY <2>1, <2>4 DEF File!Init
<1>2. Inv /\ [Next]_vars => [File!Next]_(File!fileVars)
  BY StepRefines
<1> QED BY <1>1, <1>2, InvHolds, PTL DEF Spec, ImplementsSpaceFile, File!Spec

=============================================================================
