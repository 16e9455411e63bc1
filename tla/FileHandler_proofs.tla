------------------------- MODULE FileHandler_proofs -------------------------
(***************************************************************************)
(* Theorems about FileHandler, for every number of goroutines, every       *)
(* length and number of requests and every interleaving.                   *)
(***************************************************************************)
EXTENDS FileHandler, SequenceTheorems, TLAPS

-----------------------------------------------------------------------------
(* Contents and versions *)

\* The fields of a write request, and where it ends.
LEMMA WriteRequestType ==
    ASSUME NEW e \in WriteRequests
    PROVE  /\ e.off \in Nat /\ e.data \in Seq(Bytes) /\ e.kind = "write"
           /\ Len(e.data) \in Nat /\ End(e) \in Nat
<1>1. e.off \in Offsets /\ e.data \in Chunks /\ e.kind = "write"
  BY DEF WriteRequests
<1>2. e.off \in Nat
  BY <1>1, ConstantsAssumption DEF ConstantsAssumption
<1>3. e.data \in Seq(Bytes)
  BY <1>1, ConstantsAssumption DEF ConstantsAssumption
<1>4. Len(e.data) \in Nat
  BY <1>3
<1> QED BY <1>1, <1>2, <1>3, <1>4 DEF End

\* WriteAt's grow and copy gives a byte sequence of the length it announces.
LEMMA OverwriteType ==
    ASSUME NEW c \in Seq(Bytes), NEW e \in WriteRequests
    PROVE  /\ Overwrite(c, e) \in Seq(Bytes)
           /\ Len(Overwrite(c, e)) = Longer(Len(c), End(e))
           /\ End(e) \in Nat /\ Len(c) \in Nat
           /\ \A i \in 1 .. Longer(Len(c), End(e)) :
                 Overwrite(c, e)[i] =
                    IF i \in Span(e) THEN e.data[i - e.off] ELSE ByteAt(c, i)
<1> DEFINE n == Longer(Len(c), End(e))
           d(i) == IF i \in Span(e) THEN e.data[i - e.off] ELSE ByteAt(c, i)
<1>1. /\ e.off \in Nat /\ e.data \in Seq(Bytes) /\ Len(e.data) \in Nat
      /\ Len(c) \in Nat
  BY WriteRequestType
<1>2. End(e) \in Nat /\ n \in Nat
  BY <1>1 DEF End, Longer
<1>3. \A i \in 1 .. n : d(i) \in Bytes
  <2> TAKE i \in 1 .. n
  <2>1. CASE i \in Span(e)
    <3>1. i - e.off \in 1 .. Len(e.data)
      BY <1>1, <2>1 DEF Span, End
    <3> QED BY <2>1, <3>1, <1>1, ElementOfSeq
  <2>2. CASE i \notin Span(e)
    <3>1. CASE i <= Len(c)
      <4>1. i \in 1 .. Len(c)
        BY <3>1, <1>1, <1>2
      <4> QED BY <2>2, <3>1, <4>1, ElementOfSeq DEF ByteAt
    <3>2. CASE ~(i <= Len(c))
      BY <2>2, <3>2, ConstantsAssumption DEF ByteAt, ConstantsAssumption
    <3> QED BY <3>1, <3>2
  <2> QED BY <2>1, <2>2
<1>4. Overwrite(c, e) = [i \in 1 .. n |-> d(i)]
  BY DEF Overwrite
<1>5. Overwrite(c, e) \in [1 .. n -> Bytes]
  BY <1>3, <1>4
<1>6. Overwrite(c, e) \in Seq(Bytes) /\ Len(Overwrite(c, e)) = n
  <2> HIDE DEF n
  <2> QED BY <1>2, <1>5, SeqDef
<1> QED BY <1>1, <1>2, <1>4, <1>6

\* A version that is stored goes behind the ones there are.
LEMMA StoreType ==
    ASSUME TypeOK, NEW data \in Seq(Bytes), NEW by \in Authors, Store(data, by)
    PROVE  /\ versions' \in Seq([data : Seq(Bytes), by : Authors])
           /\ Len(versions) \in Nat /\ Len(versions') = Len(versions) + 1
           /\ current' = Len(versions')
           /\ versions'[Len(versions')] = [data |-> data, by |-> by]
           /\ \A v \in 0 .. Len(versions) : Content(v)' = Content(v)
<1>1. versions \in Seq([data : Seq(Bytes), by : Authors])
  BY DEF TypeOK, FileTypes
<1> QED BY <1>1 DEF Store, Content

\* What named a version names one after a new version was stored.
LEMMA StoreKeepsTypes ==
    ASSUME TypeOK, NEW data \in Seq(Bytes), NEW by \in Authors, Store(data, by)
    PROVE  /\ VersionNumbers \subseteq VersionNumbers'
           /\ current' \in VersionNumbers' /\ Len(versions) + 1 \in VersionNumbers'
           /\ Answers \subseteq Answers' /\ Sessions \subseteq Sessions'
           /\ Uploads \subseteq Uploads'
<1>1. /\ Len(versions) \in Nat /\ Len(versions') = Len(versions) + 1
      /\ current' = Len(versions')
  BY StoreType
<1>2. /\ VersionNumbers \subseteq VersionNumbers'
      /\ current' \in VersionNumbers' /\ Len(versions) + 1 \in VersionNumbers'
  BY <1>1 DEF VersionNumbers
<1> QED BY <1>2 DEF Answers, Sessions, Uploads

-----------------------------------------------------------------------------
(* Types *)

\* Every change of the cache takes fileSize along.
SizeInv == fileSize = Len(cache)

\* What a goroutine was asked for is known while it needs it.
RequestInv ==
    \A w \in Workers :
        /\ pc[w] = "idle" => req[w] = NoRequest
        /\ pc[w] \in {"stat", "get", "empty", "fill"} =>
              req[w] \in ReadRequests \cup WriteRequests
        /\ pc[w] \in {"check", "serve"} => req[w] \in ReadRequests
        /\ pc[w] \in {"lock", "initiate", "put"} => req[w] \in WriteRequests

TypeInv == TypeOK /\ SizeInv /\ RequestInv

\* The content of a version is a byte sequence, and so is the body of a PUT,
\* which is the whole cache.
LEMMA ContentType ==
    ASSUME TypeInv
    PROVE  /\ \A v \in VersionNumbers : Content(v) \in Seq(Bytes)
           /\ Body = cache /\ Body \in Seq(Bytes)
<1>1. /\ versions \in Seq([data : Seq(Bytes), by : Authors])
      /\ cache \in Seq(Bytes) /\ fileSize = Len(cache)
  BY DEF TypeInv, TypeOK, FileTypes, HandleTypes, SizeInv
<1>2. \A v \in VersionNumbers : Content(v) \in Seq(Bytes)
  <2> SUFFICES ASSUME NEW v \in VersionNumbers PROVE Content(v) \in Seq(Bytes)
    OBVIOUS
  <2>1. CASE v = 0
    BY <2>1 DEF Content
  <2>2. CASE v # 0
    <3>1. v \in 1 .. Len(versions)
      BY <1>1, <2>2 DEF VersionNumbers
    <3>2. versions[v] \in [data : Seq(Bytes), by : Authors]
      BY <1>1, <3>1, ElementOfSeq
    <3> QED BY <2>2, <3>2 DEF Content
  <2> QED BY <2>1, <2>2
<1>3. Body = cache
  BY <1>1 DEF Body
<1> QED BY <1>1, <1>2, <1>3

\* A handler opened on nothing, with no goroutine at work, has the types
\* (newSftpFileHandler).
LEMMA InitType == Init => TypeInv
<1> SUFFICES ASSUME Init PROVE TypeInv
  OBVIOUS
<1>1. /\ versions \in Seq([data : Seq(Bytes), by : Authors])
      /\ current \in VersionNumbers /\ Len(versions) \in Nat
  <2>1. CASE versions = <<>> /\ current = 0
    BY <2>1 DEF VersionNumbers
  <2>2. CASE /\ \E c \in StartContents : versions = <<[data |-> c, by |-> "start"]>>
             /\ current = 1
    BY <2>2, ConstantsAssumption DEF ConstantsAssumption, Authors, VersionNumbers
  <2> QED BY <2>1, <2>2 DEF Init
<1>2. FileTypes
  BY <1>1 DEF Init, FileTypes
<1>3. HandleTypes
  <2>1. 0 \in VersionNumbers /\ <<>> \in Seq(Bytes)
    BY <1>1, EmptySeq DEF VersionNumbers
  <2> QED BY <2>1 DEF Init, HandleTypes, NoEtag
<1>4. WorkerTypes
  <2>1. 0 \in VersionNumbers
    BY <1>1 DEF VersionNumbers
  <2>2. NoAnswer \in Answers /\ NoSession \in Sessions
    BY <2>1 DEF Answers, Sessions, NoAnswer, NoSession, NoEtag
  <2> QED BY <2>2 DEF Init, WorkerTypes, Labels
<1> QED BY <1>2, <1>3, <1>4 DEF Init, TypeInv, TypeOK, SizeInv, RequestInv

\* The call of w returns: the types of the goroutines stay, also when the
\* call has stored a version.
LEMMA ReturnType ==
    ASSUME TypeInv, NEW w \in Workers, Return(w), 0 \in VersionNumbers',
           Answers \subseteq Answers', Sessions \subseteq Sessions'
    PROVE  WorkerTypes' /\ RequestInv'
<1>1. NoAnswer \in Answers' /\ NoSession \in Sessions'
  BY DEF Answers, Sessions, NoAnswer, NoSession, NoEtag
<1>2. WorkerTypes'
  BY <1>1 DEF Return, Goto, TypeInv, TypeOK, WorkerTypes, Labels
<1> QED BY <1>2 DEF Return, Goto, TypeInv, TypeOK, WorkerTypes, RequestInv

\* A version that somebody else stores disturbs no type of the handle.
LEMMA OtherStoreType ==
    ASSUME TypeInv, NEW data \in Seq(Bytes), NEW by \in Authors, Store(data, by),
           inflight' \subseteq inflight,
           UNCHANGED <<flags, mu, fields, pc, calls, writes>>, foreign' \in Nat
    PROVE  TypeInv'
<1>1. /\ versions' \in Seq([data : Seq(Bytes), by : Authors])
      /\ VersionNumbers \subseteq VersionNumbers' /\ current' \in VersionNumbers'
      /\ Answers \subseteq Answers' /\ Sessions \subseteq Sessions'
      /\ Uploads \subseteq Uploads'
  BY StoreType, StoreKeepsTypes DEF TypeInv
<1>2. FileTypes'
  BY <1>1 DEF TypeInv, TypeOK, FileTypes
<1>3. HandleTypes'
  BY <1>1 DEF TypeInv, TypeOK, HandleTypes, fields
<1>4. WorkerTypes'
  BY <1>1 DEF TypeInv, TypeOK, WorkerTypes, calls
<1> QED BY <1>2, <1>3, <1>4 DEF TypeInv, TypeOK, SizeInv, RequestInv, fields, calls

\* What a download ends in: an error, or a cache for the request it was for.
LEMMA DownloadFailsType ==
    ASSUME TypeInv, NEW w \in Workers, DownloadFails(w),
           pc[w] \in {"stat", "get"}
    PROVE  TypeInv'
<1>1. /\ VersionNumbers' = VersionNumbers /\ Answers' = Answers
      /\ Sessions' = Sessions /\ Uploads' = Uploads /\ 0 \in VersionNumbers
  BY DEF DownloadFails, store, VersionNumbers, Answers, Sessions, Uploads,
     TypeInv, TypeOK, FileTypes
<1>2. FileTypes' /\ HandleTypes' /\ SizeInv' /\ writes' \in Nat /\ foreign' \in Nat
  BY <1>1 DEF DownloadFails, store, fields, count, TypeInv, TypeOK, FileTypes,
     HandleTypes, SizeInv
<1>3. CASE Return(w)
  BY <1>1, <1>2, <1>3, ReturnType DEF TypeInv, TypeOK
<1>4. CASE req[w].kind = "write" /\ Goto(w, "lock") /\ UNCHANGED calls
  <2>1. req[w] \in WriteRequests
    BY <1>4 DEF TypeInv, RequestInv, ReadRequests
  <2>2. WorkerTypes'
    BY <1>1, <1>4 DEF Goto, calls, TypeInv, TypeOK, WorkerTypes, Labels
  <2>3. RequestInv'
    BY <1>4, <2>1 DEF Goto, calls, TypeInv, TypeOK, WorkerTypes, RequestInv
  <2> QED BY <1>2, <2>2, <2>3 DEF TypeInv, TypeOK
<1> QED BY <1>3, <1>4 DEF DownloadFails

\* A download that is over hands the request on as it was (downloadFile).
LEMMA DownloadedType ==
    ASSUME TypeInv, NEW w \in Workers, Downloaded(w), pc[w] \in {"empty", "fill"},
           UNCHANGED <<req, session>>, resp' \in [Workers -> Answers],
           UNCHANGED versions
    PROVE  WorkerTypes' /\ RequestInv'
<1>1. Answers' = Answers /\ Sessions' = Sessions
  BY DEF VersionNumbers, Answers, Sessions
<1>2. req[w].kind = "read" => req[w] \in ReadRequests
  BY DEF TypeInv, RequestInv, WriteRequests
<1>3. req[w].kind # "read" => req[w] \in WriteRequests
  BY DEF TypeInv, RequestInv, ReadRequests
<1>4. WorkerTypes'
  BY <1>1 DEF Downloaded, Goto, TypeInv, TypeOK, WorkerTypes, Labels
<1> QED BY <1>2, <1>3, <1>4 DEF Downloaded, Goto, TypeInv, TypeOK, WorkerTypes,
   RequestInv

\* A failed upload gives the mutex back and leaves the handle as it is.
LEMMA UploadFailsType ==
    ASSUME TypeInv, NEW w \in Workers, UploadFails(w), inflight' \subseteq Uploads
    PROVE  TypeInv'
<1>1. /\ VersionNumbers' = VersionNumbers /\ Answers' = Answers
      /\ Sessions' = Sessions /\ Uploads' = Uploads /\ 0 \in VersionNumbers
  BY DEF UploadFails, VersionNumbers, Answers, Sessions, Uploads, TypeInv, TypeOK, FileTypes
<1>2. FileTypes' /\ HandleTypes' /\ SizeInv'
  BY <1>1 DEF UploadFails, fields, TypeInv, TypeOK, FileTypes, HandleTypes, SizeInv
<1>3. WorkerTypes' /\ RequestInv'
  BY <1>1, ReturnType DEF UploadFails
<1> QED BY <1>2, <1>3 DEF UploadFails, count, TypeInv, TypeOK

\* Every step keeps the types, the size of the cache and the requests.
LEMMA NextType == TypeInv /\ [Next]_vars => TypeInv'
<1> SUFFICES ASSUME TypeInv, [Next]_vars PROVE TypeInv'
  OBVIOUS
<1>0. 0 \in VersionNumbers
  BY DEF TypeInv, TypeOK, FileTypes, VersionNumbers
<1>1. ASSUME NEW w \in Workers, ReadAt(w) PROVE TypeInv'
  BY <1>1 DEF ReadAt, TypeInv, TypeOK, FileTypes, HandleTypes, WorkerTypes, SizeInv,
     RequestInv, VersionNumbers, Labels, Answers, Sessions, Uploads, store, fields,
     count, Goto
<1>2. ASSUME NEW w \in Workers, CheckCache(w) PROVE TypeInv'
  BY <1>2 DEF CheckCache, TypeInv, TypeOK, FileTypes, HandleTypes, WorkerTypes,
     SizeInv, RequestInv, VersionNumbers, Labels, Answers, Sessions, Uploads, store,
     fields, calls, count, Goto
<1>3. ASSUME NEW w \in Workers, WriteAt(w) PROVE TypeInv'
  <2>1. PICK r \in WriteRequests : req' = [req EXCEPT ![w] = r]
    BY <1>3 DEF WriteAt
  <2>2. VersionNumbers' = VersionNumbers /\ Answers' = Answers /\ Sessions' = Sessions
        /\ Uploads' = Uploads
    BY <1>3 DEF WriteAt, store, VersionNumbers, Answers, Sessions, Uploads
  <2>3. FileTypes' /\ HandleTypes' /\ SizeInv'
    BY <1>3, <2>2 DEF WriteAt, store, fields, TypeInv, TypeOK, FileTypes,
       HandleTypes, SizeInv
  <2>4. WorkerTypes' /\ RequestInv'
    BY <1>3, <2>1, <2>2 DEF WriteAt, Goto, TypeInv, TypeOK, WorkerTypes,
       RequestInv, Labels
  <2> QED BY <1>3, <2>3, <2>4 DEF WriteAt, TypeInv, TypeOK
<1>4. ASSUME NEW w \in Workers, StatFails(w) PROVE TypeInv'
  BY <1>4, DownloadFailsType DEF StatFails
<1>5. ASSUME NEW w \in Workers, Stat(w) PROVE TypeInv'
  BY <1>5 DEF Stat, TypeInv, TypeOK, FileTypes, HandleTypes, WorkerTypes, SizeInv,
     RequestInv, VersionNumbers, Labels, Answers, Sessions, Uploads, store, fields,
     calls, count, Goto
<1>6. ASSUME NEW w \in Workers, GetFails(w) PROVE TypeInv'
  BY <1>6, DownloadFailsType DEF GetFails
<1>7. ASSUME NEW w \in Workers, Get(w) PROVE TypeInv'
  <2>1. /\ VersionNumbers' = VersionNumbers /\ Answers' = Answers
        /\ Sessions' = Sessions /\ Uploads' = Uploads
    BY <1>7 DEF Get, store, VersionNumbers, Answers, Sessions, Uploads
  <2>2. FileTypes' /\ HandleTypes' /\ SizeInv'
    BY <1>7, <2>1, <1>0 DEF Get, store, fields, TypeInv, TypeOK, FileTypes, HandleTypes, SizeInv
  <2>3. current \in VersionNumbers /\ 0 \in VersionNumbers
    BY <1>0 DEF TypeInv, TypeOK, FileTypes, VersionNumbers
  <2>4. resp' \in [Workers -> Answers]
    BY <1>7, <2>3 DEF Get, TypeInv, TypeOK, WorkerTypes, Answers, NoEtag
  <2>5. WorkerTypes' /\ RequestInv'
    BY <1>7, <2>1, <2>4 DEF Get, Goto, TypeInv, TypeOK, WorkerTypes, RequestInv, Labels
  <2> QED BY <1>7, <2>2, <2>5 DEF Get, count, TypeInv, TypeOK
<1>8. ASSUME NEW w \in Workers, CacheEmpty(w) PROVE TypeInv'
  <2>1. /\ VersionNumbers' = VersionNumbers /\ Answers' = Answers
        /\ Sessions' = Sessions /\ Uploads' = Uploads
    BY <1>8 DEF CacheEmpty, store, VersionNumbers, Answers, Sessions, Uploads
  <2>2. FileTypes' /\ HandleTypes' /\ SizeInv'
    BY <1>8, <2>1, <1>0 DEF CacheEmpty, store, TypeInv, TypeOK, FileTypes,
       HandleTypes, SizeInv
  <2>3. WorkerTypes' /\ RequestInv'
    BY <1>8, DownloadedType DEF CacheEmpty, store, calls, TypeInv, TypeOK,
       WorkerTypes
  <2> QED BY <1>8, <2>2, <2>3 DEF CacheEmpty, count, TypeInv, TypeOK
<1>9. ASSUME NEW w \in Workers, CacheFill(w) PROVE TypeInv'
  <2>1. /\ VersionNumbers' = VersionNumbers /\ Answers' = Answers
        /\ Sessions' = Sessions /\ Uploads' = Uploads
    BY <1>9 DEF CacheFill, Filled, store, VersionNumbers, Answers, Sessions, Uploads
  <2>2. resp[w] \in Answers /\ NoAnswer \in Answers
    BY <1>0 DEF TypeInv, TypeOK, WorkerTypes, Answers, NoAnswer, NoEtag
  <2>3. resp[w].version \in VersionNumbers /\ resp[w].etag \in VersionNumbers
    BY <2>2 DEF Answers
  <2>4. Content(resp[w].version) \in Seq(Bytes)
    BY <2>3, ContentType
  <2>5. FileTypes' /\ HandleTypes' /\ SizeInv'
    BY <1>9, <2>1, <2>3, <2>4 DEF CacheFill, Filled, store, TypeInv, TypeOK, FileTypes,
       HandleTypes, SizeInv
  <2>6. WorkerTypes' /\ RequestInv'
    BY <1>9, <2>2, DownloadedType DEF CacheFill, Filled, store, TypeInv, TypeOK, WorkerTypes
  <2> QED BY <1>9, <2>5, <2>6 DEF CacheFill, Filled, count, TypeInv, TypeOK
<1>10. ASSUME NEW w \in Workers, Serve(w) PROVE TypeInv'
  BY <1>10 DEF Serve, TypeInv, TypeOK, FileTypes, HandleTypes, WorkerTypes, SizeInv,
     RequestInv, VersionNumbers, Labels, Answers, Sessions, Uploads, NoAnswer,
     NoSession, NoEtag, NoRequest, store, fields, count, Goto, Return
<1>11. ASSUME NEW w \in Workers, LockAndWrite(w) PROVE TypeInv'
  <2>1. /\ VersionNumbers' = VersionNumbers /\ Answers' = Answers
        /\ Sessions' = Sessions /\ Uploads' = Uploads
    BY <1>11 DEF LockAndWrite, store, VersionNumbers, Answers, Sessions, Uploads
  <2>2. req[w] \in WriteRequests /\ cache \in Seq(Bytes) /\ fileSize = Len(cache)
    BY <1>11 DEF LockAndWrite, TypeInv, TypeOK, HandleTypes, SizeInv, RequestInv
  <2>3. cache' \in Seq(Bytes) /\ fileSize' = Len(cache') /\ fileSize' \in Nat
    BY <1>11, <2>2, OverwriteType DEF LockAndWrite, Longer
  <2>4. FileTypes' /\ HandleTypes' /\ SizeInv'
    BY <1>11, <2>1, <2>2, <2>3 DEF LockAndWrite, store, TypeInv, TypeOK, FileTypes,
       HandleTypes, SizeInv
  <2>5. WorkerTypes' /\ RequestInv'
    BY <1>11, <2>1, <2>2 DEF LockAndWrite, Goto, calls, TypeInv, TypeOK,
       WorkerTypes,
       RequestInv, Labels
  <2> QED BY <1>11, <2>4, <2>5 DEF LockAndWrite, count, TypeInv, TypeOK
<1>12. ASSUME NEW w \in Workers, InitiateFails(w) PROVE TypeInv'
  <2>1. inflight' \subseteq Uploads
    BY <1>12 DEF InitiateFails, TypeInv, TypeOK, FileTypes
  <2> QED BY <1>12, <2>1, UploadFailsType DEF InitiateFails
<1>13. ASSUME NEW w \in Workers, Initiate(w) PROVE TypeInv'
  BY <1>13 DEF Initiate, TypeInv, TypeOK, FileTypes, HandleTypes, WorkerTypes,
     SizeInv, RequestInv, VersionNumbers, Labels, Answers, Sessions, Uploads, store,
     fields, count, Goto
<1>14. ASSUME NEW w \in Workers, PutStored(w) PROVE TypeInv'
  <2>1. Store(Body, "handle") /\ Body \in Seq(Bytes) /\ "handle" \in Authors
    BY <1>14, ContentType DEF PutStored, Authors
  <2>2. /\ versions' \in Seq([data : Seq(Bytes), by : Authors])
        /\ VersionNumbers \subseteq VersionNumbers' /\ current' \in VersionNumbers'
        /\ Len(versions) + 1 \in VersionNumbers'
        /\ Answers \subseteq Answers' /\ Sessions \subseteq Sessions'
        /\ Uploads \subseteq Uploads'
    BY <2>1, StoreType, StoreKeepsTypes DEF TypeInv
  <2>3. FileTypes' /\ HandleTypes' /\ SizeInv'
    BY <1>14, <2>2 DEF PutStored, TypeInv, TypeOK, FileTypes, HandleTypes, SizeInv
  <2>4. WorkerTypes' /\ RequestInv'
    BY <1>14, <1>0, <2>2, ReturnType DEF PutStored
  <2> QED BY <1>14, <2>3, <2>4 DEF PutStored, count, TypeInv, TypeOK
<1>15. ASSUME NEW w \in Workers, PutRefused(w) PROVE TypeInv'
  <2>1. inflight' \subseteq Uploads
    BY <1>15 DEF PutRefused, TypeInv, TypeOK, FileTypes
  <2> QED BY <1>15, <2>1, UploadFailsType DEF PutRefused
<1>16. ASSUME NEW w \in Workers, PutTimesOut(w) PROVE TypeInv'
  <2>1. session[w].ifMatch \in VersionNumbers
    BY DEF TypeInv, TypeOK, WorkerTypes, Sessions
  <2>2. [data |-> Body, ifMatch |-> session[w].ifMatch,
         base |-> base, writes |-> dirty] \in Uploads
    BY <2>1, ContentType DEF TypeInv, TypeOK, HandleTypes, Uploads
  <2>3. inflight' \subseteq Uploads
    BY <1>16, <2>2 DEF PutTimesOut, TypeInv, TypeOK, FileTypes
  <2> QED BY <1>16, <2>3, UploadFailsType DEF PutTimesOut
<1>17. ASSUME NEW fl \in OpenFlags, OpenFile(fl) PROVE TypeInv'
  <2>1. CASE Store(<<>>, "touch")
    <3>1. /\ versions' \in Seq([data : Seq(Bytes), by : Authors])
          /\ VersionNumbers \subseteq VersionNumbers' /\ current' \in VersionNumbers'
          /\ Answers \subseteq Answers' /\ Sessions \subseteq Sessions'
          /\ Uploads \subseteq Uploads'
      BY <2>1, StoreType, StoreKeepsTypes, EmptySeq DEF TypeInv, Authors
    <3>2. FileTypes' /\ HandleTypes' /\ SizeInv'
      BY <1>17, <1>0, <3>1, EmptySeq DEF OpenFile, NoEtag, TypeInv, TypeOK,
         FileTypes, HandleTypes, SizeInv
    <3>3. WorkerTypes' /\ RequestInv'
      BY <1>17, <3>1 DEF OpenFile, calls, TypeInv, TypeOK, WorkerTypes, RequestInv
    <3> QED BY <1>17, <3>2, <3>3 DEF OpenFile, count, TypeInv, TypeOK
  <2>2. CASE UNCHANGED <<versions, current>>
    <3>1. /\ VersionNumbers' = VersionNumbers /\ Answers' = Answers
          /\ Sessions' = Sessions /\ Uploads' = Uploads
      BY <2>2 DEF VersionNumbers, Answers, Sessions, Uploads
    <3>2. FileTypes' /\ HandleTypes' /\ SizeInv'
      BY <1>17, <1>0, <2>2, <3>1, EmptySeq DEF OpenFile, NoEtag, TypeInv, TypeOK,
         FileTypes, HandleTypes, SizeInv
    <3>3. WorkerTypes' /\ RequestInv'
      BY <1>17, <3>1 DEF OpenFile, calls, TypeInv, TypeOK, WorkerTypes, RequestInv
    <3> QED BY <1>17, <3>2, <3>3 DEF OpenFile, count, TypeInv, TypeOK
  <2> QED BY <1>17, <2>1, <2>2 DEF OpenFile
<1>18. ASSUME CloseFile PROVE TypeInv'
  BY <1>18 DEF CloseFile, TypeInv, TypeOK, FileTypes, HandleTypes, WorkerTypes,
     SizeInv, RequestInv, VersionNumbers, Labels, Answers, Sessions, Uploads, store,
     fields, calls, count
<1>19. ASSUME NEW u \in inflight, LateUpload(u) PROVE TypeInv'
  <2>1. u.data \in Seq(Bytes) /\ "handle" \in Authors /\ foreign \in Nat
    BY DEF TypeInv, TypeOK, FileTypes, Uploads, Authors
  <2> QED BY <1>19, <2>1, OtherStoreType DEF LateUpload, count
<1>20. ASSUME NEW u \in inflight, LoseUpload(u) PROVE TypeInv'
  BY <1>20 DEF LoseUpload, TypeInv, TypeOK, FileTypes, HandleTypes, WorkerTypes,
     SizeInv, RequestInv, VersionNumbers, Labels, Answers, Sessions, Uploads,
     fields, calls, count
<1>21. ASSUME ForeignWrite PROVE TypeInv'
  <2>1. PICK c \in ForeignContents : Store(c, "other")
    BY <1>21 DEF ForeignWrite
  <2>2. c \in Seq(Bytes)
    BY ConstantsAssumption DEF ConstantsAssumption
  <2>3. "other" \in Authors /\ foreign' \in Nat
    BY <1>21 DEF ForeignWrite, TypeInv, TypeOK, Authors
  <2> QED BY <1>21, <2>1, <2>2, <2>3, OtherStoreType DEF ForeignWrite
<1>22. ASSUME ForeignDelete PROVE TypeInv'
  BY <1>22 DEF ForeignDelete, TypeInv, TypeOK, FileTypes, HandleTypes, WorkerTypes,
     SizeInv, RequestInv, VersionNumbers, Labels, Answers, Sessions, Uploads,
     fields, calls
<1>23. ASSUME UNCHANGED vars PROVE TypeInv'
  BY <1>23 DEF vars, TypeInv, TypeOK, FileTypes, HandleTypes, WorkerTypes, SizeInv,
     RequestInv, VersionNumbers, Labels, Answers, Sessions, Uploads, store, fields,
     calls, count
<1> QED BY <1>1, <1>2, <1>3, <1>4, <1>5, <1>6, <1>7, <1>8, <1>9, <1>10, <1>11,
   <1>12, <1>13, <1>14, <1>15, <1>16, <1>17, <1>18, <1>19, <1>20, <1>21, <1>22,
   <1>23 DEF Next, Request, CallStep, LockStep, Environment

\* The handle and the file always have the types they are declared with: no
\* interleaving makes the size differ from the cache, uploads a body that is
\* not a byte sequence, or names a version that does not exist.
THEOREM TypeCorrect == Spec => []TypeInv
<1>1. Init => TypeInv
  BY InitType
<1>2. TypeInv /\ [Next]_vars => TypeInv'
  BY NextType
<1> QED BY <1>1, <1>2, PTL DEF Spec

\* The variables have their types: no goroutine leaves the handler with a
\* field that names a version of the file that does not exist.
THEOREM TypesHold == Spec => []TypeOK
<1>1. TypeInv => TypeOK
  BY DEF TypeInv
<1> QED BY <1>1, TypeCorrect, PTL

=============================================================================
