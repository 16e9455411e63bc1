------------------------- MODULE FileHandler_safety -------------------------
(***************************************************************************)
(* What the handle keeps whatever fails: theorems about FileHandler that   *)
(* rest on the types (FileHandler_proofs) and on the mutex.                *)
(***************************************************************************)
EXTENDS FileHandler_proofs, FiniteSetTheorems

-----------------------------------------------------------------------------
(* Writes laid over a content *)

\* A content is an overlay of itself.
LEMMA OverlayOfItself ==
    ASSUME NEW c \in Seq(Bytes)
    PROVE  IsOverlay(c, c, {})
  BY DEF IsOverlay, ByteAt

\* One more write over an overlay: the bytes outside the write are kept or
\* are the zeroes of the grown part.
LEMMA OverlayOfWrite ==
    ASSUME NEW c \in Seq(Bytes), NEW d \in Seq(Bytes), NEW S \in SUBSET WriteRequests,
           NEW e \in WriteRequests, IsOverlay(d, c, S)
    PROVE  IsOverlay(Overwrite(d, e), c, S \cup {e})
<1> DEFINE n == Longer(Len(d), End(e))
           o == Overwrite(d, e)
<1>1. /\ Len(o) = n /\ End(e) \in Nat /\ Len(d) \in Nat /\ Len(c) \in Nat
      /\ \A i \in 1 .. n :
            o[i] = IF i \in Span(e) THEN e.data[i - e.off] ELSE ByteAt(d, i)
  BY OverwriteType
<1>2. Len(c) <= Len(d) /\ (Len(d) = Len(c) \/ \E f \in S : Len(d) = End(f))
  BY DEF IsOverlay
<1>3. ASSUME NEW i \in 1 .. n
      PROVE  \/ o[i] = ByteAt(c, i)
             \/ \E f \in S \cup {e} : i \in Span(f) /\ o[i] = f.data[i - f.off]
  <2>1. CASE i \in Span(e)
    BY <1>1, <2>1
  <2>2. CASE i \notin Span(e) /\ i <= Len(d)
    <3>1. o[i] = d[i] /\ i \in 1 .. Len(d)
      BY <1>1, <2>2 DEF ByteAt
    <3> QED BY <3>1 DEF IsOverlay
  <2>3. CASE i \notin Span(e) /\ ~(i <= Len(d))
    BY <1>1, <1>2, <2>3 DEF ByteAt
  <2> QED BY <2>1, <2>2, <2>3
<1>4. Len(c) <= n /\ (n = Len(c) \/ \E f \in S \cup {e} : n = End(f))
  BY <1>1, <1>2 DEF Longer
<1> QED BY <1>1, <1>3, <1>4 DEF IsOverlay

\* After WriteAt copied a write into the cache, the cache has its bytes.
LEMMA OverwriteHolds ==
    ASSUME NEW c \in Seq(Bytes), NEW e \in WriteRequests
    PROVE  Holds(Overwrite(c, e), e)
<1>1. /\ Len(Overwrite(c, e)) = Longer(Len(c), End(e))
      /\ End(e) \in Nat /\ Len(c) \in Nat /\ e.off \in Nat
      /\ \A i \in 1 .. Longer(Len(c), End(e)) :
            Overwrite(c, e)[i] = IF i \in Span(e) THEN e.data[i - e.off] ELSE ByteAt(c, i)
  BY OverwriteType, WriteRequestType
<1>2. End(e) <= Longer(Len(c), End(e))
  BY <1>1 DEF Longer
<1>3. Longer(Len(c), End(e)) \in Nat
  BY <1>1 DEF Longer
<1>4. Span(e) \subseteq 1 .. Longer(Len(c), End(e))
  BY <1>1, <1>2, <1>3 DEF Span
<1> QED BY <1>1, <1>2, <1>4 DEF Holds

-----------------------------------------------------------------------------
(* Reads *)

\* Every read is answered as io.ReaderAt demands, for every offset and length:
\* fileSize has followed the cache through every download, growing write and
\* failed upload, so readFromCache neither cuts a read short nor runs past it.
THEOREM ReadsKeepContract == Spec => []ReadContract
<1>1. TypeInv => ReadContract
  <2> SUFFICES ASSUME TypeInv, NEW off \in Offsets, NEW len \in Lengths
               PROVE  /\ ReadCount(off, len) =
                            Cardinality((off + 1 .. off + len) \cap DOMAIN cache)
                      /\ ReadEOF(off, len) <=> off + len >= Len(cache)
    BY DEF ReadContract
  <2> DEFINE last == IF off + len <= Len(cache) THEN off + len ELSE Len(cache)
  <2>1. off \in Nat /\ len \in Nat
    BY ConstantsAssumption DEF ConstantsAssumption
  <2>2. /\ cache \in Seq(Bytes) /\ fileSize = Len(cache) /\ Len(cache) \in Nat
        /\ DOMAIN cache = 1 .. Len(cache)
    BY DEF TypeInv, TypeOK, HandleTypes, SizeInv
  <2>3. (off + 1 .. off + len) \cap DOMAIN cache = (off + 1) .. last
    BY <2>1, <2>2
  <2>4. Cardinality((off + 1) .. last) =
            IF off + 1 > last THEN 0 ELSE last - (off + 1) + 1
    BY <2>1, <2>2, FS_Interval, off + 1 \in Int, last \in Int
  <2>5. ReadCount(off, len) = IF off + 1 > last THEN 0 ELSE last - (off + 1) + 1
    BY <2>1, <2>2 DEF ReadCount
  <2>6. ReadEOF(off, len) <=> off + len >= Len(cache)
    BY <2>1, <2>2 DEF ReadEOF, ReadCount
  <2> QED BY <2>3, <2>4, <2>5, <2>6
<1> QED BY <1>1, TypeCorrect, PTL

-----------------------------------------------------------------------------
(* Uploads *)

Uploading(w) == pc[w] \in {"initiate", "put"}

\* The mutex is held from LockAndWrite until the upload is over.
LockInv == \A w \in Workers : Uploading(w) => mu = w

\* The write of the goroutine that uploads is in the cache.
HoldsInv == \A w \in Workers : Uploading(w) => Holds(cache, req[w])

\* A closed handle is used by nobody.
IdleInv == flags = {} => \A w \in Workers : pc[w] = "idle"

UploadInv == IdleInv /\ LockInv /\ UploadAsAnnounced /\ HoldsInv

\* No step of a goroutine or of another client touches an upload between its
\* InitiateFileUpload and its PUT, since CacheFill waits for the mutex.
LEMMA UploadStep == TypeInv /\ UploadInv /\ [Next]_vars => UploadInv'
<1> SUFFICES ASSUME TypeInv, UploadInv, [Next]_vars PROVE UploadInv'
  OBVIOUS
<1>0. NoWorker \notin Workers
  BY ConstantsAssumption DEF ConstantsAssumption
<1>a. /\ pc \in [Workers -> Labels] /\ session \in [Workers -> Sessions]
      /\ req \in [Workers -> ReadRequests \cup WriteRequests \cup {NoRequest}]
  BY DEF TypeInv, TypeOK, WorkerTypes
<1>1. ASSUME NEW w \in Workers, ReadAt(w) PROVE UploadInv'
  BY <1>1, <1>0, <1>a DEF ReadAt, UploadInv, IdleInv, Mode, LockInv,
     UploadAsAnnounced, HoldsInv, Uploading, Body, Goto, store, fields, count
<1>2. ASSUME NEW w \in Workers, CheckCache(w) PROVE UploadInv'
  BY <1>2, <1>0, <1>a DEF CheckCache, UploadInv, IdleInv, Mode, LockInv,
     UploadAsAnnounced, HoldsInv, Uploading, Body, Goto, store, fields, calls, count
<1>3. ASSUME NEW w \in Workers, WriteAt(w) PROVE UploadInv'
  BY <1>3, <1>0, <1>a DEF WriteAt, UploadInv, IdleInv, Mode, LockInv,
     UploadAsAnnounced, HoldsInv, Uploading, Body, Goto, store, fields
<1>4. ASSUME NEW w \in Workers, StatFails(w) PROVE UploadInv'
  BY <1>4, <1>0, <1>a DEF StatFails, UploadInv, IdleInv, Mode, LockInv,
     UploadAsAnnounced, HoldsInv, Uploading, Body, Goto, Return, DownloadFails,
     store, fields, calls, count
<1>5. ASSUME NEW w \in Workers, Stat(w) PROVE UploadInv'
  BY <1>5, <1>0, <1>a DEF Stat, UploadInv, IdleInv, Mode, LockInv,
     UploadAsAnnounced, HoldsInv, Uploading, Body, Goto, store, fields, calls, count
<1>6. ASSUME NEW w \in Workers, GetFails(w) PROVE UploadInv'
  BY <1>6, <1>0, <1>a DEF GetFails, UploadInv, IdleInv, Mode, LockInv,
     UploadAsAnnounced, HoldsInv, Uploading, Body, Goto, Return, DownloadFails,
     store, fields, calls, count
<1>7. ASSUME NEW w \in Workers, Get(w) PROVE UploadInv'
  BY <1>7, <1>0, <1>a DEF Get, UploadInv, IdleInv, Mode, LockInv, UploadAsAnnounced,
     HoldsInv, Uploading, Body, Goto, store, fields, count
<1>8. ASSUME NEW w \in Workers, CacheEmpty(w) PROVE UploadInv'
  BY <1>8, <1>0, <1>a DEF CacheEmpty, UploadInv, IdleInv, Mode, LockInv,
     UploadAsAnnounced, HoldsInv, Uploading, Body, Goto, Downloaded, store, calls,
     count
<1>9. ASSUME NEW w \in Workers, CacheFill(w) PROVE UploadInv'
  BY <1>9, <1>0, <1>a DEF CacheFill, Filled, UploadInv, IdleInv, Mode, LockInv,
     UploadAsAnnounced, HoldsInv, Uploading, Body, Goto, Downloaded, store, count
<1>10. ASSUME NEW w \in Workers, Serve(w) PROVE UploadInv'
  BY <1>10, <1>0, <1>a DEF Serve, UploadInv, IdleInv, Mode, LockInv,
     UploadAsAnnounced, HoldsInv, Uploading, Body, Goto, Return, store, fields,
     count
<1>11. ASSUME NEW w \in Workers, LockAndWrite(w) PROVE UploadInv'
  <2>1. req[w] \in WriteRequests /\ cache \in Seq(Bytes)
    BY <1>11 DEF LockAndWrite, TypeInv, TypeOK, HandleTypes, RequestInv
  <2>2. Holds(cache', req[w])
    BY <1>11, <2>1, OverwriteHolds DEF LockAndWrite
  <2>3. \A v \in Workers : ~Uploading(v)
    BY <1>11, <1>0 DEF LockAndWrite, UploadInv, LockInv
  <2>4. IdleInv'
    BY <1>11, <1>a DEF LockAndWrite, UploadInv, IdleInv, Goto
  <2>5. \A v \in Workers : Uploading(v)' => v = w
    BY <1>11, <2>3, <1>a DEF LockAndWrite, Uploading, Goto
  <2>6. \A v \in Workers : pc'[v] # "put"
    BY <1>11, <2>3, <1>a DEF LockAndWrite, Uploading, Goto
  <2> QED BY <1>11, <2>2, <2>4, <2>5, <2>6 DEF LockAndWrite, UploadInv, LockInv,
     HoldsInv,
          UploadAsAnnounced, calls
<1>12. ASSUME NEW w \in Workers, InitiateFails(w) PROVE UploadInv'
  BY <1>12, <1>0, <1>a DEF InitiateFails, UploadInv, IdleInv, Mode, LockInv,
     UploadAsAnnounced, HoldsInv, Uploading, Body, Goto, Return, UploadFails,
     fields, count
<1>13. ASSUME NEW w \in Workers, Initiate(w) PROVE UploadInv'
  <2>1. Len(Body) = fileSize
    BY ContentType DEF TypeInv, SizeInv
  <2>2. Body' = Body
    BY <1>13 DEF Initiate, fields, Body
  <2>3. UploadAsAnnounced'
    BY <1>13, <1>a, <2>1, <2>2 DEF Initiate, Goto, fields, UploadInv,
       UploadAsAnnounced
  <2>4. IdleInv' /\ LockInv' /\ HoldsInv'
    BY <1>13, <1>a DEF Initiate, Goto, fields, UploadInv, IdleInv, LockInv,
       HoldsInv, Uploading
  <2> QED BY <2>3, <2>4 DEF UploadInv
<1>14. ASSUME NEW w \in Workers, PutStored(w) PROVE UploadInv'
  BY <1>14, <1>0, <1>a DEF PutStored, UploadInv, IdleInv, Mode, LockInv,
     UploadAsAnnounced, HoldsInv, Uploading, Body, Goto, Return, count
<1>15. ASSUME NEW w \in Workers, PutRefused(w) PROVE UploadInv'
  BY <1>15, <1>0, <1>a DEF PutRefused, UploadInv, IdleInv, Mode, LockInv,
     UploadAsAnnounced, HoldsInv, Uploading, Body, Goto, Return, UploadFails,
     fields, count
<1>16. ASSUME NEW w \in Workers, PutTimesOut(w) PROVE UploadInv'
  BY <1>16, <1>0, <1>a DEF PutTimesOut, UploadInv, IdleInv, Mode, LockInv,
     UploadAsAnnounced, HoldsInv, Uploading, Body, Goto, Return, UploadFails,
     fields, count
<1>17. ASSUME NEW fl \in OpenFlags, OpenFile(fl) PROVE UploadInv'
  BY <1>17, <1>0, <1>a DEF OpenFile, UploadInv, IdleInv, Mode, LockInv,
     UploadAsAnnounced, HoldsInv, Uploading, Body, calls, count
<1>18. ASSUME CloseFile PROVE UploadInv'
  BY <1>18, <1>0, <1>a DEF CloseFile, UploadInv, IdleInv, Mode, LockInv,
     UploadAsAnnounced, HoldsInv, Uploading, Body, store, fields, calls, count
<1>19. ASSUME NEW u \in inflight, LateUpload(u) PROVE UploadInv'
  BY <1>19, <1>0, <1>a DEF LateUpload, UploadInv, IdleInv, Mode, LockInv,
     UploadAsAnnounced, HoldsInv, Uploading, Body, fields, calls, count
<1>20. ASSUME NEW u \in inflight, LoseUpload(u) PROVE UploadInv'
  BY <1>20, <1>0, <1>a DEF LoseUpload, UploadInv, IdleInv, Mode, LockInv,
     UploadAsAnnounced, HoldsInv, Uploading, Body, fields, calls, count
<1>21. ASSUME ForeignWrite PROVE UploadInv'
  BY <1>21, <1>0, <1>a DEF ForeignWrite, UploadInv, IdleInv, Mode, LockInv,
     UploadAsAnnounced, HoldsInv, Uploading, Body, fields, calls
<1>22. ASSUME ForeignDelete PROVE UploadInv'
  BY <1>22, <1>0, <1>a DEF ForeignDelete, UploadInv, IdleInv, Mode, LockInv,
     UploadAsAnnounced, HoldsInv, Uploading, Body, fields, calls
<1>23. ASSUME UNCHANGED vars PROVE UploadInv'
  BY <1>23, <1>0, <1>a DEF vars, UploadInv, IdleInv, Mode, LockInv,
     UploadAsAnnounced, HoldsInv, Uploading, Body, store, fields, calls, count
<1> QED BY <1>1, <1>2, <1>3, <1>4, <1>5, <1>6, <1>7, <1>8, <1>9, <1>10, <1>11,
   <1>12, <1>13, <1>14, <1>15, <1>16, <1>17, <1>18, <1>19, <1>20, <1>21, <1>22,
   <1>23 DEF Next, Request, CallStep, LockStep, Environment

\* Whoever uploads holds the mutex of the handler from WriteAt to the end of
\* uploadFile, and the bytes of its write stay in the cache meanwhile.
THEOREM UploadsCorrect == Spec => []UploadInv
<1>1. Init => UploadInv
  BY ConstantsAssumption DEF ConstantsAssumption, Init, UploadInv, IdleInv, LockInv,
     HoldsInv, Uploading, UploadAsAnnounced
<1>2. TypeInv /\ UploadInv /\ [Next]_vars => UploadInv'
  BY UploadStep
<1> QED BY <1>1, <1>2, TypeCorrect, PTL DEF Spec

\* Nobody else holds the mutex: who waits for it waits for a call to the gateway or
\* the storage, and never for another who waits.
HolderInv == mu # NoWorker => mu \in Workers /\ Uploading(mu)

\* A goroutine takes the mutex to upload, and every end of its upload releases
\* it.
LEMMA HolderStep == TypeInv /\ LockInv /\ HolderInv /\ [Next]_vars => HolderInv'
<1> SUFFICES ASSUME TypeInv, LockInv, HolderInv, [Next]_vars PROVE HolderInv'
  OBVIOUS
<1> USE DEF HolderInv, LockInv, Uploading, Goto, Return, UploadFails, count
<1>0. pc \in [Workers -> Labels]
  BY DEF TypeInv, TypeOK, WorkerTypes
<1>1. ASSUME NEW w \in Workers, LockAndWrite(w) PROVE HolderInv'
  BY <1>0, <1>1 DEF LockAndWrite
<1>2. ASSUME NEW w \in Workers, Initiate(w) PROVE HolderInv'
  BY <1>0, <1>2 DEF Initiate
<1>3. ASSUME NEW w \in Workers,
             InitiateFails(w) \/ PutStored(w) \/ PutRefused(w) \/ PutTimesOut(w)
      PROVE  HolderInv'
  BY <1>3 DEF InitiateFails, PutStored, PutRefused, PutTimesOut
<1>4. ASSUME NEW w \in Workers, UNCHANGED mu, pc[w] \notin {"initiate", "put"},
             \A v \in Workers \ {w} : pc'[v] = pc[v]
      PROVE  HolderInv'
  BY <1>4
<1>5. ASSUME NEW w \in Workers, Request(w) \/ StatFails(w) \/ Stat(w) \/ GetFails(w) \/ Get(w)
      PROVE  HolderInv'
  BY <1>0, <1>4, <1>5 DEF Request, ReadAt, WriteAt, StatFails, Stat, GetFails, Get, DownloadFails
<1>6. ASSUME NEW w \in Workers, CheckCache(w) \/ CacheEmpty(w) \/ CacheFill(w) \/ Serve(w)
      PROVE  HolderInv'
  BY <1>0, <1>4, <1>6 DEF CheckCache, CacheEmpty, CacheFill, Filled, Downloaded, Serve
<1>7. CASE UNCHANGED <<mu, pc>>
  BY <1>7
<1> QED
  BY <1>1, <1>2, <1>3, <1>5, <1>6, <1>7
  DEF Next, CallStep, LockStep, Environment, OpenFile, CloseFile, LateUpload, LoseUpload,
      ForeignWrite, ForeignDelete, vars

\* The mutex is free unless a goroutine is in an upload, and then it is held by
\* that one and no other uploads: what is left of RequestReturns is that calls
\* return and waiting goroutines have their turn.
THEOREM UploadsAreAlone ==
    Spec => [](mu # NoWorker => /\ mu \in Workers /\ Uploading(mu)
                                /\ \A w \in Workers : Uploading(w) => w = mu)
<1>1. Init => HolderInv
  BY DEF Init, HolderInv
<1>2. Spec => []HolderInv
  <2>1. UploadInv => LockInv
    BY DEF UploadInv
  <2> QED BY <1>1, <2>1, HolderStep, TypeCorrect, UploadsCorrect, PTL DEF Spec
<1>3. LockInv /\ HolderInv => (mu # NoWorker => /\ mu \in Workers /\ Uploading(mu)
                                              /\ \A w \in Workers : Uploading(w) => w = mu)
  BY DEF LockInv, HolderInv
<1>4. UploadInv => LockInv
  BY DEF UploadInv
<1> QED BY <1>2, <1>3, <1>4, UploadsCorrect, PTL

\* How many steps a request has left at most.
Left(label) ==
    CASE label = "check" -> 7 [] label = "stat" -> 6 [] label = "get" -> 5
      [] label \in {"empty", "fill"} -> 4
      [] label \in {"serve", "lock"} -> 3
      [] label = "initiate" -> 2 [] label = "put" -> 1 [] OTHER -> 0

\* Every step of a request brings it nearer to its return and no step of anybody
\* else sets it back: neither a cache that other goroutines fill nor a failure
\* makes ReadAt or WriteAt start again. With UploadsAreAlone this is the safety
\* part of RequestReturns.
THEOREM RequestsAdvance ==
    Spec => [][\A w \in Workers : pc[w] # "idle" =>
                  pc'[w] = pc[w] \/ Left(pc'[w]) < Left(pc[w])]_vars
<1>1. ASSUME TypeInv, [Next]_vars, NEW v \in Workers, pc[v] # "idle"
      PROVE  pc'[v] = pc[v] \/ Left(pc'[v]) < Left(pc[v])
  <2>0. pc \in [Workers -> Labels]
    BY <1>1 DEF TypeInv, TypeOK, WorkerTypes
  <2>1. ASSUME NEW w \in Workers, NEW label, pc' = [pc EXCEPT ![w] = label],
               Left(label) < Left(pc[w]) \/ pc[w] = "idle"
        PROVE  pc'[v] = pc[v] \/ Left(pc'[v]) < Left(pc[v])
    BY <1>1, <2>0, <2>1
  <2>2. ASSUME NEW w \in Workers, Request(w)
        PROVE  pc'[v] = pc[v] \/ Left(pc'[v]) < Left(pc[v])
    BY <2>1, <2>2, Zenon DEF Request, ReadAt, WriteAt, Goto
  <2>3. ASSUME NEW w \in Workers, StatFails(w) \/ GetFails(w)
        PROVE  pc'[v] = pc[v] \/ Left(pc'[v]) < Left(pc[v])
    <3>1. pc[w] \in {"stat", "get"}
      BY <2>3 DEF StatFails, GetFails
    <3>2. pc' = [pc EXCEPT ![w] = "idle"] \/ pc' = [pc EXCEPT ![w] = "lock"]
      BY <2>3 DEF StatFails, GetFails, DownloadFails, Return, Goto
    <3>3. Left("idle") < Left(pc[w]) /\ Left("lock") < Left(pc[w])
      BY <3>1 DEF Left
    <3> QED BY <2>1, <3>2, <3>3
  <2>4. ASSUME NEW w \in Workers, CheckCache(w) \/ Stat(w) \/ Get(w)
        PROVE  pc'[v] = pc[v] \/ Left(pc'[v]) < Left(pc[v])
    <3>1. PICK label \in Labels :
            /\ pc' = [pc EXCEPT ![w] = label]
            /\ \/ pc[w] = "check" /\ label \in {"serve", "stat"}
               \/ pc[w] = "stat" /\ label \in {"empty", "get"}
               \/ pc[w] = "get" /\ label = "fill"
      BY <2>4 DEF CheckCache, Stat, Get, Goto, Labels
    <3>2. Left(label) < Left(pc[w])
      BY <3>1 DEF Left
    <3> QED BY <2>1, <3>1, <3>2
  <2>5. ASSUME NEW w \in Workers, CacheEmpty(w) \/ CacheFill(w)
        PROVE  pc'[v] = pc[v] \/ Left(pc'[v]) < Left(pc[v])
    <3>1. pc[w] \in {"empty", "fill"}
      BY <2>5 DEF CacheEmpty, CacheFill
    <3>2. pc' = [pc EXCEPT ![w] = "serve"] \/ pc' = [pc EXCEPT ![w] = "lock"]
      BY <2>5 DEF CacheEmpty, CacheFill, Filled, Downloaded, Goto
    <3>3. Left("serve") < Left(pc[w]) /\ Left("lock") < Left(pc[w])
      BY <3>1 DEF Left
    <3> QED BY <2>1, <3>2, <3>3
  <2>6. ASSUME NEW w \in Workers, LockAndWrite(w) \/ Initiate(w)
        PROVE  pc'[v] = pc[v] \/ Left(pc'[v]) < Left(pc[v])
    <3>1. \/ pc[w] = "lock" /\ pc' = [pc EXCEPT ![w] = "initiate"]
          \/ pc[w] = "initiate" /\ pc' = [pc EXCEPT ![w] = "put"]
      BY <2>6 DEF LockAndWrite, Initiate, Goto
    <3>2. Left("initiate") < Left("lock") /\ Left("put") < Left("initiate")
      BY DEF Left
    <3> QED BY <2>1, <3>1, <3>2
  <2>7. ASSUME NEW w \in Workers,
               \/ Serve(w) \/ InitiateFails(w) \/ PutStored(w)
               \/ PutRefused(w) \/ PutTimesOut(w)
        PROVE  pc'[v] = pc[v] \/ Left(pc'[v]) < Left(pc[v])
    <3>1. pc[w] \in {"serve", "initiate", "put"} /\ pc' = [pc EXCEPT ![w] = "idle"]
      BY <2>7 DEF Serve, InitiateFails, PutStored, PutRefused, PutTimesOut, UploadFails,
         Return, Goto
    <3>2. Left("idle") < Left(pc[w])
      BY <3>1 DEF Left
    <3> QED BY <2>1, <3>1, <3>2
  <2>8. CASE UNCHANGED pc
    BY <2>8
  <2> QED
    BY <1>1, <2>2, <2>3, <2>4, <2>5, <2>6, <2>7, <2>8
    DEF Next, CallStep, LockStep, Environment, OpenFile, CloseFile, LateUpload, LoseUpload,
        ForeignWrite, ForeignDelete, vars
<1>2. TypeInv /\ [Next]_vars =>
        [\A w \in Workers : pc[w] # "idle" =>
            pc'[w] = pc[w] \/ Left(pc'[w]) < Left(pc[w])]_vars
  BY <1>1
<1> QED BY <1>2, TypeCorrect, PTL DEF Spec

\* The body that a PUT sends is the one InitiateFileUpload announced: while
\* a goroutine holds the mutex no download of another one replaces the cache.
THEOREM UploadsAreAsAnnounced == Spec => []UploadAsAnnounced
<1>1. UploadInv => UploadAsAnnounced
  BY DEF UploadInv
<1> QED BY <1>1, UploadsCorrect, PTL

\* A WriteAt that returns success has stored its bytes, whatever other
\* goroutines downloaded since it was called.
THEOREM AckedWritesAreStored == Spec => AckedWriteStored
<1>1. ASSUME TypeInv, UploadInv, [Next]_vars, NEW w \in Workers,
             pc[w] = "put", pc'[w] = "idle", Committed
      PROVE  Holds(Newest', req[w])
  <2>1. Holds(cache, req[w])
    BY <1>1 DEF UploadInv, HoldsInv, Uploading
  <2>2. Len(versions') > Len(versions)
    BY <1>1 DEF Committed
  <2>3. Len(versions) \in Nat /\ versions \in Seq([data : Seq(Bytes), by : Authors])
    BY <1>1 DEF TypeInv, TypeOK, FileTypes
  <2>4. pc \in [Workers -> Labels]
    BY <1>1 DEF TypeInv, TypeOK, WorkerTypes
  <2>5. versions' # versions
    BY <2>2, <2>3
  <2>6. PICK v \in Workers : PutStored(v)
    BY <1>1, <2>4, <2>5 DEF Next, Request, CallStep, LockStep, Environment,
       OpenFile,
       CloseFile, ReadAt, WriteAt, StatFails, Stat, GetFails, Get, CheckCache, CacheEmpty,
       CacheFill, Filled, Serve, LockAndWrite, InitiateFails, Initiate, PutRefused, PutTimesOut,
       UploadFails, DownloadFails, LateUpload, LoseUpload, ForeignWrite, ForeignDelete,
       store, vars
  <2>7. Newest' = Body
    <3>1. Store(Body, "handle") /\ Body \in Seq(Bytes) /\ "handle" \in Authors
      BY <1>1, <2>6, ContentType DEF PutStored, Authors
    <3>2. versions'[Len(versions')] = [data |-> Body, by |-> "handle"]
      BY <1>1, <3>1, StoreType DEF TypeInv
    <3> QED BY <3>2 DEF Newest
  <2>8. Body = cache
    BY <1>1, ContentType
  <2> QED BY <2>1, <2>7, <2>8
<1>2. TypeInv /\ UploadInv /\ [Next]_vars =>
        [\A w \in Workers :
            pc[w] = "put" /\ pc'[w] = "idle" /\ Committed => Holds(Newest', req[w])]_vars
  BY <1>1
<1> QED BY <1>2, TypeCorrect, UploadsCorrect, PTL DEF Spec, AckedWriteStored

-----------------------------------------------------------------------------
(* The cache *)

\* A timed out upload carries a version and writes over it, like the cache.
InflightInv == \A u \in inflight : IsOverlay(u.data, Content(u.base), u.writes)

OverlayInv == CacheIsVersionPlusWrites /\ InflightInv

\* Storing a version leaves the contents of the others alone.
LEMMA StoreKeepsOverlays ==
    ASSUME TypeInv, OverlayInv, NEW data \in Seq(Bytes), NEW by \in Authors,
           Store(data, by)
    PROVE  /\ base' = base => IsOverlay(cache, Content(base)', dirty)
           /\ \A u \in inflight : IsOverlay(u.data, Content(u.base)', u.writes)
<1>1. base \in 0 .. Len(versions) /\ \A u \in inflight : u.base \in 0 .. Len(versions)
  BY DEF TypeInv, TypeOK, FileTypes, HandleTypes, Uploads, VersionNumbers
<1>2. \A v \in 0 .. Len(versions) : Content(v)' = Content(v)
  BY StoreType DEF TypeInv
<1>3. base' = base => Content(base)' = Content(base)
  BY <1>1, <1>2
<1>4. \A u \in inflight : Content(u.base)' = Content(u.base)
  BY <1>1, <1>2
<1> QED BY <1>3, <1>4 DEF OverlayInv, CacheIsVersionPlusWrites, InflightInv

\* Downloads, writes, uploads and late uploads keep the cache, and the body of
\* every timed out upload, an overlay of the version it was made from.
LEMMA OverlayStep == TypeInv /\ OverlayInv /\ [Next]_vars => OverlayInv'
<1> SUFFICES ASSUME TypeInv, OverlayInv, [Next]_vars PROVE OverlayInv'
  OBVIOUS
<1>1. ASSUME NEW w \in Workers, ReadAt(w) PROVE OverlayInv'
  BY <1>1 DEF ReadAt, OverlayInv, CacheIsVersionPlusWrites, InflightInv, Content,
     Goto, store, fields, count
<1>2. ASSUME NEW w \in Workers, CheckCache(w) PROVE OverlayInv'
  BY <1>2 DEF CheckCache, OverlayInv, CacheIsVersionPlusWrites, InflightInv,
     Content, Goto, store, fields, calls, count
<1>3. ASSUME NEW w \in Workers, WriteAt(w) PROVE OverlayInv'
  BY <1>3 DEF WriteAt, OverlayInv, CacheIsVersionPlusWrites, InflightInv, Content,
     Goto, store, fields
<1>4. ASSUME NEW w \in Workers, StatFails(w) PROVE OverlayInv'
  BY <1>4 DEF StatFails, OverlayInv, CacheIsVersionPlusWrites, InflightInv, Content,
     Goto, Return, DownloadFails, store, fields, calls, count
<1>5. ASSUME NEW w \in Workers, Stat(w) PROVE OverlayInv'
  BY <1>5 DEF Stat, OverlayInv, CacheIsVersionPlusWrites, InflightInv, Content,
     Goto, store, fields, calls, count
<1>6. ASSUME NEW w \in Workers, GetFails(w) PROVE OverlayInv'
  BY <1>6 DEF GetFails, OverlayInv, CacheIsVersionPlusWrites, InflightInv, Content,
     Goto, Return, DownloadFails, store, fields, calls, count
<1>7. ASSUME NEW w \in Workers, Get(w) PROVE OverlayInv'
  BY <1>7 DEF Get, OverlayInv, CacheIsVersionPlusWrites, InflightInv, Content, Goto,
     store, fields, count
<1>8. ASSUME NEW w \in Workers, CacheEmpty(w) PROVE OverlayInv'
  <2>1. IsOverlay(<<>>, Content(0), {})
    BY EmptySeq, OverlayOfItself DEF Content
  <2>2. Content(0)' = Content(0) /\ \A u \in inflight : Content(u.base)' = Content(u.base)
    BY <1>8 DEF CacheEmpty, store, Content
  <2> QED BY <1>8, <2>1, <2>2 DEF CacheEmpty, store, OverlayInv,
     CacheIsVersionPlusWrites, InflightInv
<1>9. ASSUME NEW w \in Workers, CacheFill(w) PROVE OverlayInv'
  <2>1. resp[w].version \in VersionNumbers
    BY DEF TypeInv, TypeOK, WorkerTypes, Answers
  <2>2. IsOverlay(Content(resp[w].version), Content(resp[w].version), {})
    BY <2>1, ContentType, OverlayOfItself
  <2>3. \A v : Content(v)' = Content(v)
    BY <1>9 DEF CacheFill, Filled, store, Content
  <2>4. CacheIsVersionPlusWrites'
    BY <1>9, <2>2, <2>3 DEF CacheFill, Filled, CacheIsVersionPlusWrites
  <2>5. InflightInv'
    BY <1>9, <2>3 DEF CacheFill, Filled, store, OverlayInv, InflightInv
  <2> QED BY <2>4, <2>5 DEF OverlayInv
<1>10. ASSUME NEW w \in Workers, Serve(w) PROVE OverlayInv'
  BY <1>10 DEF Serve, OverlayInv, CacheIsVersionPlusWrites, InflightInv, Content,
     Goto, Return, store, fields, count
<1>11. ASSUME NEW w \in Workers, LockAndWrite(w) PROVE OverlayInv'
  <2>1. req[w] \in WriteRequests /\ cache \in Seq(Bytes) /\ dirty \in SUBSET WriteRequests
        /\ Content(base) \in Seq(Bytes)
    BY <1>11, ContentType DEF LockAndWrite, TypeInv, TypeOK, HandleTypes, RequestInv
  <2>2. IsOverlay(Overwrite(cache, req[w]), Content(base), dirty \cup {req[w]})
    BY <2>1, OverlayOfWrite DEF OverlayInv, CacheIsVersionPlusWrites
  <2>3. \A v : Content(v)' = Content(v)
    BY <1>11 DEF LockAndWrite, store, Content
  <2> QED BY <1>11, <2>2, <2>3 DEF LockAndWrite, store, OverlayInv,
     CacheIsVersionPlusWrites, InflightInv
<1>12. ASSUME NEW w \in Workers, InitiateFails(w) PROVE OverlayInv'
  BY <1>12 DEF InitiateFails, OverlayInv, CacheIsVersionPlusWrites, InflightInv,
     Content, Goto, Return, UploadFails, fields, count
<1>13. ASSUME NEW w \in Workers, Initiate(w) PROVE OverlayInv'
  BY <1>13 DEF Initiate, OverlayInv, CacheIsVersionPlusWrites, InflightInv, Content,
     Goto, store, fields, count
<1>14. ASSUME NEW w \in Workers, PutStored(w) PROVE OverlayInv'
  <2>1. /\ Store(Body, "handle") /\ "handle" \in Authors
        /\ Body = cache /\ cache \in Seq(Bytes)
    BY <1>14, ContentType DEF PutStored, Authors
  <2>2. Content(base)' = cache
    <3>1. /\ versions'[Len(versions')] = [data |-> cache, by |-> "handle"]
          /\ Len(versions') = Len(versions) + 1 /\ Len(versions) \in Nat
      BY <2>1, StoreType DEF TypeInv
    <3> QED BY <1>14, <3>1 DEF PutStored, Content
  <2>3. CacheIsVersionPlusWrites'
    BY <1>14, <2>1, <2>2, OverlayOfItself DEF PutStored, CacheIsVersionPlusWrites
  <2>4. InflightInv'
    BY <1>14, <2>1, StoreKeepsOverlays DEF PutStored, InflightInv
  <2> QED BY <2>3, <2>4 DEF OverlayInv
<1>15. ASSUME NEW w \in Workers, PutRefused(w) PROVE OverlayInv'
  BY <1>15 DEF PutRefused, OverlayInv, CacheIsVersionPlusWrites, InflightInv,
     Content, Goto, Return, UploadFails, fields, count
<1>16. ASSUME NEW w \in Workers, PutTimesOut(w) PROVE OverlayInv'
  <2>1. Body = cache
    BY ContentType
  <2>2. \A v : Content(v)' = Content(v)
    BY <1>16 DEF PutTimesOut, UploadFails, Content
  <2>3. CacheIsVersionPlusWrites'
    BY <1>16, <2>2 DEF PutTimesOut, UploadFails, fields, OverlayInv,
       CacheIsVersionPlusWrites
  <2>4. InflightInv'
    BY <1>16, <2>1, <2>2 DEF PutTimesOut, OverlayInv, CacheIsVersionPlusWrites,
       InflightInv
  <2> QED BY <2>3, <2>4 DEF OverlayInv
<1>17. ASSUME NEW fl \in OpenFlags, OpenFile(fl) PROVE OverlayInv'
  <2>1. CacheIsVersionPlusWrites'
    BY <1>17, EmptySeq, OverlayOfItself DEF OpenFile, CacheIsVersionPlusWrites,
       Content
  <2>2. CASE Store(<<>>, "touch")
    BY <1>17, <2>1, <2>2, EmptySeq, StoreKeepsOverlays DEF OpenFile, Authors,
       OverlayInv, InflightInv
  <2>3. CASE UNCHANGED <<versions, current>>
    BY <1>17, <2>1, <2>3 DEF OpenFile, Content, OverlayInv, InflightInv
  <2> QED BY <1>17, <2>2, <2>3 DEF OpenFile
<1>18. ASSUME CloseFile PROVE OverlayInv'
  BY <1>18 DEF CloseFile, OverlayInv, CacheIsVersionPlusWrites, InflightInv,
     Content, store, fields, calls, count
<1>19. ASSUME NEW u \in inflight, LateUpload(u) PROVE OverlayInv'
  <2>1. u.data \in Seq(Bytes) /\ "handle" \in Authors
    BY DEF TypeInv, TypeOK, FileTypes, Uploads, Authors
  <2> QED BY <1>19, <2>1, StoreKeepsOverlays DEF LateUpload, fields, OverlayInv,
          CacheIsVersionPlusWrites, InflightInv
<1>20. ASSUME NEW u \in inflight, LoseUpload(u) PROVE OverlayInv'
  BY <1>20 DEF LoseUpload, OverlayInv, CacheIsVersionPlusWrites, InflightInv,
     Content, fields, calls, count
<1>21. ASSUME ForeignWrite PROVE OverlayInv'
  <2>1. PICK c \in ForeignContents : Store(c, "other")
    BY <1>21 DEF ForeignWrite
  <2>2. c \in Seq(Bytes) /\ "other" \in Authors
    BY ConstantsAssumption DEF ConstantsAssumption, Authors
  <2> QED BY <1>21, <2>1, <2>2, StoreKeepsOverlays DEF ForeignWrite, fields,
     OverlayInv,
          CacheIsVersionPlusWrites, InflightInv
<1>22. ASSUME ForeignDelete PROVE OverlayInv'
  BY <1>22 DEF ForeignDelete, OverlayInv, CacheIsVersionPlusWrites, InflightInv,
     Content, fields, calls
<1>23. ASSUME UNCHANGED vars PROVE OverlayInv'
  BY <1>23 DEF vars, OverlayInv, CacheIsVersionPlusWrites, InflightInv, Content,
     store, fields, calls, count
<1> QED BY <1>1, <1>2, <1>3, <1>4, <1>5, <1>6, <1>7, <1>8, <1>9, <1>10, <1>11,
   <1>12, <1>13, <1>14, <1>15, <1>16, <1>17, <1>18, <1>19, <1>20, <1>21, <1>22,
   <1>23 DEF Next, Request, CallStep, LockStep, Environment

\* The cache and the bodies of timed out uploads are overlays of the versions
\* they were made from (downloadFile, WriteAt, uploadFile).
THEOREM OverlaysCorrect == Spec => []OverlayInv
<1>1. Init => OverlayInv
  BY EmptySeq, OverlayOfItself DEF Init, OverlayInv, CacheIsVersionPlusWrites,
     InflightInv, Content
<1>2. TypeInv /\ OverlayInv /\ [Next]_vars => OverlayInv'
  BY OverlayStep
<1> QED BY <1>1, <1>2, TypeCorrect, PTL DEF Spec

\* The cache is always one version of the file with the handle's own unstored
\* writes over it: no interleaving of downloads, writes and failed uploads
\* mixes two versions in it.
THEOREM CacheIsOneVersion == Spec => []CacheIsVersionPlusWrites
<1>1. OverlayInv => CacheIsVersionPlusWrites
  BY DEF OverlayInv
<1> QED BY <1>1, OverlaysCorrect, PTL

-----------------------------------------------------------------------------
(* Stale handles *)

StaleKept ==
    /\ flags' = {} \/ StaleHandle'
    /\ Committed => \E u \in inflight : u \notin inflight'

\* A version the file will not have again stays one when another is stored.
LEMMA GoneForEver ==
    ASSUME TypeInv, NEW v \in VersionNumbers, Gone(v), NEW data \in Seq(Bytes),
           NEW by \in Authors, Store(data, by)
    PROVE  v < current'
<1>1. v \in 0 .. Len(versions) /\ Len(versions) \in Nat /\ current' = Len(versions) + 1
  BY StoreType DEF TypeInv, VersionNumbers
<1> QED BY <1>1

\* No step but CloseFile brings a stale handle back: cacheValid stays TRUE and
\* the ETag changes with a successful upload only.
LEMMA StaleStep == TypeInv /\ UploadInv /\ StaleHandle /\ [Next]_vars => StaleKept
<1> SUFFICES ASSUME TypeInv, UploadInv, StaleHandle, [Next]_vars PROVE StaleKept
  OBVIOUS
<1>a. pc \in [Workers -> Labels] /\ etag \in VersionNumbers /\ Len(versions) \in Nat
  BY DEF TypeInv, TypeOK, FileTypes, WorkerTypes, HandleTypes
<1>b. versions' = versions => ~Committed
  BY <1>a DEF Committed
<1>1. ASSUME NEW w \in Workers, ReadAt(w) PROVE StaleKept
  BY <1>1, <1>a, <1>b DEF ReadAt, StaleKept, StaleHandle, NoDownload, Gone, Goto,
     store, fields, count
<1>2. ASSUME NEW w \in Workers, CheckCache(w) PROVE StaleKept
  BY <1>2, <1>a, <1>b DEF CheckCache, StaleKept, StaleHandle, NoDownload, Gone,
     Goto, store, fields, calls, count
<1>3. ASSUME NEW w \in Workers, WriteAt(w) PROVE StaleKept
  BY <1>3, <1>a, <1>b DEF WriteAt, StaleKept, StaleHandle, NoDownload, Gone, Goto,
     store, fields
<1>4. ASSUME NEW w \in Workers, StatFails(w) PROVE StaleKept
  BY <1>4, <1>a, <1>b DEF StatFails, StaleKept, StaleHandle, NoDownload, Gone, Goto,
     Return, DownloadFails, store, fields, calls, count
<1>5. ASSUME NEW w \in Workers, Stat(w) PROVE StaleKept
  BY <1>5, <1>a, <1>b DEF Stat, StaleKept, StaleHandle, NoDownload, Gone, Goto,
     store, fields, calls, count
<1>6. ASSUME NEW w \in Workers, GetFails(w) PROVE StaleKept
  BY <1>6, <1>a, <1>b DEF GetFails, StaleKept, StaleHandle, NoDownload, Gone, Goto,
     Return, DownloadFails, store, fields, calls, count
<1>7. ASSUME NEW w \in Workers, Get(w) PROVE StaleKept
  BY <1>7, <1>a, <1>b DEF Get, StaleKept, StaleHandle, NoDownload, Gone, Goto,
     store, fields, count
<1>8. ASSUME NEW w \in Workers, CacheEmpty(w) PROVE StaleKept
  BY <1>8, <1>a, <1>b DEF CacheEmpty, StaleKept, StaleHandle, NoDownload, Gone,
     Goto, Downloaded, store, calls, count
<1>9. ASSUME NEW w \in Workers, CacheFill(w) PROVE StaleKept
  BY <1>9, <1>a, <1>b DEF CacheFill, Filled, StaleKept, StaleHandle, NoDownload, Gone, Goto,
     Downloaded, store, count
<1>10. ASSUME NEW w \in Workers, Serve(w) PROVE StaleKept
  BY <1>10, <1>a, <1>b DEF Serve, StaleKept, StaleHandle, NoDownload, Gone, Goto,
     Return, store, fields, count
<1>11. ASSUME NEW w \in Workers, LockAndWrite(w) PROVE StaleKept
  BY <1>11, <1>a, <1>b DEF LockAndWrite, StaleKept, StaleHandle, NoDownload, Gone,
     Goto, store, calls, count
<1>12. ASSUME NEW w \in Workers, InitiateFails(w) PROVE StaleKept
  BY <1>12, <1>a, <1>b DEF InitiateFails, StaleKept, StaleHandle, NoDownload, Gone,
     Goto, Return, UploadFails, fields, count
<1>13. ASSUME NEW w \in Workers, Initiate(w) PROVE StaleKept
  BY <1>13, <1>a, <1>b DEF Initiate, StaleKept, StaleHandle, NoDownload, Gone, Goto,
     store, fields, count
<1>14. ASSUME NEW w \in Workers, PutStored(w) PROVE StaleKept
  <2>1. session[w].ifMatch = etag
    BY <1>14 DEF PutStored, UploadInv, UploadAsAnnounced
  <2>2. etag = current /\ etag # 0
    BY <1>14, <2>1 DEF PutStored, Matches, StaleHandle, NoEtag
  <2>3. ~Gone(etag)
    BY <2>2, <1>a DEF Gone, VersionNumbers
  <2> QED BY <2>3 DEF StaleHandle
<1>15. ASSUME NEW w \in Workers, PutRefused(w) PROVE StaleKept
  BY <1>15, <1>a, <1>b DEF PutRefused, StaleKept, StaleHandle, NoDownload, Gone,
     Goto, Return, UploadFails, fields, count
<1>16. ASSUME NEW w \in Workers, PutTimesOut(w) PROVE StaleKept
  BY <1>16, <1>a, <1>b DEF PutTimesOut, StaleKept, StaleHandle, NoDownload, Gone,
     Goto, Return, UploadFails, fields, count
<1>17. ASSUME NEW fl \in OpenFlags, OpenFile(fl) PROVE StaleKept
  BY <1>17 DEF OpenFile, StaleHandle
<1>18. ASSUME CloseFile PROVE StaleKept
  BY <1>18, <1>b DEF CloseFile, StaleKept, store
<1>19. ASSUME NEW u \in inflight, LateUpload(u) PROVE StaleKept
  <2>1. u.data \in Seq(Bytes) /\ "handle" \in Authors
    BY DEF TypeInv, TypeOK, FileTypes, Uploads, Authors
  <2>2. etag < current'
    BY <1>19, <1>a, <2>1, GoneForEver DEF LateUpload, StaleHandle
  <2> QED BY <1>19, <2>2 DEF LateUpload, fields, StaleKept, StaleHandle, NoDownload,
     Gone
<1>20. ASSUME NEW u \in inflight, LoseUpload(u) PROVE StaleKept
  BY <1>20, <1>a, <1>b DEF LoseUpload, StaleKept, StaleHandle, NoDownload, Gone,
     fields, calls, count
<1>21. ASSUME ForeignWrite PROVE StaleKept
  <2>1. PICK c \in ForeignContents : Store(c, "other")
    BY <1>21 DEF ForeignWrite
  <2>2. c \in Seq(Bytes) /\ "other" \in Authors
    BY ConstantsAssumption DEF ConstantsAssumption, Authors
  <2>3. etag < current'
    BY <1>a, <2>1, <2>2, GoneForEver DEF StaleHandle
  <2>4. ~Committed
    <3>1. versions'[Len(versions')] = [data |-> c, by |-> "other"]
      BY <2>1, <2>2, StoreType DEF TypeInv
    <3> QED BY <3>1 DEF Committed
  <2> QED BY <1>21, <2>3, <2>4 DEF ForeignWrite, fields, StaleKept, StaleHandle,
     NoDownload, Gone
<1>22. ASSUME ForeignDelete PROVE StaleKept
  BY <1>22, <1>a, <1>b DEF ForeignDelete, StaleKept, StaleHandle, NoDownload, Gone,
     fields, calls
<1>23. ASSUME UNCHANGED vars PROVE StaleKept
  BY <1>23, <1>a, <1>b DEF vars, StaleKept, StaleHandle, NoDownload, Gone, store,
     fields, calls, count
<1> QED BY <1>1, <1>2, <1>3, <1>4, <1>5, <1>6, <1>7, <1>8, <1>9, <1>10, <1>11,
   <1>12, <1>13, <1>14, <1>15, <1>16, <1>17, <1>18, <1>19, <1>20, <1>21, <1>22,
   <1>23 DEF Next, Request, CallStep, LockStep, Environment

\* A handle that somebody else's change made stale stores nothing more, however
\* often the client writes to it: only an upload that was under way can land.
THEOREM StaleHandlesStayStale == Spec => StaleHandleNeverCommits
<1>1. TypeInv /\ UploadInv /\ [Next]_vars =>
        [StaleHandle =>
            /\ flags' = {} \/ StaleHandle'
            /\ Committed => \E u \in inflight : u \notin inflight']_vars
  BY StaleStep DEF StaleKept
<1> QED BY <1>1, TypeCorrect, UploadsCorrect, PTL DEF Spec, StaleHandleNeverCommits

=============================================================================
