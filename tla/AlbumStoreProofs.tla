-------------------------- MODULE AlbumStoreProofs --------------------------
(***************************************************************************)
(* Proofs about AlbumStore, for any albums, requests, tasks and any set of *)
(* faults.  The invariant has three parts, each inductive with the ones    *)
(* before it: the life of a photo's item, its file, the album's counter.   *)
(***************************************************************************)
EXTENDS AlbumStore, TLAPS

\* Setting the counter of an album item leaves an item of the table.
LEMMA AlbumCounted ==
    ASSUME NEW item \in AlbumItem, NEW n \in Nat
    PROVE  [item EXCEPT !.next_seq = n] \in AlbumItem
BY DEF AlbumItem

\* And so does setting the status and the url of a photo item.
LEMMA PhotoUpdated ==
    ASSUME NEW item \in PhotoItem, NEW status \in Statuses, NEW url \in BOOLEAN
    PROVE  [item EXCEPT !.status = status, !.url = url] \in PhotoItem
BY DEF PhotoItem

\* Every step keeps the types of tables and program counters.
LEMMA TypePreserved == TypeOK /\ [Next]_vars => TypeOK'
<1> SUFFICES ASSUME TypeOK, [Next]_vars PROVE TypeOK'
    OBVIOUS
<1> USE ParameterAssumption, NoneAssumption
    DEF TypeOK, Requests, AlbumItem, PhotoItem, Statuses, NoAlbum, NoPhoto, WorkerBusy,
        Outcomes, Continue, albumVars, photoVars, putVars, uploadVars, deleteVars
<1>1. ASSUME NEW r \in Puts, PutRead(r) PROVE TypeOK'
    BY <1>1 DEF PutRead, GetAlbum, AlbumReads
<1>2. ASSUME NEW r \in Puts, PutWrite(r) PROVE TypeOK'
    BY <1>2 DEF PutWrite
<1>3. ASSUME NEW u \in Uploads, UploadCheck(u) PROVE TypeOK'
    BY <1>3 DEF UploadCheck
<1>4. ASSUME NEW u \in Uploads, UploadDraw(u) PROVE TypeOK'
  <2>1. PICK outcome \in Outcomes("IncrementSeq") :
           LET next == albums[AlbumOf[u]].next_seq + 1
           IN  /\ albums' = IF Applied(outcome)
                            THEN [albums EXCEPT ![AlbumOf[u]].next_seq = next] ELSE albums
               /\ upSeq' = IF outcome = "ok" THEN [upSeq EXCEPT ![u] = next] ELSE upSeq
               /\ upPc' = [upPc EXCEPT ![u] = Continue(outcome, upPc[u], "create", "500")]
    BY <1>4 DEF UploadDraw
  <2>2. albums[AlbumOf[u]].next_seq + 1 \in Nat /\ AlbumOf[u] \in Albums
    OBVIOUS
  <2>3. upSeq' \in [Uploads -> Nat]
    BY <2>1, <2>2
  <2>4. albums' \in [Albums -> AlbumItem]
    <3> DEFINE drawn == [albums[AlbumOf[u]] EXCEPT
                           !.next_seq = albums[AlbumOf[u]].next_seq + 1]
    <3>1. drawn \in AlbumItem
      BY <2>2, AlbumCounted
    <3>2. albums' = [albums EXCEPT ![AlbumOf[u]] = drawn] \/ albums' = albums
      BY <2>1
    <3> HIDE DEF drawn
    <3> QED
      BY <2>2, <3>1, <3>2
  <2> QED
    BY <1>4, <2>1, <2>3, <2>4 DEF UploadDraw
<1>5. ASSUME NEW u \in Uploads, UploadCreate(u) PROVE TypeOK'
    BY <1>5 DEF UploadCreate, CreatePhoto
<1>6. ASSUME NEW u \in Uploads, UploadReply(u) PROVE TypeOK'
    BY <1>6 DEF UploadReply
<1>7. ASSUME NEW u \in Uploads, WorkerOpen(u) \/ WorkerPanic(u) PROVE TypeOK'
  <2>1. worker' \in [Uploads -> {"none", "done", "logged", "dead"} \cup WorkerBusy]
    <3>1. CASE WorkerOpen(u)
      BY <3>1 DEF WorkerOpen
    <3>2. CASE WorkerPanic(u)
      BY <3>2 DEF WorkerPanic
    <3> QED
      BY <1>7, <3>1, <3>2
  <2> QED
    BY <1>7, <2>1 DEF WorkerOpen, WorkerPanic
<1>8. ASSUME NEW u \in Uploads, WorkerUpload(u) PROVE TypeOK'
    BY <1>8 DEF WorkerUpload, UploadFile
<1>9. ASSUME NEW u \in Uploads, WorkerComplete(u) \/ WorkerFail(u) PROVE TypeOK'
  <2>1. PICK status \in {"completed", "failed"}, outcome \in Outcomes("UpdatePhotoStatus") :
           /\ UpdatePhotoStatus(u, status, outcome)
           /\ worker' = [worker EXCEPT ![u] = Continue(outcome, worker[u], "done", "logged")]
    BY <1>9 DEF WorkerComplete, WorkerFail
  <2>2. (photos[u].url \/ status = "completed") \in BOOLEAN
    OBVIOUS
  <2>3. photos' \in [Uploads -> PhotoItem]
    <3> DEFINE updated == [photos[u] EXCEPT !.status = status,
                             !.url = photos[u].url \/ status = "completed"]
    <3>1. updated \in PhotoItem
      <4>1. photos[u] \in PhotoItem /\ status \in Statuses
        OBVIOUS
      <4> HIDE DEF PhotoItem, Statuses
      <4> QED
        BY <2>2, <4>1, PhotoUpdated
    <3>2. photos' = [photos EXCEPT ![u] = updated] \/ photos' = photos
      BY <2>1 DEF UpdatePhotoStatus
    <3> HIDE DEF updated
    <3> QED
      BY <3>1, <3>2
  <2>4. worker' \in [Uploads -> {"none", "done", "logged", "dead"} \cup WorkerBusy]
    BY <2>1
  <2> QED
    BY <1>9, <2>3, <2>4 DEF WorkerComplete, WorkerFail
<1>10. ASSUME NEW d \in Deletes, DeleteRead(d) PROVE TypeOK'
  <2>1. PICK photo \in PhotoItem :
           IF photo.album = AlbumOf[d]
           THEN /\ delUrl' = [delUrl EXCEPT ![d] = photo.url]
                /\ dropItem' = [dropItem EXCEPT ![d] = "call"]
                /\ dropFile' = [dropFile EXCEPT ![d] = "call"]
                /\ delPc' = [delPc EXCEPT ![d] = "wait"]
           ELSE /\ delPc' = [delPc EXCEPT ![d] = "404"]
                /\ UNCHANGED <<delUrl, dropItem, dropFile>>
    <3>1. photos[PhotoOf[d]] \in PhotoItem /\ oldPhotos[PhotoOf[d]] \in PhotoItem
          /\ NoPhoto \in PhotoItem
      OBVIOUS
    <3>2. \A photo \in GetPhotoByID(PhotoOf[d]) : photo \in PhotoItem
      BY <3>1 DEF GetPhotoByID, PhotoReads
    <3> QED
      BY <1>10, <3>2 DEF DeleteRead
  <2>2. delUrl' \in [Deletes -> BOOLEAN]
    <3>1. photo.url \in BOOLEAN
      OBVIOUS
    <3> QED
      BY <2>1, <3>1
  <2> QED
    BY <1>10, <2>1, <2>2 DEF DeleteRead
<1>11. ASSUME NEW d \in Deletes, DropItem(d) PROVE TypeOK'
    BY <1>11 DEF DropItem
<1>12. ASSUME NEW d \in Deletes, DropFile(d) PROVE TypeOK'
    BY <1>12 DEF DropFile
<1>13. ASSUME NEW d \in Deletes, DeleteReply(d) PROVE TypeOK'
    BY <1>13 DEF DeleteReply
<1>14. ASSUME NEW a \in Albums, SyncAlbums(a) PROVE TypeOK'
    BY <1>14 DEF SyncAlbums
<1>15. ASSUME NEW p \in Uploads, SyncPhotos(p) PROVE TypeOK'
    BY <1>15 DEF SyncPhotos
<1>16. ASSUME NEW t \in Tasks, Crash(t) PROVE TypeOK'
    BY <1>16 DEF Crash
<1>17. ASSUME UNCHANGED vars PROVE TypeOK'
    BY <1>17 DEF vars
<1> QED
    BY <1>1, <1>2, <1>3, <1>4, <1>5, <1>6, <1>7, <1>8, <1>9, <1>10, <1>11, <1>12, <1>13,
       <1>14, <1>15, <1>16, <1>17 DEF Next, PutStep, UploadStep, WorkerStep, DeleteStep

\* The tables, the bucket and the program counters always have their types.
THEOREM TypeCorrect == Spec => []TypeOK
<1>1. Init => TypeOK
    BY DEF Init, TypeOK, AlbumItem, PhotoItem, Statuses, NoAlbum, NoPhoto
<1> QED
    BY <1>1, TypePreserved, PTL DEF Spec

-----------------------------------------------------------------------------
(* The inductive invariant *)

\* A delete that found its photo.
Deleting(d) == delPc[d] \notin {"start", "404"}

\* Before the first attempt to create its item, and when there is to be none.
Unborn(u) == upPc[u] \in {"start", "draw", "404"} \cup
                         IF "CreatePhoto" \in Retried THEN {} ELSE {"create"}

IdleWorker == \A u \in Uploads : upPc[u] \in {"start", "draw", "create", "404"} => worker[u] = "none"
DrawnSeq == \A u \in Uploads : upPc[u] = "create" => upSeq[u] # 0
UnbornEmpty == \A u \in Uploads : Unborn(u) => photos[u] = NoPhoto /\ oldPhotos[u] = NoPhoto
DeletesBorn == \A d \in Deletes : Deleting(d) => ~Unborn(PhotoOf[d])
DropsDeleting == \A d \in Deletes : dropItem[d] # "none" \/ dropFile[d] # "none" => Deleting(d)

ItemInv ==
    /\ IdleWorker
    /\ DrawnSeq
    /\ UnbornEmpty
    /\ VisibleSeq
    /\ DeletesBorn
    /\ DropsDeleting
    /\ "CreatePhoto" \notin Retried => DeletedPhotoGone

\* The goroutine will not write the file any more.
Uploaded(u) == worker[u] \in {"complete", "fail", "done", "logged", "dead"}

UrlUploaded == \A u \in Uploads : photos[u].url \/ oldPhotos[u].url => Uploaded(u)
ReadUploaded == \A d \in Deletes : delUrl[d] => Deleting(d) /\ Uploaded(PhotoOf[d])
CompleteFile == \A u \in Uploads : worker[u] = "complete" =>
                    u \in files \/ \E d \in Deletes : PhotoOf[d] = u /\ delUrl[d]
DroppedFile == \A d \in Deletes : dropFile[d] = "ok" /\ delUrl[d] => PhotoOf[d] \notin files
AnsweredDrop == \A d \in Deletes : delPc[d] = "204" => dropFile[d] = "ok"

FileInv ==
    /\ UrlUploaded
    /\ ReadUploaded
    /\ CompleteFile
    /\ UrlServesFile
    /\ DroppedFile
    /\ AnsweredDrop

CounterInv ==
    /\ \A a \in Albums : albums[a].body = None => albums[a] = NoAlbum /\ oldAlbums[a] = NoAlbum
    /\ \A u \in Uploads : upPc[u] = "draw" => albums[AlbumOf[u]].body # None

IInv == TypeOK /\ ItemInv /\ FileInv /\ CounterInv

-----------------------------------------------------------------------------
(* The counter of an album *)

\* No step creates an album that only has a counter, and none takes an album away.
LEMMA CounterPreserved == TypeOK /\ CounterInv /\ [Next]_vars => CounterInv'
<1> SUFFICES ASSUME TypeOK, CounterInv, [Next]_vars PROVE CounterInv'
    OBVIOUS
<1> USE ParameterAssumption, NoneAssumption
    DEF TypeOK, CounterInv, Requests, AlbumItem, NoAlbum, Continue, albumVars, photoVars, putVars,
        uploadVars, deleteVars
<1>1. ASSUME NEW r \in Puts, PutRead(r) PROVE CounterInv'
    BY <1>1 DEF PutRead
<1>2. ASSUME NEW r \in Puts, PutWrite(r) PROVE CounterInv'
    BY <1>2 DEF PutWrite
<1>3. ASSUME NEW u \in Uploads, UploadCheck(u) PROVE CounterInv'
    BY <1>3 DEF UploadCheck, GetAlbum, AlbumReads
<1>4. ASSUME NEW u \in Uploads, UploadDraw(u) PROVE CounterInv'
    BY <1>4 DEF UploadDraw
<1>5. ASSUME NEW u \in Uploads, UploadCreate(u) \/ UploadReply(u) PROVE CounterInv'
    BY <1>5 DEF UploadCreate, CreatePhoto, UploadReply
<1>6. ASSUME NEW a \in Albums, SyncAlbums(a) PROVE CounterInv'
    BY <1>6 DEF SyncAlbums
<1>7. ASSUME NEW t \in Tasks, Crash(t) PROVE CounterInv'
    BY <1>7 DEF Crash
<1>8. ASSUME UNCHANGED <<albums, oldAlbums, upPc>> PROVE CounterInv'
    BY <1>8
<1>9. ASSUME NEW u \in Uploads, WorkerStep(u) \/ WorkerPanic(u) PROVE CounterInv'
    BY <1>8, <1>9 DEF WorkerStep, WorkerOpen, WorkerUpload, UploadFile, WorkerComplete, WorkerFail, WorkerPanic
<1>10. ASSUME NEW d \in Deletes, DeleteStep(d) PROVE CounterInv'
    BY <1>8, <1>10 DEF DeleteStep, DeleteRead, DropItem, DropFile, DeleteReply
<1>11. ASSUME NEW p \in Uploads, SyncPhotos(p) PROVE CounterInv'
    BY <1>8, <1>11 DEF SyncPhotos
<1>12. ASSUME UNCHANGED vars PROVE CounterInv'
    BY <1>8, <1>12 DEF vars
<1> QED
    BY <1>1, <1>2, <1>3, <1>4, <1>5, <1>6, <1>7, <1>9, <1>10, <1>11, <1>12
    DEF Next, PutStep, UploadStep

-----------------------------------------------------------------------------
(* The items and the files of the photos *)

\* No step makes an item visible twice, or changes what identifies it.
LEMMA ItemPreserved == TypeOK /\ ItemInv /\ [Next]_vars => ItemInv'
<1> SUFFICES ASSUME TypeOK, ItemInv, [Next]_vars PROVE ItemInv'
    OBVIOUS
<1> USE ParameterAssumption, NoneAssumption
    DEF TypeOK, ItemInv, IdleWorker, DrawnSeq, UnbornEmpty, VisibleSeq, DeletesBorn,
        DropsDeleting, DeletedPhotoGone, Unborn, Deleting, Requests, PhotoItem, NoPhoto,
        Continue, albumVars, photoVars, putVars, uploadVars, deleteVars
<1>1. ASSUME NEW u \in Uploads, UploadCheck(u) PROVE ItemInv'
    BY <1>1 DEF UploadCheck
<1>2. ASSUME NEW u \in Uploads, UploadDraw(u) PROVE ItemInv'
  <2>1. /\ UNCHANGED <<photoVars, worker, deleteVars>>
        /\ upPc[u] = "draw" /\ upPc'[u] \in {"draw", "create", "500"}
        /\ \A v \in Uploads \ {u} : upPc'[v] = upPc[v] /\ upSeq'[v] = upSeq[v]
    BY <1>2 DEF UploadDraw
  <2>2. upPc'[u] = "create" => upSeq'[u] # 0
    <3>1. AlbumOf[u] \in Albums
      OBVIOUS
    <3>2. albums[AlbumOf[u]].next_seq \in Nat
      BY <3>1 DEF AlbumItem
    <3> QED
      BY <1>2, <3>2 DEF UploadDraw
  <2>3. photos[u] = NoPhoto
    BY <2>1
  <2>4. IdleWorker' /\ DrawnSeq'
    BY <2>1, <2>2
  <2>5. UnbornEmpty' /\ DeletesBorn' /\ DropsDeleting'
    BY <2>1
  <2>6. VisibleSeq'
    BY <2>1, <2>3
  <2>7. DeletedPhotoGone => DeletedPhotoGone'
    BY <2>1
  <2> QED
    BY <2>4, <2>5, <2>6, <2>7
<1>3. ASSUME NEW u \in Uploads, UploadCreate(u) PROVE ItemInv'
  <2>1. /\ UNCHANGED <<oldPhotos, upSeq, deleteVars>>
        /\ upPc[u] = "create"
        /\ upPc'[u] \in {"reply", "500"} \/ ("CreatePhoto" \in Retried /\ upPc'[u] = "create")
        /\ upPc'[u] = "create" => worker' = worker
        /\ \A v \in Uploads \ {u} :
             upPc'[v] = upPc[v] /\ worker'[v] = worker[v] /\ photos'[v] = photos[v]
    BY <1>3 DEF UploadCreate, CreatePhoto, Outcomes
  <2>2. \/ photos' = photos
        \/ photos'[u].album = AlbumOf[u] /\ photos'[u].seq = upSeq[u]
    BY <1>3 DEF UploadCreate, CreatePhoto
  <2>3. upSeq[u] # 0 /\ worker[u] = "none"
    BY <2>1
  <2>4. VisibleSeq'
    BY <2>1, <2>2, <2>3
  <2>5. ASSUME "CreatePhoto" \notin Retried PROVE DeletedPhotoGone'
    <3>1. \A d \in Deletes : dropItem[d] = "ok" => PhotoOf[d] # u
      BY <2>1, <2>5
    <3> QED
      BY <2>1, <2>5, <3>1
  <2>6. IdleWorker' /\ DrawnSeq'
    BY <2>1, <2>3
  <2>7. UnbornEmpty' /\ DeletesBorn' /\ DropsDeleting'
    BY <2>1
  <2> QED
    BY <2>4, <2>5, <2>6, <2>7
<1>4. ASSUME NEW u \in Uploads, UploadReply(u) PROVE ItemInv'
    BY <1>4 DEF UploadReply
<1>5. ASSUME NEW u \in Uploads, WorkerOpen(u) \/ WorkerPanic(u) PROVE ItemInv'
    BY <1>5 DEF WorkerOpen, WorkerPanic
<1>6. ASSUME NEW u \in Uploads, WorkerUpload(u) PROVE ItemInv'
    BY <1>6 DEF WorkerUpload, UploadFile
<1>7. ASSUME NEW u \in Uploads, WorkerComplete(u) \/ WorkerFail(u) PROVE ItemInv'
  <2>1. /\ UNCHANGED <<oldPhotos, uploadVars, deleteVars>>
        /\ worker[u] # "none"
        /\ \A v \in Uploads \ {u} : photos'[v] = photos[v] /\ worker'[v] = worker[v]
    BY <1>7 DEF WorkerComplete, WorkerFail, UpdatePhotoStatus
  <2>2. photos'[u].album = photos[u].album /\ photos'[u].seq = photos[u].seq
    BY <1>7 DEF WorkerComplete, WorkerFail, UpdatePhotoStatus
  <2>3. upPc[u] \notin {"start", "draw", "create", "404"}
    BY <2>1
  <2>4. IdleWorker' /\ DrawnSeq' /\ UnbornEmpty'
    BY <2>1, <2>3
  <2>5. DeletesBorn' /\ DropsDeleting'
    BY <2>1
  <2>7. VisibleSeq'
    <3>1. \A v \in Uploads : photos'[v].album = photos[v].album /\ photos'[v].seq = photos[v].seq
      BY <2>1, <2>2
    <3> QED
      BY <2>1, <3>1
  <2>6. DeletedPhotoGone => DeletedPhotoGone'
    BY <2>1, <2>2
  <2> QED
    BY <2>4, <2>5, <2>6, <2>7
<1>8. ASSUME NEW d \in Deletes, DeleteRead(d) PROVE ItemInv'
  <2>1. /\ UNCHANGED <<photoVars, uploadVars, worker>>
        /\ delPc[d] = "start"
        /\ \A e \in Deletes \ {d} : /\ delPc'[e] = delPc[e]
                                    /\ dropItem'[e] = dropItem[e] /\ dropFile'[e] = dropFile[e]
    BY <1>8 DEF DeleteRead
  <2>2. \/ delPc'[d] = "wait" /\ ~Unborn(PhotoOf[d]) /\ dropItem'[d] = "call"
        \/ delPc'[d] = "404" /\ dropItem' = dropItem /\ dropFile' = dropFile
    BY <1>8 DEF DeleteRead, GetPhotoByID, PhotoReads
  <2>3. DeletesBorn' /\ DropsDeleting'
    BY <2>1, <2>2
  <2>4. DeletedPhotoGone => DeletedPhotoGone'
    BY <2>1, <2>2
  <2> QED
    BY <2>1, <2>3, <2>4
<1>9. ASSUME NEW d \in Deletes, DropItem(d) PROVE ItemInv'
  <2>1. /\ UNCHANGED <<oldPhotos, uploadVars, worker, delPc, dropFile>>
        /\ dropItem[d] = "call"
        /\ \A e \in Deletes \ {d} : dropItem'[e] = dropItem[e]
        /\ \A v \in Uploads : photos'[v] \in {photos[v], NoPhoto}
    BY <1>9 DEF DropItem
  <2>2. dropItem'[d] = "ok" => photos'[PhotoOf[d]] = NoPhoto
    BY <1>9 DEF DropItem, Outcomes, Applied
  <2>3. UnbornEmpty' /\ DropsDeleting'
    BY <2>1
  <2>5. VisibleSeq'
    <3>1. \A v \in Uploads : photos'[v].album = None
                            \/ (photos'[v].album = photos[v].album /\ photos'[v].seq = photos[v].seq)
      BY <2>1
    <3> QED
      BY <2>1, <3>1
  <2>4. DeletedPhotoGone => DeletedPhotoGone'
    BY <2>1, <2>2
  <2> QED
    BY <2>1, <2>3, <2>4, <2>5
<1>10. ASSUME NEW d \in Deletes, DropFile(d) PROVE ItemInv'
    BY <1>10 DEF DropFile
<1>11. ASSUME NEW d \in Deletes, DeleteReply(d) PROVE ItemInv'
    BY <1>11 DEF DeleteReply
<1>12. ASSUME NEW p \in Uploads, SyncPhotos(p) PROVE ItemInv'
    BY <1>12 DEF SyncPhotos
<1>13. ASSUME NEW t \in Tasks, Crash(t) PROVE ItemInv'
    BY <1>13 DEF Crash, UploadBusy, WorkerBusy, DeleteBusy
<1>14. ASSUME UNCHANGED <<photoVars, uploadVars, worker, deleteVars>> PROVE ItemInv'
    BY <1>14
<1>15. ASSUME NEW r \in Puts, PutStep(r) PROVE ItemInv'
    BY <1>14, <1>15 DEF PutStep, PutRead, PutWrite
<1>16. ASSUME NEW a \in Albums, SyncAlbums(a) PROVE ItemInv'
    BY <1>14, <1>16 DEF SyncAlbums
<1>17. ASSUME UNCHANGED vars PROVE ItemInv'
    BY <1>14, <1>17 DEF vars
<1> QED
    BY <1>1, <1>2, <1>3, <1>4, <1>5, <1>6, <1>7, <1>8, <1>9, <1>10, <1>11, <1>12, <1>13,
       <1>15, <1>16, <1>17 DEF Next, UploadStep, WorkerStep, DeleteStep

\* No goroutine writes a file once somebody was shown its url.
LEMMA FilePreserved == TypeOK /\ ItemInv /\ FileInv /\ [Next]_vars => FileInv'
<1> SUFFICES ASSUME TypeOK, ItemInv, FileInv, [Next]_vars PROVE FileInv'
    OBVIOUS
<1> USE ParameterAssumption, NoneAssumption
    DEF TypeOK, FileInv, UrlUploaded, ReadUploaded, CompleteFile, UrlServesFile, DroppedFile,
        AnsweredDrop, Uploaded, Deleting, Requests, PhotoItem, NoPhoto, Continue, albumVars, photoVars, putVars, uploadVars, deleteVars
<1>3. ASSUME NEW u \in Uploads, UploadCreate(u) PROVE FileInv'
  <2>1. /\ UNCHANGED <<oldPhotos, files, deleteVars>>
        /\ worker'[u] \in {"none", "open"}
        /\ \A v \in Uploads \ {u} : photos'[v] = photos[v] /\ worker'[v] = worker[v]
    BY <1>3 DEF UploadCreate, CreatePhoto, ItemInv, IdleWorker
  <2>2. ~photos'[u].url /\ ~Uploaded(u)
    <3>1. worker[u] = "none"
      BY <1>3 DEF UploadCreate, CreatePhoto, ItemInv, IdleWorker
    <3>2. photos'[u].url => photos[u].url
      BY <1>3 DEF UploadCreate, CreatePhoto
    <3> QED
      BY <3>1, <3>2
  <2>3. UrlUploaded'
    BY <2>1, <2>2
  <2>6. ReadUploaded'
    BY <2>1, <2>2
  <2>4. CompleteFile'
    BY <2>1
  <2>5. UrlServesFile'
    BY <2>1, <2>2
  <2> QED
    BY <2>1, <2>3, <2>4, <2>5, <2>6
<1>5. ASSUME NEW u \in Uploads, WorkerOpen(u) \/ WorkerPanic(u) PROVE FileInv'
  <2>1. /\ UNCHANGED <<photoVars, files, deleteVars>>
        /\ worker'[u] \in {"upload", "fail"}
        /\ worker'[u] = "upload" => ~Uploaded(u)
        /\ \A v \in Uploads \ {u} : worker'[v] = worker[v]
    BY <1>5 DEF WorkerOpen, WorkerPanic
  <2>2. UrlUploaded' /\ ReadUploaded'
    BY <2>1
  <2>3. CompleteFile' /\ UrlServesFile' /\ DroppedFile' /\ AnsweredDrop'
    BY <2>1
  <2> QED
    BY <2>2, <2>3
<1>6. ASSUME NEW u \in Uploads, WorkerUpload(u) PROVE FileInv'
  <2>1. /\ UNCHANGED <<photoVars, deleteVars>>
        /\ worker[u] = "upload"
        /\ worker'[u] \in {"upload", "complete", "fail"}
        /\ \A v \in Uploads \ {u} : worker'[v] = worker[v]
        /\ files \subseteq files' /\ files' \subseteq files \cup {u}
    BY <1>6 DEF WorkerUpload, UploadFile
  <2>2. worker'[u] = "complete" => u \in files'
    BY <1>6 DEF WorkerUpload, UploadFile, Outcomes, Applied
  <2>3. \A d \in Deletes : delUrl[d] => PhotoOf[d] # u
    BY <2>1
  <2>4. UrlUploaded' /\ ReadUploaded'
    BY <2>1, <2>3
  <2>5. CompleteFile' /\ UrlServesFile'
    BY <2>1, <2>2
  <2>6. DroppedFile' /\ AnsweredDrop'
    BY <2>1, <2>3
  <2> QED
    BY <2>4, <2>5, <2>6
<1>7. ASSUME NEW u \in Uploads, WorkerComplete(u) \/ WorkerFail(u) PROVE FileInv'
  <2>1. /\ UNCHANGED <<oldPhotos, files, deleteVars>>
        /\ worker[u] \in {"complete", "fail"}
        /\ worker'[u] \in {worker[u], "done", "logged"}
        /\ \A v \in Uploads \ {u} : photos'[v] = photos[v] /\ worker'[v] = worker[v]
    BY <1>7 DEF WorkerComplete, WorkerFail, UpdatePhotoStatus
  <2>2. photos'[u].url => photos[u].url \/ worker[u] = "complete"
    BY <1>7 DEF WorkerComplete, WorkerFail, UpdatePhotoStatus
  <2>3. UrlUploaded'
    BY <2>1
  <2>5. ReadUploaded'
    BY <2>1
  <2>6. CompleteFile'
    <3>1. \A v \in Uploads : worker'[v] = "complete" => worker[v] = "complete"
      BY <2>1
    <3> QED
      BY <2>1, <3>1
  <2>4. UrlServesFile'
    BY <2>1, <2>2
  <2> QED
    BY <2>1, <2>3, <2>4, <2>5, <2>6
<1>8. ASSUME NEW d \in Deletes, DeleteRead(d) PROVE FileInv'
  <2>1. /\ UNCHANGED <<photoVars, files, worker>>
        /\ delPc[d] = "start"
        /\ \A e \in Deletes \ {d} : /\ delPc'[e] = delPc[e] /\ (delUrl'[e] <=> delUrl[e])
                                    /\ dropFile'[e] = dropFile[e]
    BY <1>8 DEF DeleteRead
  <2>2. \/ delPc'[d] = "wait" /\ dropFile'[d] = "call" /\ (delUrl'[d] => Uploaded(PhotoOf[d]))
        \/ delPc'[d] = "404" /\ delUrl' = delUrl /\ dropFile' = dropFile
    BY <1>8 DEF DeleteRead, GetPhotoByID, PhotoReads
  <2>3. ~delUrl[d]
    BY <2>1
  <2>4. ReadUploaded'
    BY <2>1, <2>2, <2>3
  <2>5. AnsweredDrop'
    BY <2>1, <2>2
  <2>6. DroppedFile'
    <3>1. dropFile'[d] # "ok"
      BY <2>1, <2>2 DEF ItemInv, DropsDeleting
    <3> QED
      BY <2>1, <3>1
  <2>7. \A e \in Deletes : delUrl[e] => delUrl'[e]
    BY <2>1, <2>3
  <2>8. CompleteFile' /\ UrlServesFile'
    BY <2>1, <2>7
  <2> QED
    BY <2>1, <2>4, <2>5, <2>6, <2>8
<1>9. ASSUME NEW d \in Deletes, DropItem(d) PROVE FileInv'
    BY <1>9 DEF DropItem, Outcomes, Applied
<1>10. ASSUME NEW d \in Deletes, DropFile(d) PROVE FileInv'
    BY <1>10 DEF DropFile, Outcomes, Applied
<1>11. ASSUME NEW d \in Deletes, DeleteReply(d) PROVE FileInv'
    BY <1>11 DEF DeleteReply
<1>12. ASSUME NEW p \in Uploads, SyncPhotos(p) PROVE FileInv'
    BY <1>12 DEF SyncPhotos
<1>13. ASSUME NEW t \in Tasks, Crash(t) PROVE FileInv'
    BY <1>13 DEF Crash, UploadBusy, WorkerBusy, DeleteBusy
<1>14. ASSUME UNCHANGED <<photoVars, files, worker, deleteVars>> PROVE FileInv'
    BY <1>14
<1>15. ASSUME NEW r \in Puts, PutStep(r) PROVE FileInv'
    BY <1>14, <1>15 DEF PutStep, PutRead, PutWrite
<1>16. ASSUME NEW a \in Albums, SyncAlbums(a) PROVE FileInv'
    BY <1>14, <1>16 DEF SyncAlbums
<1>17. ASSUME NEW u \in Uploads, UploadCheck(u) \/ UploadDraw(u) \/ UploadReply(u) PROVE FileInv'
    BY <1>14, <1>17 DEF UploadCheck, UploadDraw, UploadReply
<1>18. ASSUME UNCHANGED vars PROVE FileInv'
    BY <1>14, <1>18 DEF vars
<1> QED
    BY <1>3, <1>5, <1>6, <1>7, <1>8, <1>9, <1>10, <1>11, <1>12, <1>13,
       <1>15, <1>16, <1>17, <1>18 DEF Next, UploadStep, WorkerStep, DeleteStep

-----------------------------------------------------------------------------
(* Theorems *)

\* The invariant of the album store, whatever fails and whatever is repeated.
THEOREM Invariant == Spec => []IInv
<1>1. Init => IInv
  <2> SUFFICES ASSUME Init PROVE IInv
      OBVIOUS
  <2>1. TypeOK
    BY DEF Init, TypeOK, AlbumItem, PhotoItem, Statuses, NoAlbum, NoPhoto
  <2>2. ItemInv
    BY DEF Init, ItemInv, IdleWorker, DrawnSeq, UnbornEmpty, VisibleSeq, DeletesBorn,
           DropsDeleting, DeletedPhotoGone, Deleting, NoPhoto
  <2>3. FileInv
    BY DEF Init, FileInv, UrlUploaded, ReadUploaded, CompleteFile, UrlServesFile, DroppedFile,
           AnsweredDrop, NoPhoto
  <2>4. CounterInv
    BY ParameterAssumption DEF Init, CounterInv, Requests
  <2> QED
    BY <2>1, <2>2, <2>3, <2>4 DEF IInv
<1>2. IInv /\ [Next]_vars => IInv'
  BY TypePreserved, ItemPreserved, FilePreserved, CounterPreserved DEF IInv
<1> QED
  BY <1>1, <1>2, PTL DEF Spec

\* A visible photo always carries its upload's album and number.
THEOREM VisibleSeqHolds == Spec => []VisibleSeq
<1>1. IInv => VisibleSeq
  BY DEF IInv, ItemInv
<1> QED
  BY <1>1, Invariant, PTL

\* As long as the SDK never sends a CreatePhoto again, a photo whose item was
\* deleted is never visible again, whatever its goroutine still does.
THEOREM DeletedStaysGone ==
    ASSUME "CreatePhoto" \notin Retried
    PROVE  Spec => []DeletedPhotoGone
<1>1. IInv => DeletedPhotoGone
  BY DEF IInv, ItemInv
<1> QED
  BY <1>1, Invariant, PTL

\* A delete that saw the url and answered 204 removed the file for good.
THEOREM DeletedFileStaysGone == Spec => []DeletedUrlFileGone
<1>1. IInv => DeletedUrlFileGone
  BY DEF IInv, FileInv, AnsweredDrop, DroppedFile, DeletedUrlFileGone
<1> QED
  BY <1>1, Invariant, PTL

\* A url leads to a file unless a delete read it.
THEOREM UrlAlwaysServes == Spec => []UrlServesFile
<1>1. IInv => UrlServesFile
  BY DEF IInv, FileInv
<1> QED
  BY <1>1, Invariant, PTL

\* No counter without an album.
THEOREM NeverBareCounter == Spec => []NoBareCounter
<1>1. IInv => NoBareCounter
  BY DEF IInv, CounterInv, NoBareCounter, NoAlbum, TypeOK, AlbumItem
<1> QED
  BY <1>1, Invariant, PTL

-----------------------------------------------------------------------------
(* The numbers of an album that is PUT once *)

\* Every album is PUT at most once, and the SDK does not send that again.
OnePut ==
    /\ "PutAlbum" \notin Retried
    /\ \A q, r \in Puts : AlbumOf[q] = AlbumOf[r] => q = r

\* Until the album is put nothing is drawn from it; then its counter only grows.
FreshPut == \A r \in Puts : putPc[r] \in {"start", "write"} =>
    albums[AlbumOf[r]] = NoAlbum /\ putSeq[r] = 0
DrawnBelow == \A u \in Uploads : upSeq[u] <= albums[AlbumOf[u]].next_seq

SeqInv == FreshPut /\ DrawnBelow /\ SeqUnique

\* The step of IncrementSeq: the number it hands out is above all others.
LEMMA DrawStep ==
    ASSUME TypeOK, SeqInv, NEW u \in Uploads, UploadDraw(u)
    PROVE  /\ albums[AlbumOf[u]].next_seq \in Nat
           /\ \A v \in Uploads : AlbumOf[v] \in Albums /\ upSeq[v] \in Nat
           /\ \A v \in Uploads \ {u} : upSeq'[v] = upSeq[v]
           /\ upSeq'[u] \in {upSeq[u], albums[AlbumOf[u]].next_seq + 1}
           /\ \A a \in Albums \ {AlbumOf[u]} : albums'[a] = albums[a]
           /\ albums'[AlbumOf[u]].next_seq
                \in {albums[AlbumOf[u]].next_seq, albums[AlbumOf[u]].next_seq + 1}
           /\ upSeq'[u] # upSeq[u] =>
                albums'[AlbumOf[u]].next_seq = albums[AlbumOf[u]].next_seq + 1
<1> USE ParameterAssumption DEF TypeOK, Requests
<1>1. AlbumOf[u] \in Albums /\ albums[AlbumOf[u]] \in AlbumItem
    OBVIOUS
<1>2. albums[AlbumOf[u]].next_seq \in Nat
    BY <1>1 DEF AlbumItem
<1>3. PICK outcome \in Outcomes("IncrementSeq") :
        /\ albums' = IF Applied(outcome)
                     THEN [albums EXCEPT ![AlbumOf[u]].next_seq = albums[AlbumOf[u]].next_seq + 1]
                     ELSE albums
        /\ upSeq' = IF outcome = "ok"
                    THEN [upSeq EXCEPT ![u] = albums[AlbumOf[u]].next_seq + 1] ELSE upSeq
    BY DEF UploadDraw
<1> QED
    BY <1>1, <1>2, <1>3 DEF Applied, AlbumItem

\* Every other step leaves the numbers alone, and a counter only moves by the one PUT.
LEMMA SeqPreserved ==
    ASSUME OnePut
    PROVE  TypeOK /\ CounterInv /\ SeqInv /\ [Next]_vars => SeqInv'
<1> SUFFICES ASSUME TypeOK, CounterInv, SeqInv, [Next]_vars PROVE SeqInv'
    OBVIOUS
<1> USE ParameterAssumption, NoneAssumption
    DEF TypeOK, SeqInv, FreshPut, DrawnBelow, SeqUnique, InAlbumOf, Requests,
        albumVars, photoVars, putVars, uploadVars, deleteVars
<1>1. ASSUME NEW r \in Puts, PutRead(r) PROVE SeqInv'
  <2>1. albums[AlbumOf[r]] = NoAlbum /\ oldAlbums[AlbumOf[r]] = NoAlbum
    BY <1>1 DEF PutRead, CounterInv, NoAlbum
  <2>2. putSeq'[r] = 0 /\ UNCHANGED <<albums, uploadVars>>
    BY <1>1, <2>1 DEF PutRead, GetAlbum, AlbumReads, NoAlbum
  <2> QED
    BY <1>1, <2>1, <2>2 DEF PutRead
<1>2. ASSUME NEW r \in Puts, PutWrite(r) PROVE SeqInv'
  <2>1. UNCHANGED <<uploadVars, putSeq>> /\ putPc'[r] \notin {"start", "write"}
    BY <1>2 DEF PutWrite, Outcomes, Continue, OnePut
  <2>2. albums[AlbumOf[r]].next_seq = 0 /\ albums'[AlbumOf[r]].next_seq = 0
    BY <1>2 DEF PutWrite, NoAlbum
  <2>3. \A a \in Albums \ {AlbumOf[r]} : albums'[a] = albums[a]
    BY <1>2 DEF PutWrite
  <2>4. DrawnBelow' /\ SeqUnique'
    BY <2>1, <2>2, <2>3
  <2>5. FreshPut'
    BY <1>2, <2>1, <2>3 DEF PutWrite, OnePut
  <2> QED
    BY <2>4, <2>5
<1>3. ASSUME NEW u \in Uploads, UploadDraw(u) PROVE SeqInv'
  <2>1. FreshPut'
    <3>1. UNCHANGED <<putPc, putSeq>> /\ albums[AlbumOf[u]].body # None
      BY <1>3 DEF UploadDraw, CounterInv
    <3>2. \A r \in Puts : putPc[r] \in {"start", "write"} => AlbumOf[r] # AlbumOf[u]
      BY <3>1 DEF NoAlbum
    <3> QED
      BY <1>3, <3>1, <3>2, DrawStep
  <2>2. DrawnBelow'
    <3> DEFINE n == albums[AlbumOf[u]].next_seq
               m == albums'[AlbumOf[u]].next_seq
    <3>3. /\ n \in Nat /\ m \in {n, n + 1}
          /\ upSeq[u] \in Nat /\ upSeq[u] <= n
          /\ upSeq'[u] = upSeq[u] \/ (upSeq'[u] = n + 1 /\ m = n + 1)
      BY <1>3, DrawStep
    <3>1. ASSUME NEW v \in Uploads, v # u PROVE upSeq'[v] <= albums'[AlbumOf[v]].next_seq
      <4>1. upSeq'[v] = upSeq[v] /\ upSeq[v] \in Nat /\ upSeq[v] <= albums[AlbumOf[v]].next_seq
        BY <1>3, <3>1, DrawStep
      <4>2. CASE AlbumOf[v] = AlbumOf[u]
        <5>1. upSeq[v] <= n
          BY <4>1, <4>2
        <5>2. upSeq'[v] <= m
          <6> HIDE DEF n, m
          <6> QED
            BY <3>3, <4>1, <5>1
        <5> QED
          BY <4>2, <5>2
      <4>3. CASE AlbumOf[v] # AlbumOf[u]
        BY <1>3, <4>1, <4>3, DrawStep
      <4> QED
        BY <4>2, <4>3
    <3>2. upSeq'[u] <= albums'[AlbumOf[u]].next_seq
      <4>1. upSeq'[u] <= m
        <5> HIDE DEF n, m
        <5> QED
          BY <3>3
      <4> QED
        BY <4>1
    <3> QED
      BY <3>1, <3>2
  <2>3. SeqUnique'
    BY <1>3, DrawStep
  <2> QED
    BY <2>1, <2>2, <2>3
<1>4. ASSUME NEW t \in Tasks, Crash(t) PROVE SeqInv'
    BY <1>4 DEF Crash, PutBusy
<1>5. ASSUME UNCHANGED <<albums, putPc, putSeq, upSeq>> PROVE SeqInv'
    BY <1>5
<1>6. ASSUME NEW u \in Uploads, UploadCheck(u) \/ UploadCreate(u) \/ UploadReply(u) PROVE SeqInv'
    BY <1>5, <1>6 DEF UploadCheck, UploadCreate, CreatePhoto, UploadReply
<1>7. ASSUME NEW u \in Uploads, WorkerStep(u) \/ WorkerPanic(u) PROVE SeqInv'
    BY <1>5, <1>7 DEF WorkerStep, WorkerOpen, WorkerUpload, UploadFile, WorkerComplete, WorkerFail, WorkerPanic
<1>8. ASSUME NEW d \in Deletes, DeleteStep(d) PROVE SeqInv'
    BY <1>5, <1>8 DEF DeleteStep, DeleteRead, DropItem, DropFile, DeleteReply
<1>9. ASSUME NEW a \in Albums, SyncAlbums(a) PROVE SeqInv'
    BY <1>5, <1>9 DEF SyncAlbums
<1>10. ASSUME NEW p \in Uploads, SyncPhotos(p) PROVE SeqInv'
    BY <1>5, <1>10 DEF SyncPhotos
<1>11. ASSUME UNCHANGED vars PROVE SeqInv'
    BY <1>5, <1>11 DEF vars
<1> QED
    BY <1>1, <1>2, <1>3, <1>4, <1>6, <1>7, <1>8, <1>9, <1>10, <1>11
    DEF Next, PutStep, UploadStep

\* The invariant of the numbers.
THEOREM SeqInvariant == ASSUME OnePut PROVE Spec => [](IInv /\ SeqInv)
<1>1. Init => SeqInv
    BY ParameterAssumption
    DEF Init, SeqInv, FreshPut, DrawnBelow, SeqUnique, Requests, NoAlbum
<1>2. IInv /\ SeqInv /\ [Next]_vars => SeqInv'
    BY SeqPreserved DEF IInv
<1> QED
    BY <1>1, <1>2, Invariant, PTL DEF Spec

\* With one PUT for an album, IncrementSeq gives every upload a number of its
\* own, across lost answers, repeated increments, stale reads and crashes.
THEOREM SeqIsUnique == ASSUME OnePut PROVE Spec => []SeqUnique
<1>1. SeqInv => SeqUnique
    BY DEF SeqInv
<1> QED
    BY <1>1, SeqInvariant, PTL

\* ... and larger than all the numbers before it.
THEOREM SeqAlwaysIncreases == ASSUME OnePut PROVE Spec => SeqIncreases
<1> DEFINE Increase == \A u, v \in Uploads :
             InAlbumOf(u, v) /\ upSeq'[u] # upSeq[u] /\ v # u => upSeq'[u] > upSeq[v]
<1>1. ASSUME TypeOK, SeqInv, [Next]_vars PROVE [Increase]_vars
  <2>1. ASSUME NEW u \in Uploads, UploadDraw(u) PROVE Increase
    BY <1>1, <2>1, DrawStep DEF SeqInv, DrawnBelow, InAlbumOf
  <2>2. ASSUME UNCHANGED upSeq PROVE Increase
    BY <2>2
  <2> HIDE DEF Increase
  <2>3. ASSUME NEW r \in Puts, PutStep(r) PROVE Increase
    BY <2>2, <2>3 DEF PutStep, PutRead, PutWrite, uploadVars
  <2>4. ASSUME NEW u \in Uploads, UploadCheck(u) \/ UploadCreate(u) \/ UploadReply(u) PROVE Increase
    BY <2>2, <2>4 DEF UploadCheck, UploadCreate, CreatePhoto, UploadReply
  <2>5. ASSUME NEW u \in Uploads, WorkerStep(u) \/ WorkerPanic(u) PROVE Increase
    BY <2>2, <2>5 DEF WorkerStep, WorkerOpen, WorkerUpload, UploadFile, WorkerComplete, WorkerFail,
                      WorkerPanic, uploadVars
  <2>6. ASSUME NEW d \in Deletes, DeleteStep(d) PROVE Increase
    BY <2>2, <2>6 DEF DeleteStep, DeleteRead, DropItem, DropFile, DeleteReply, uploadVars
  <2>7. ASSUME NEW a \in Albums, SyncAlbums(a) PROVE Increase
    BY <2>2, <2>7 DEF SyncAlbums, uploadVars
  <2>8. ASSUME NEW p \in Uploads, SyncPhotos(p) PROVE Increase
    BY <2>2, <2>8 DEF SyncPhotos, uploadVars
  <2>9. ASSUME NEW t \in Tasks, Crash(t) PROVE Increase
    BY <2>2, <2>9 DEF Crash
  <2> QED
    BY <1>1, <2>1, <2>3, <2>4, <2>5, <2>6, <2>7, <2>8, <2>9 DEF Next, UploadStep
<1> QED
    BY <1>1, SeqInvariant, TypeCorrect, PTL DEF Spec, SeqIncreases

-----------------------------------------------------------------------------
(* The album store implements the life of a photo *)

\* The writes to a photo's item that are not sent again: the item's creation
\* never, its status not where a panic may decide otherwise in between.
SentOnce ==
    /\ "CreatePhoto" \notin Retried
    /\ "panic" \in Faults => "UpdatePhotoStatus" \notin Retried

\* A photo is not decided before its goroutine decides it, and then as the
\* goroutine is about to do.
Undecided(u) ==
    photos[u].album # None =>
        /\ photos[u].status # "absent"
        /\ worker[u] \in {"open", "upload"} => photos[u].status = "processing"
        /\ worker[u] = "complete" =>
              \/ photos[u].status = "processing"
              \/ "UpdatePhotoStatus" \in Retried /\ photos[u].status = "completed"
        /\ worker[u] = "fail" => photos[u].status \in {"processing", "failed"}

\* A photo that a lagging read still shows was deleted, or is still there.
GoneByDelete ==
    \A p \in Uploads : oldPhotos[p].album # None /\ photos[p].album = None =>
        \E d \in Deletes : PhotoOf[d] = p /\ Deleting(d)

LifeInv == (\A u \in Uploads : Undecided(u)) /\ GoneByDelete

\* What a step does to one photo in the table.
PhaseStep(p) ==
    \/ Phase(p)' = Phase(p)
    \/ Phase(p) = "absent" /\ Phase(p)' = "processing"
    \/ Phase(p) = "processing" /\ Phase(p)' \in {"completed", "failed"}
    \/ Phase(p) \in {"processing", "completed", "failed"} /\ Phase(p)' = "deleted"

\* A step moves the phase of one photo at most, and forward.
LifeStep ==
    \E p \in Uploads : PhaseStep(p) /\ \A q \in Uploads \ {p} : Phase(q)' = Phase(q)

\* Nothing of a photo's item moves: neither does its phase.
LEMMA LifeUnmoved ==
    ASSUME LifeInv, UNCHANGED <<photos, oldPhotos, worker, delPc>>
    PROVE  LifeInv' /\ \A p \in Uploads : Phase(p)' = Phase(p)
    BY DEF LifeInv, Undecided, GoneByDelete, Deleting, Phase

\* The item appears once, in "processing", before any delete can have found it.
LEMMA LifeCreate ==
    ASSUME SentOnce, TypeOK, ItemInv, LifeInv, NEW u \in Uploads, UploadCreate(u)
    PROVE  LifeInv' /\ LifeStep
<1> USE ParameterAssumption, NoneAssumption DEF TypeOK, Requests
<1>1. /\ UNCHANGED <<oldPhotos, delPc>> /\ upPc[u] = "create" /\ photos[u] = NoPhoto
      /\ \A v \in Uploads \ {u} : photos'[v] = photos[v] /\ worker'[v] = worker[v]
    BY DEF UploadCreate, CreatePhoto, SentOnce, ItemInv, UnbornEmpty, Unborn, deleteVars
<1>2. \A d \in Deletes : PhotoOf[d] = u => ~Deleting(d)
    BY <1>1 DEF SentOnce, ItemInv, DeletesBorn, Unborn
<1>3. worker[u] = "none"
    BY <1>1 DEF ItemInv, IdleWorker
<1>4. \/ photos'[u] = photos[u] /\ worker'[u] = "none"
      \/ /\ photos'[u].album = AlbumOf[u] /\ photos'[u].status = "processing"
         /\ worker'[u] \in {"none", "open"}
    BY <1>1, <1>3 DEF UploadCreate, CreatePhoto, Outcomes, Applied
<1>5. AlbumOf[u] # None
    OBVIOUS
<1>6. Undecided(u)'
    BY <1>1, <1>4 DEF Undecided, NoPhoto
<1>7. ASSUME NEW v \in Uploads \ {u} PROVE Undecided(v)'
    BY <1>1, <1>7 DEF Undecided, LifeInv
<1>8. GoneByDelete'
    BY <1>1, <1>4, <1>5 DEF GoneByDelete, LifeInv, Deleting
<1>9. Phase(u) = "absent" /\ Phase(u)' \in {"absent", "processing"}
    BY <1>1, <1>2, <1>4, <1>5 DEF Phase, NoPhoto, Deleting
<1>10. \A q \in Uploads \ {u} : Phase(q)' = Phase(q)
    BY <1>1 DEF Phase
<1> QED
    BY <1>6, <1>7, <1>8, <1>9, <1>10 DEF LifeInv, LifeStep, PhaseStep

\* The goroutine moves on, panics or dies with its task; the item stays.
LEMMA LifeWorker ==
    ASSUME SentOnce, TypeOK, LifeInv, NEW u \in Uploads,
           WorkerOpen(u) \/ WorkerUpload(u) \/ WorkerPanic(u)
    PROVE  LifeInv' /\ \A p \in Uploads : Phase(p)' = Phase(p)
<1>1. /\ UNCHANGED <<photos, oldPhotos, delPc>>
      /\ \A v \in Uploads \ {u} : worker'[v] = worker[v]
    BY DEF WorkerOpen, WorkerUpload, WorkerPanic, photoVars, deleteVars, TypeOK
<1>2. \/ worker[u] \in {"open", "upload"} /\ worker'[u] \in {"upload", "complete", "fail"}
      \/ worker[u] = "complete" /\ worker'[u] = "fail" /\ "panic" \in Faults
    BY DEF WorkerOpen, WorkerUpload, WorkerPanic, Continue, TypeOK
<1>3. Undecided(u)'
    BY <1>1, <1>2 DEF SentOnce, Undecided, LifeInv
<1>4. ASSUME NEW v \in Uploads \ {u} PROVE Undecided(v)'
    BY <1>1, <1>4 DEF Undecided, LifeInv
<1> QED
    BY <1>1, <1>3, <1>4 DEF LifeInv, GoneByDelete, Deleting, Phase

\* The goroutine decides the photo if it is still there.
LEMMA LifeDecide ==
    ASSUME TypeOK, LifeInv, NEW u \in Uploads, WorkerComplete(u) \/ WorkerFail(u)
    PROVE  LifeInv' /\ LifeStep
<1>1. PICK status \in {"completed", "failed"}, outcome \in Outcomes("UpdatePhotoStatus") :
         /\ worker[u] = IF status = "completed" THEN "complete" ELSE "fail"
         /\ UpdatePhotoStatus(u, status, outcome)
         /\ worker' = [worker EXCEPT ![u] = Continue(outcome, worker[u], "done", "logged")]
    BY DEF WorkerComplete, WorkerFail
<1>2. /\ UNCHANGED <<oldPhotos, delPc>>
      /\ \A v \in Uploads \ {u} : photos'[v] = photos[v] /\ worker'[v] = worker[v]
      /\ photos'[u].album = photos[u].album
    BY <1>1 DEF WorkerComplete, WorkerFail, UpdatePhotoStatus, deleteVars, TypeOK, PhotoItem
<1>3. photos'[u].status \in {photos[u].status, status}
    BY <1>1 DEF UpdatePhotoStatus, TypeOK, PhotoItem
<1>4. worker'[u] \in {"done", "logged"} \/ (worker'[u] = worker[u] /\ "UpdatePhotoStatus" \in Retried)
    BY <1>1 DEF Continue, Outcomes, TypeOK
<1>5. photos[u].album # None => photos[u].status \in {"processing", status}
    BY <1>1 DEF LifeInv, Undecided
<1>6. Undecided(u)'
    BY <1>1, <1>2, <1>3, <1>4, <1>5 DEF Undecided
<1>7. ASSUME NEW v \in Uploads \ {u} PROVE Undecided(v)'
    BY <1>2, <1>7 DEF Undecided, LifeInv
<1>8. GoneByDelete'
    BY <1>2 DEF GoneByDelete, LifeInv, Deleting
<1>9. \A q \in Uploads \ {u} : Phase(q)' = Phase(q)
    BY <1>2 DEF Phase
<1>10. PhaseStep(u)
    BY <1>2, <1>3, <1>5 DEF PhaseStep, Phase
<1> QED
    BY <1>6, <1>7, <1>8, <1>9, <1>10 DEF LifeInv, LifeStep

\* A delete that finds the photo, be it on a lagging read, finds one that is
\* there or was deleted.
LEMMA LifeRead ==
    ASSUME TypeOK, LifeInv, NEW d \in Deletes, DeleteRead(d)
    PROVE  LifeInv' /\ \A p \in Uploads : Phase(p)' = Phase(p)
<1> USE ParameterAssumption, NoneAssumption DEF TypeOK, Requests
<1>1. /\ UNCHANGED <<photos, oldPhotos, worker>> /\ delPc[d] = "start"
      /\ \A e \in Deletes \ {d} : delPc'[e] = delPc[e]
    BY DEF DeleteRead, photoVars
<1>2. \/ delPc'[d] = "404"
      \/ /\ delPc'[d] = "wait"
         /\ photos[PhotoOf[d]].album # None \/ oldPhotos[PhotoOf[d]].album # None
    BY DEF DeleteRead, GetPhotoByID, PhotoReads, NoPhoto
<1>3. \A e \in Deletes : Deleting(e) => Deleting(e)'
    BY <1>1 DEF Deleting
<1>4. LifeInv'
    BY <1>1, <1>3 DEF LifeInv, Undecided, GoneByDelete
<1>5. ASSUME NEW p \in Uploads PROVE Phase(p)' = Phase(p)
  <2>1. CASE photos[p].album # None
    BY <1>1, <2>1 DEF Phase
  <2>2. CASE photos[p].album = None
    <3>1. (\E e \in Deletes : PhotoOf[e] = p /\ Deleting(e)')
             <=> \E e \in Deletes : PhotoOf[e] = p /\ Deleting(e)
      BY <1>1, <1>2, <1>3, <2>2 DEF LifeInv, GoneByDelete, Deleting
    <3> QED
      BY <1>1, <2>2, <3>1 DEF Phase, Deleting
  <2> QED
    BY <2>1, <2>2
<1> QED
    BY <1>4, <1>5

\* DeleteItem ends the photo: a delete had found it.
LEMMA LifeDrop ==
    ASSUME TypeOK, ItemInv, LifeInv, NEW d \in Deletes, DropItem(d)
    PROVE  LifeInv' /\ LifeStep
<1> USE ParameterAssumption DEF TypeOK, Requests
<1> DEFINE p == PhotoOf[d]
<1>1. /\ UNCHANGED <<oldPhotos, worker, delPc>> /\ p \in Uploads
      /\ \A v \in Uploads \ {p} : photos'[v] = photos[v]
      /\ photos'[p] \in {photos[p], NoPhoto}
    BY DEF DropItem
<1>2. Deleting(d)
    BY DEF DropItem, ItemInv, DropsDeleting
<1>3. \A v \in Uploads : Undecided(v)'
    BY <1>1 DEF LifeInv, Undecided, NoPhoto
<1>4. GoneByDelete'
    BY <1>1, <1>2 DEF LifeInv, GoneByDelete, Deleting
<1>5. \A q \in Uploads \ {p} : Phase(q)' = Phase(q)
    BY <1>1 DEF Phase
<1>6. PhaseStep(p)
  <2>1. CASE photos'[p] = photos[p]
    BY <1>1, <2>1 DEF PhaseStep, Phase
  <2>2. CASE photos'[p] = NoPhoto
    <3>1. Phase(p)' = "deleted"
      BY <1>1, <1>2, <2>2 DEF Phase, Deleting, NoPhoto
    <3>2. photos[p].album = None => Phase(p) = "deleted"
      BY <1>2 DEF Phase, Deleting
    <3>3. photos[p].album # None => Phase(p) \in {"processing", "completed", "failed"}
      <4>1. photos[p].status \in Statuses
        BY <1>1 DEF PhotoItem
      <4> QED
        BY <1>1, <4>1 DEF Phase, LifeInv, Undecided, Statuses
    <3> QED
      BY <3>1, <3>2, <3>3 DEF PhaseStep
  <2> QED
    BY <1>1, <2>1, <2>2
<1> QED
    BY <1>1, <1>3, <1>4, <1>5, <1>6 DEF LifeInv, LifeStep

\* The last result of a delete, a replica that catches up, a task that dies:
\* the table stays as it is.
LEMMA LifeOther ==
    ASSUME TypeOK, LifeInv,
           \/ \E d \in Deletes : DropFile(d) \/ DeleteReply(d)
           \/ \E p \in Uploads : SyncPhotos(p)
           \/ \E t \in Tasks : Crash(t)
    PROVE  LifeInv' /\ \A p \in Uploads : Phase(p)' = Phase(p)
<1> USE DEF TypeOK
<1> DEFINE Unseen ==
             /\ UNCHANGED photos
             /\ \A u \in Uploads : worker'[u] \in {worker[u], "dead"}
             /\ \A p \in Uploads : oldPhotos'[p] \in {oldPhotos[p], photos[p]}
             /\ \A d \in Deletes : Deleting(d)' <=> Deleting(d)
<1>1. Unseen
  <2>1. ASSUME NEW d \in Deletes, DropFile(d) \/ DeleteReply(d) PROVE Unseen
    BY <2>1 DEF DropFile, DeleteReply, Deleting, photoVars
  <2>2. ASSUME NEW p \in Uploads, SyncPhotos(p) PROVE Unseen
    BY <2>2 DEF SyncPhotos, Deleting, deleteVars
  <2>3. ASSUME NEW t \in Tasks, Crash(t) PROVE Unseen
    BY <2>3 DEF Crash, Deleting, DeleteBusy, photoVars
  <2> QED
    BY <2>1, <2>2, <2>3
<1>2. \A u \in Uploads : Undecided(u)'
    BY <1>1 DEF LifeInv, Undecided
<1>3. GoneByDelete'
    BY <1>1 DEF LifeInv, GoneByDelete
<1>4. ASSUME NEW p \in Uploads PROVE Phase(p)' = Phase(p)
    BY <1>1 DEF Phase, Deleting
<1> QED
    BY <1>2, <1>3, <1>4 DEF LifeInv

\* Every step moves one photo at most, and forward.
LEMMA LifePreserved ==
    ASSUME SentOnce, TypeOK, ItemInv, LifeInv, [Next]_vars
    PROVE  LifeInv' /\ (LifeStep \/ \A p \in Uploads : Phase(p)' = Phase(p))
<1>1. CASE UNCHANGED <<photos, oldPhotos, worker, delPc>>
    BY <1>1, LifeUnmoved
<1>2. ASSUME NEW r \in Puts, PutStep(r) PROVE UNCHANGED <<photos, oldPhotos, worker, delPc>>
    BY <1>2 DEF PutStep, PutRead, PutWrite, photoVars, deleteVars
<1>3. ASSUME NEW u \in Uploads, UploadCheck(u) \/ UploadDraw(u) \/ UploadReply(u)
      PROVE  UNCHANGED <<photos, oldPhotos, worker, delPc>>
    BY <1>3 DEF UploadCheck, UploadDraw, UploadReply, photoVars, deleteVars
<1>4. ASSUME NEW a \in Albums, SyncAlbums(a) PROVE UNCHANGED <<photos, oldPhotos, worker, delPc>>
    BY <1>4 DEF SyncAlbums, photoVars, deleteVars
<1>5. ASSUME UNCHANGED vars PROVE UNCHANGED <<photos, oldPhotos, worker, delPc>>
    BY <1>5 DEF vars, photoVars, deleteVars
<1> QED
    BY <1>1, <1>2, <1>3, <1>4, <1>5, LifeCreate, LifeWorker, LifeDecide, LifeRead, LifeDrop,
       LifeOther DEF Next, UploadStep, WorkerStep, DeleteStep

\* Only a replica that catches up shows anything new.
LEMMA ReplicaStays ==
    ASSUME [Next]_vars, ~\E p \in Uploads : SyncPhotos(p)
    PROVE  UNCHANGED oldPhotos
<1> USE DEF photoVars
<1>1. ASSUME NEW r \in Puts, PutStep(r) PROVE UNCHANGED oldPhotos
    BY <1>1 DEF PutStep, PutRead, PutWrite
<1>2. ASSUME NEW u \in Uploads, UploadStep(u) PROVE UNCHANGED oldPhotos
    BY <1>2 DEF UploadStep, UploadCheck, UploadDraw, UploadCreate, UploadReply
<1>3. ASSUME NEW u \in Uploads, WorkerStep(u) \/ WorkerPanic(u) PROVE UNCHANGED oldPhotos
    BY <1>3 DEF WorkerStep, WorkerOpen, WorkerUpload, WorkerComplete, WorkerFail, WorkerPanic
<1>4. ASSUME NEW d \in Deletes, DeleteStep(d) PROVE UNCHANGED oldPhotos
    BY <1>4 DEF DeleteStep, DeleteRead, DropItem, DropFile, DeleteReply
<1>5. ASSUME NEW a \in Albums, SyncAlbums(a) PROVE UNCHANGED oldPhotos
    BY <1>5 DEF SyncAlbums
<1>6. ASSUME NEW t \in Tasks, Crash(t) PROVE UNCHANGED oldPhotos
    BY <1>6 DEF Crash
<1> QED
    BY <1>1, <1>2, <1>3, <1>4, <1>5, <1>6 DEF Next, vars

\* What the table answers for a photo is the view of its phase.
LEMMA SeenIsView ==
    ASSUME TypeOK, LifeInv, NEW p \in Uploads
    PROVE  Seen(photos[p]) = Lifecycle!View(Phase(p))
<1>1. photos[p].status \in Statuses
    BY DEF TypeOK, PhotoItem
<1>2. CASE photos[p].album # None
    BY <1>1, <1>2 DEF LifeInv, Undecided, Statuses, Seen, Phase, Lifecycle!View
<1>3. CASE photos[p].album = None
    BY <1>3 DEF Seen, Phase, Lifecycle!View
<1> QED
    BY <1>2, <1>3

\* A step of one photo is a step of the abstract life, or none.
LEMMA LifeSimulates ==
    ASSUME LifeStep \/ \A p \in Uploads : Phase(p)' = Phase(p), UNCHANGED oldPhotos
    PROVE  [Lifecycle!Next]_<<[p \in Uploads |-> Phase(p)], [p \in Uploads |-> Seen(oldPhotos[p])]>>
<1> DEFINE phase == [p \in Uploads |-> Phase(p)]
           shown == [p \in Uploads |-> Seen(oldPhotos[p])]
<1>0. shown' = shown
    BY DEF Seen
<1>1. CASE \A p \in Uploads : Phase(p)' = Phase(p)
  <2>1. phase' = phase
    BY <1>1
  <2> QED
    BY <1>0, <2>1
<1>2. CASE LifeStep
  <2>1. PICK p \in Uploads : PhaseStep(p) /\ \A q \in Uploads \ {p} : Phase(q)' = Phase(q)
    BY <1>2 DEF LifeStep
  <2> DEFINE now == Phase(p)
             next == Phase(p)'
  <2>2. phase' = [phase EXCEPT ![p] = next] /\ phase[p] = now
    BY <2>1
  <2>3. now = next => phase' = phase
    BY <2>2
  <2>4. \/ now = next
        \/ now = "absent" /\ next = "processing"
        \/ now = "processing" /\ next \in {"completed", "failed"}
        \/ now \in {"processing", "completed", "failed"} /\ next = "deleted"
    BY <2>1 DEF PhaseStep
  <2> HIDE DEF now, next, phase, shown
  <2>5. Lifecycle!Accept(p) \/ Lifecycle!Finish(p) \/ Lifecycle!Delete(p) \/ phase' = phase
    BY <1>0, <2>2, <2>3, <2>4 DEF Lifecycle!Accept, Lifecycle!Finish, Lifecycle!Delete, phase, shown
  <2> QED
    BY <1>0, <2>5 DEF Lifecycle!Next, phase, shown
<1> QED
    BY <1>1, <1>2 DEF phase, shown

\* A replica that catches up shows the view of the phase.
LEMMA SyncSimulates ==
    ASSUME TypeOK, LifeInv, NEW p \in Uploads, SyncPhotos(p)
    PROVE  [Lifecycle!Next]_<<[q \in Uploads |-> Phase(q)], [q \in Uploads |-> Seen(oldPhotos[q])]>>
<1> DEFINE phase == [q \in Uploads |-> Phase(q)]
           shown == [q \in Uploads |-> Seen(oldPhotos[q])]
<1>1. UNCHANGED <<photos, delPc>> /\ oldPhotos' = [oldPhotos EXCEPT ![p] = photos[p]]
    BY DEF SyncPhotos, deleteVars
<1>2. phase' = phase
    BY <1>1 DEF Phase
<1>3. \A q \in Uploads : Seen(oldPhotos[q])' = IF q = p THEN Lifecycle!View(Phase(p))
                                                       ELSE Seen(oldPhotos[q])
    BY <1>1, SeenIsView DEF TypeOK, Seen
<1>4. shown' = [shown EXCEPT ![p] = Lifecycle!View(phase[p])]
    BY <1>3
<1> HIDE DEF phase, shown
<1>5. Lifecycle!CatchUp(p)
    BY <1>2, <1>4 DEF Lifecycle!CatchUp, phase, shown
<1> QED
    BY <1>5 DEF Lifecycle!Next

\* Whatever fails, lags, panics or crashes, a photo appears in the table once,
\* is decided at most once and never comes back after it was deleted, and the
\* replica that a lagging GET reads shows what the table had, provided the two
\* writes of SentOnce are not repeated behind a lost answer.
THEOREM LifecycleHolds ==
    ASSUME SentOnce PROVE Spec => ImplementsLifecycle
<1> DEFINE phase == [p \in Uploads |-> Phase(p)]
           shown == [p \in Uploads |-> Seen(oldPhotos[p])]
<1>1. Init => LifeInv /\ Lifecycle!Init
  <2> SUFFICES ASSUME Init PROVE LifeInv /\ Lifecycle!Init
    OBVIOUS
  <2>1. \A p \in Uploads : photos[p] = NoPhoto /\ oldPhotos[p] = NoPhoto
    BY DEF Init
  <2>2. \A d \in Deletes : delPc[d] = "start"
    BY DEF Init
  <2>3. \A p \in Uploads : Phase(p) = "absent" /\ Seen(oldPhotos[p]) = "404"
    BY <2>1, <2>2 DEF Phase, Seen, NoPhoto
  <2> QED
    BY <2>1, <2>3 DEF LifeInv, Undecided, GoneByDelete, NoPhoto, Lifecycle!Init
<1>2. IInv /\ LifeInv /\ [Next]_vars => LifeInv' /\ [Lifecycle!Next]_<<phase, shown>>
  <2> SUFFICES ASSUME IInv, LifeInv, [Next]_vars
               PROVE  LifeInv' /\ [Lifecycle!Next]_<<phase, shown>>
    OBVIOUS
  <2>1. LifeInv' /\ (LifeStep \/ \A p \in Uploads : Phase(p)' = Phase(p))
    BY LifePreserved DEF IInv
  <2>2. CASE \E p \in Uploads : SyncPhotos(p)
    BY <2>1, <2>2, SyncSimulates DEF IInv
  <2>3. CASE ~\E p \in Uploads : SyncPhotos(p)
    BY <2>1, <2>3, ReplicaStays, LifeSimulates
  <2> QED
    BY <2>2, <2>3, <2>1
<1> QED
    BY <1>1, <1>2, Invariant, PTL DEF Spec, ImplementsLifecycle, Lifecycle!Spec
=============================================================================
