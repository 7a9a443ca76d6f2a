----------------------------- MODULE AlbumStore -----------------------------
(***************************************************************************)
(* The album store of FinalMastery: stateless API tasks in front of two    *)
(* DynamoDB tables and an S3 bucket.                                       *)
(*                                                                         *)
(* A request is identified with its parameters, which are constants: the   *)
(* path's album (AlbumOf), the photo a DELETE names (PhotoOf), the task    *)
(* the load balancer sent it to (TaskOf).  An upload is also the name of   *)
(* the photo it creates: its identifier is a fresh UUID.  Each call to AWS *)
(* is one step; between two calls any other request may move.  A malformed *)
(* request (400) ends before its first call and is left out.               *)
(*                                                                         *)
(* Retried names the calls whose answer may be lost and that the SDK then  *)
(* sends again; in between, anything may move.  Faults says what else may  *)
(* go wrong with a call or a task:                                         *)
(*   "error"  the call fails and has no effect                             *)
(*   "lost"   the call takes effect but its caller sees an error           *)
(*   "stale"  reads come from a replica that lags (no read of this code    *)
(*            asks for ConsistentRead)                                     *)
(*   "panic"  the processing goroutine panics and recovers                 *)
(*   "crash"  a task is killed with its handlers and goroutines            *)
(***************************************************************************)
EXTENDS Naturals

CONSTANTS
    Albums, Tasks,
    Puts,       \* PUT /albums/:album_id requests
    Uploads,    \* POST /albums/:album_id/photos requests, and their photos
    Deletes,    \* DELETE /albums/:album_id/photos/:photo_id requests
    Spooled,    \* the uploads too large for memory: their body is a temporary file
    AlbumOf, PhotoOf, TaskOf,
    Faults, Retried,
    MaxSeq,     \* IncrementSeq is not repeated once the counter is here
    None        \* the zero value of a string attribute

Requests == Puts \cup Uploads \cup Deletes

ASSUME ParameterAssumption ==
    /\ AlbumOf \in [Requests -> Albums]
    /\ PhotoOf \in [Deletes -> Uploads]
    /\ TaskOf \in [Requests -> Tasks]
    /\ Spooled \subseteq Uploads

ASSUME NoneAssumption == None \notin Puts \cup Albums

ASSUME FaultsAssumption ==
    /\ Faults \subseteq {"error", "lost", "stale", "panic", "crash"}
    /\ Retried \subseteq {"PutAlbum", "IncrementSeq", "CreatePhoto", "UpdatePhotoStatus",
                          "DeletePhoto", "UploadFile", "DeleteObject"}
    /\ MaxSeq \in Nat

VARIABLES
    albums,     \* the albums table: the PUT whose body is stored, and next_seq
    oldAlbums,  \* the replica of it that an eventually consistent read may hit
    photos,     \* the photos table
    oldPhotos,  \* its lagging replica, and its album_id index
    files,      \* the keys present in the bucket, one for each photo
    putPc, putNew, putSeq,          \* PutAlbum: isNew and the next_seq to write
    upPc, upSeq,                    \* UploadPhoto: the seq it drew
    worker,                         \* ProcessPhoto, the goroutine of an upload
    delPc, delUrl, dropItem, dropFile   \* DeletePhoto, its two goroutines

albumVars  == <<albums, oldAlbums>>
photoVars  == <<photos, oldPhotos>>
putVars    == <<putPc, putNew, putSeq>>
uploadVars == <<upPc, upSeq>>
deleteVars == <<delPc, delUrl, dropItem, dropFile>>
vars == <<albumVars, photoVars, files, putVars, uploadVars, worker, deleteVars>>

-----------------------------------------------------------------------------
(* Items, reads and calls *)

\* An album that is not in the table; body names the PUT that stored an item.
NoAlbum == [body |-> None, next_seq |-> 0]
\* A photo that is not in the table.
NoPhoto == [album |-> None, seq |-> 0, status |-> "absent", url |-> FALSE]

Statuses == {"absent", "processing", "completed", "failed"}

AlbumItem == [body : Puts \cup {None}, next_seq : Nat]
PhotoItem == [album : Albums \cup {None}, seq : Nat, status : Statuses, url : BOOLEAN]

\* What an eventually consistent GetItem may return.
AlbumReads(a) == {albums[a]} \cup IF "stale" \in Faults THEN {oldAlbums[a]} ELSE {}
PhotoReads(p) == {photos[p]} \cup IF "stale" \in Faults THEN {oldPhotos[p]} ELSE {}

\* store.GetAlbum and store.GetPhoto: any error is the same to the callers as
\* a missing item.
GetAlbum(a) == AlbumReads(a) \cup IF "error" \in Faults THEN {NoAlbum} ELSE {}
GetPhotoByID(p) == PhotoReads(p) \cup IF "error" \in Faults THEN {NoPhoto} ELSE {}

\* How a write to AWS may end.
Outcomes(call) ==
    {"ok"} \cup (Faults \cap {"error", "lost"}) \cup IF call \in Retried THEN {"again"} ELSE {}
Applied(outcome) == outcome # "error"

\* Where its caller goes on: a call that is sent again is still to be made.
Continue(outcome, here, done, failed) ==
    CASE outcome = "ok" -> done [] outcome = "again" -> here [] OTHER -> failed

\* Mutant: writes the whole item back.
PutPhotoStatus(p, status, outcome) ==
    photos' = IF Applied(outcome)
              THEN [photos EXCEPT ![p] = [album |-> AlbumOf[p], seq |-> upSeq[p], status |-> status,
                                          url |-> status = "completed"]]
              ELSE photos

\* UpdatePhotoStatus is an UpdateItem without a condition: on a photo that is
\* not there it creates an item that has no album_id and no seq.
UpdatePhotoStatus(p, status, outcome) ==
    photos' = IF Applied(outcome)
              THEN [photos EXCEPT ![p].status = status,
                                  ![p].url = @ \/ status = "completed"]
              ELSE photos

-----------------------------------------------------------------------------
Init ==
    /\ albums = [a \in Albums |-> NoAlbum] /\ oldAlbums = albums
    /\ photos = [p \in Uploads |-> NoPhoto] /\ oldPhotos = photos
    /\ files = {}
    /\ putPc = [r \in Puts |-> "start"]
    /\ putNew = [r \in Puts |-> FALSE]
    /\ putSeq = [r \in Puts |-> 0]
    /\ upPc = [u \in Uploads |-> "start"]
    /\ upSeq = [u \in Uploads |-> 0]
    /\ worker = [u \in Uploads |-> "none"]
    /\ delPc = [d \in Deletes |-> "start"]
    /\ delUrl = [d \in Deletes |-> FALSE]
    /\ dropItem = [d \in Deletes |-> "none"]
    /\ dropFile = [d \in Deletes |-> "none"]

-----------------------------------------------------------------------------
(* PUT /albums/:album_id *)

\* Read the existing album: isNew, and the next_seq to preserve.
PutRead(r) ==
    /\ putPc[r] = "start"
    /\ \E existing \in GetAlbum(AlbumOf[r]) :
        /\ putNew' = [putNew EXCEPT ![r] = existing = NoAlbum]
        /\ putSeq' = [putSeq EXCEPT ![r] = existing.next_seq]
    /\ putPc' = [putPc EXCEPT ![r] = "write"]
    /\ UNCHANGED <<albumVars, photoVars, files, uploadVars, worker, deleteVars>>

\* Put the whole item back, with the next_seq that was read.
PutWrite(r) ==
    /\ putPc[r] = "write"
    /\ \E outcome \in Outcomes("PutAlbum") :
        /\ albums' = IF Applied(outcome)
                     THEN [albums EXCEPT ![AlbumOf[r]] = [body |-> r, next_seq |-> putSeq[r]]]
                     ELSE albums
        /\ putPc' = [putPc EXCEPT ![r] = Continue(outcome, @, IF putNew[r] THEN "201" ELSE "200",
                                                  "500")]
    /\ UNCHANGED <<oldAlbums, putNew, putSeq, photoVars, files, uploadVars, worker, deleteVars>>

-----------------------------------------------------------------------------
(* POST /albums/:album_id/photos *)

\* Mutant: does not look whether the album exists.
UploadUnchecked(u) ==
    /\ upPc[u] = "start"
    /\ upPc' = [upPc EXCEPT ![u] = "draw"]
    /\ UNCHANGED <<albumVars, photoVars, files, putVars, upSeq, worker, deleteVars>>

\* The album must exist, and the form must hold a file.
UploadCheck(u) ==
    /\ upPc[u] = "start"
    /\ \E album \in GetAlbum(AlbumOf[u]) :
        upPc' = [upPc EXCEPT ![u] = IF album = NoAlbum THEN "404" ELSE "draw"]
    /\ UNCHANGED <<albumVars, photoVars, files, putVars, upSeq, worker, deleteVars>>

\* IncrementSeq: ADD next_seq 1, answered with the new value.
UploadDraw(u) ==
    /\ upPc[u] = "draw"
    /\ \E outcome \in Outcomes("IncrementSeq") :
        LET next == albums[AlbumOf[u]].next_seq + 1
        IN  /\ outcome = "again" => next <= MaxSeq
            /\ albums' = IF Applied(outcome)
                         THEN [albums EXCEPT ![AlbumOf[u]].next_seq = next] ELSE albums
            /\ upSeq' = IF outcome = "ok" THEN [upSeq EXCEPT ![u] = next] ELSE upSeq
            /\ upPc' = [upPc EXCEPT ![u] = Continue(outcome, @, "create", "500")]
    /\ UNCHANGED <<oldAlbums, photoVars, files, putVars, worker, deleteVars>>

\* A PutItem of the whole item.
CreatePhoto(u, outcome) ==
    photos' = IF Applied(outcome)
              THEN [photos EXCEPT ![u] = [album |-> AlbumOf[u], seq |-> upSeq[u],
                                          status |-> "processing", url |-> FALSE]]
              ELSE photos

\* CreatePhoto, then start the goroutine.
UploadCreate(u) ==
    /\ upPc[u] = "create"
    /\ \E outcome \in Outcomes("CreatePhoto") :
        /\ CreatePhoto(u, outcome)
        /\ upPc' = [upPc EXCEPT ![u] = Continue(outcome, @, "reply", "500")]
        /\ worker' = IF outcome = "ok" THEN [worker EXCEPT ![u] = "open"] ELSE worker
    /\ UNCHANGED <<albumVars, oldPhotos, files, putVars, upSeq, deleteVars>>

\* Answer 202; the HTTP server then removes the request's temporary files.
UploadReply(u) ==
    /\ upPc[u] = "reply"
    /\ upPc' = [upPc EXCEPT ![u] = "202"]
    /\ UNCHANGED <<albumVars, photoVars, files, putVars, upSeq, worker, deleteVars>>

-----------------------------------------------------------------------------
(* ProcessPhoto, a goroutine that outlives its request *)

\* Open the form's file: a spooled one is gone once the request has ended.
WorkerOpen(u) ==
    /\ worker[u] = "open"
    /\ worker' = [worker EXCEPT ![u] = IF u \in Spooled /\ upPc[u] = "202"
                                       THEN "fail" ELSE "upload"]
    /\ UNCHANGED <<albumVars, photoVars, files, putVars, uploadVars, deleteVars>>

\* A PutObject under the photo's own key; the url follows from the key.
UploadFile(u, outcome) == files' = IF Applied(outcome) THEN files \cup {u} ELSE files

\* Mutant: goes on when the upload has failed.
WorkerUploadUnchecked(u) ==
    /\ worker[u] = "upload"
    /\ \E outcome \in Outcomes("UploadFile") : UploadFile(u, outcome)
    /\ worker' = [worker EXCEPT ![u] = "complete"]
    /\ UNCHANGED <<albumVars, photoVars, putVars, uploadVars, deleteVars>>

WorkerUpload(u) ==
    /\ worker[u] = "upload"
    /\ \E outcome \in Outcomes("UploadFile") :
        /\ UploadFile(u, outcome)
        /\ worker' = [worker EXCEPT ![u] = Continue(outcome, @, "complete", "fail")]
    /\ UNCHANGED <<albumVars, photoVars, putVars, uploadVars, deleteVars>>

\* Mutant: writes a status that is not one of the three.
WorkerCompleteMisspelt(u) ==
    /\ worker[u] = "complete"
    /\ \E outcome \in Outcomes("UpdatePhotoStatus") : UpdatePhotoStatus(u, "complete", outcome)
    /\ worker' = [worker EXCEPT ![u] = "done"]
    /\ UNCHANGED <<albumVars, oldPhotos, files, putVars, uploadVars, deleteVars>>

\* An error of the last update is only logged: the photo stays as it is.
WorkerComplete(u) ==
    /\ worker[u] = "complete"
    /\ \E outcome \in Outcomes("UpdatePhotoStatus") :
        /\ UpdatePhotoStatus(u, "completed", outcome)
        /\ worker' = [worker EXCEPT ![u] = Continue(outcome, @, "done", "logged")]
    /\ UNCHANGED <<albumVars, oldPhotos, files, putVars, uploadVars, deleteVars>>

WorkerFail(u) ==
    /\ worker[u] = "fail"
    /\ \E outcome \in Outcomes("UpdatePhotoStatus") :
        /\ UpdatePhotoStatus(u, "failed", outcome)
        /\ worker' = [worker EXCEPT ![u] = Continue(outcome, @, "done", "logged")]
    /\ UNCHANGED <<albumVars, oldPhotos, files, putVars, uploadVars, deleteVars>>

\* Mutant: recovers and marks nothing.
WorkerPanicSilent(u) ==
    /\ "panic" \in Faults
    /\ worker[u] \in {"open", "upload", "complete"}
    /\ worker' = [worker EXCEPT ![u] = "done"]
    /\ UNCHANGED <<albumVars, photoVars, files, putVars, uploadVars, deleteVars>>

\* The deferred recover marks the photo failed, wherever the panic came from.
WorkerPanic(u) ==
    /\ "panic" \in Faults
    /\ worker[u] \in {"open", "upload", "complete"}
    /\ worker' = [worker EXCEPT ![u] = "fail"]
    /\ UNCHANGED <<albumVars, photoVars, files, putVars, uploadVars, deleteVars>>

-----------------------------------------------------------------------------
(* DELETE /albums/:album_id/photos/:photo_id *)

\* The photo must be in this album; its url decides whether the file is removed.
DeleteRead(d) ==
    /\ delPc[d] = "start"
    /\ \E photo \in GetPhotoByID(PhotoOf[d]) :
        IF photo.album = AlbumOf[d]
        THEN /\ delUrl' = [delUrl EXCEPT ![d] = photo.url]
             /\ dropItem' = [dropItem EXCEPT ![d] = "call"]
             /\ dropFile' = [dropFile EXCEPT ![d] = "call"]
             /\ delPc' = [delPc EXCEPT ![d] = "wait"]
        ELSE /\ delPc' = [delPc EXCEPT ![d] = "404"]
             /\ UNCHANGED <<delUrl, dropItem, dropFile>>
    /\ UNCHANGED <<albumVars, photoVars, files, putVars, uploadVars, worker>>

DropItem(d) ==
    /\ dropItem[d] = "call"
    /\ \E outcome \in Outcomes("DeletePhoto") :
        /\ photos' = IF Applied(outcome) THEN [photos EXCEPT ![PhotoOf[d]] = NoPhoto] ELSE photos
        /\ dropItem' = [dropItem EXCEPT ![d] = Continue(outcome, @, "ok", "err")]
    /\ UNCHANGED <<albumVars, oldPhotos, files, putVars, uploadVars, worker, delPc, delUrl, dropFile>>

DropFile(d) ==
    /\ dropFile[d] = "call"
    /\ \/ /\ delUrl[d]
          /\ \E outcome \in Outcomes("DeleteObject") :
              /\ files' = IF Applied(outcome) THEN files \ {PhotoOf[d]} ELSE files
              /\ dropFile' = [dropFile EXCEPT ![d] = Continue(outcome, @, "ok", "err")]
       \/ /\ ~delUrl[d]
          /\ dropFile' = [dropFile EXCEPT ![d] = "ok"]
          /\ UNCHANGED files
    /\ UNCHANGED <<albumVars, photoVars, putVars, uploadVars, worker, delPc, delUrl, dropItem>>

\* Mutant: answers on the first result.
DeleteReplyEarly(d) ==
    /\ delPc[d] = "wait"
    /\ dropItem[d] \in {"ok", "err"}
    /\ delPc' = [delPc EXCEPT ![d] = IF dropItem[d] = "err" THEN "500" ELSE "204"]
    /\ UNCHANGED <<albumVars, photoVars, files, putVars, uploadVars, worker, delUrl, dropItem, dropFile>>

\* Both goroutines have sent their result.
DeleteReply(d) ==
    /\ delPc[d] = "wait"
    /\ dropItem[d] \in {"ok", "err"} /\ dropFile[d] \in {"ok", "err"}
    /\ delPc' = [delPc EXCEPT ![d] = IF "err" \in {dropItem[d], dropFile[d]} THEN "500" ELSE "204"]
    /\ UNCHANGED <<albumVars, photoVars, files, putVars, uploadVars, worker, delUrl, dropItem, dropFile>>

-----------------------------------------------------------------------------
(* The environment *)

SyncAlbums(a) ==
    /\ "stale" \in Faults /\ oldAlbums[a] # albums[a]
    /\ oldAlbums' = [oldAlbums EXCEPT ![a] = albums[a]]
    /\ UNCHANGED <<albums, photoVars, files, putVars, uploadVars, worker, deleteVars>>

SyncPhotos(p) ==
    /\ "stale" \in Faults /\ oldPhotos[p] # photos[p]
    /\ oldPhotos' = [oldPhotos EXCEPT ![p] = photos[p]]
    /\ UNCHANGED <<albumVars, photos, files, putVars, uploadVars, worker, deleteVars>>

\* What runs in a task; a request that is still at "start" has not arrived.
PutBusy    == {"write"}
UploadBusy == {"draw", "create", "reply"}
WorkerBusy == {"open", "upload", "complete", "fail"}
DeleteBusy == {"wait"}

\* A task dies with everything it runs; nothing of it is kept anywhere else.
Crash(t) ==
    LET Kill(pc, busy) == [r \in DOMAIN pc |-> IF TaskOf[r] = t /\ pc[r] \in busy
                                               THEN "dead" ELSE pc[r]]
    IN  /\ "crash" \in Faults
        /\ putPc' = Kill(putPc, PutBusy)
        /\ upPc' = Kill(upPc, UploadBusy)
        /\ worker' = Kill(worker, WorkerBusy)
        /\ delPc' = Kill(delPc, DeleteBusy)
        /\ dropItem' = Kill(dropItem, {"call"})
        /\ dropFile' = Kill(dropFile, {"call"})
        /\ <<putPc, upPc, worker, delPc>>' # <<putPc, upPc, worker, delPc>>
    /\ UNCHANGED <<albumVars, photoVars, files, putNew, putSeq, upSeq, delUrl>>

PutStep(r)    == PutRead(r) \/ PutWrite(r)
UploadStep(u) == UploadCheck(u) \/ UploadDraw(u) \/ UploadCreate(u) \/ UploadReply(u)
WorkerStep(u) == WorkerOpen(u) \/ WorkerUpload(u) \/ WorkerComplete(u) \/ WorkerFail(u)
DeleteStep(d) == DeleteRead(d) \/ DropItem(d) \/ DropFile(d) \/ DeleteReply(d)

Next ==
    \/ \E r \in Puts : PutStep(r)
    \/ \E u \in Uploads : UploadStep(u) \/ WorkerStep(u) \/ WorkerPanic(u)
    \/ \E d \in Deletes : DeleteStep(d)
    \/ \E a \in Albums : SyncAlbums(a)
    \/ \E p \in Uploads : SyncPhotos(p)
    \/ \E t \in Tasks : Crash(t)

\* Handlers and goroutines are scheduled by the Go runtime and their calls
\* return; requests need not arrive, tasks need not crash.
Fairness ==
    /\ \A r \in Puts : WF_vars(PutWrite(r))
    /\ \A u \in Uploads : WF_vars(UploadDraw(u) \/ UploadCreate(u) \/ UploadReply(u))
    /\ \A u \in Uploads : WF_vars(WorkerStep(u))
    /\ \A d \in Deletes : WF_vars(DropItem(d)) /\ WF_vars(DropFile(d)) /\ WF_vars(DeleteReply(d))
    /\ \A a \in Albums : WF_vars(SyncAlbums(a))
    /\ \A p \in Uploads : WF_vars(SyncPhotos(p))

Spec == Init /\ [][Next]_vars
FairSpec == Spec /\ Fairness

-----------------------------------------------------------------------------
(* Correctness *)

\* The tables hold items, and every handler and goroutine is at a known point.
TypeOK ==
    /\ albums \in [Albums -> AlbumItem] /\ oldAlbums \in [Albums -> AlbumItem]
    /\ photos \in [Uploads -> PhotoItem] /\ oldPhotos \in [Uploads -> PhotoItem]
    /\ files \subseteq Uploads
    /\ putPc \in [Puts -> {"start", "write", "200", "201", "500", "dead"}]
    /\ putNew \in [Puts -> BOOLEAN] /\ putSeq \in [Puts -> Nat]
    /\ upPc \in [Uploads -> {"start", "draw", "create", "reply", "202", "404", "500", "dead"}]
    /\ upSeq \in [Uploads -> Nat]
    /\ worker \in [Uploads -> {"none", "done", "logged", "dead"} \cup WorkerBusy]
    /\ delPc \in [Deletes -> {"start", "wait", "204", "404", "500", "dead"}]
    /\ delUrl \in [Deletes -> BOOLEAN]
    /\ dropItem \in [Deletes -> {"none", "call", "ok", "err", "dead"}]
    /\ dropFile \in [Deletes -> {"none", "call", "ok", "err", "dead"}]

InAlbumOf(u, v) == AlbumOf[u] = AlbumOf[v]

\* IncrementSeq hands every upload of an album a number of its own.
SeqUnique ==
    \A u, v \in Uploads : u # v /\ InAlbumOf(u, v) /\ upSeq[u] # 0 => upSeq[u] # upSeq[v]

\* A number IncrementSeq hands out is larger than all it handed out before for
\* that album, whatever retries, lost answers and stale reads come between.
SeqIncreases ==
    [][\A u, v \in Uploads :
        InAlbumOf(u, v) /\ upSeq'[u] # upSeq[u] /\ v # u => upSeq'[u] > upSeq[v]]_vars

\* IncrementSeq never creates an album that only has a counter: the check of
\* UploadPhoto, though done on a possibly stale read, is enough.
NoBareCounter == \A a \in Albums : albums[a].next_seq > 0 => albums[a].body # None

\* Once a DeleteItem was confirmed, no step makes the photo visible under its
\* album again: the status update of a goroutine that is still running
\* creates an item, but one that GetPhoto's album check turns into a 404.
DeletedPhotoGone ==
    \A d \in Deletes : dropItem[d] = "ok" => photos[PhotoOf[d]].album = None

\* A delete that saw the photo's url and answered 204 has removed the file for
\* good: no goroutine can put it back.
DeletedUrlFileGone ==
    \A d \in Deletes : delPc[d] = "204" /\ delUrl[d] => PhotoOf[d] \notin files

\* The url of a photo leads to its file unless a delete read this url.
UrlServesFile ==
    \A p \in Uploads : photos[p].url =>
        \/ p \in files
        \/ \E d \in Deletes : PhotoOf[d] = p /\ delUrl[d]

\* A photo that can be read carries the number its upload was answered with,
\* at every stage of its life.
VisibleSeq ==
    \A p \in Uploads : photos[p].album # None =>
        photos[p].album = AlbumOf[p] /\ photos[p].seq = upSeq[p] /\ upSeq[p] # 0

-----------------------------------------------------------------------------
(* Refinement *)

\* A photo in the table: an item without an album is a 404 to whoever reads it,
\* and it is the end of the photo if some delete had found it.
Phase(p) ==
    IF photos[p].album # None THEN photos[p].status
    ELSE IF \E d \in Deletes : PhotoOf[d] = p /\ delPc[d] \notin {"start", "404"}
         THEN "deleted" ELSE "absent"

\* What the handler of GET answers from an item: GetPhoto checks the album.
Seen(item) == IF item.album # None THEN item.status ELSE "404"

Lifecycle == INSTANCE PhotoLifecycle WITH
    Photos <- Uploads, phase <- [p \in Uploads |-> Phase(p)],
    shown <- [p \in Uploads |-> Seen(oldPhotos[p])]

\* Uploads, goroutines and deletes, with every fault, implement the life of a
\* photo: in the table no status is ever taken back and no deleted photo comes
\* back, and the replica that a lagging GET reads shows nothing but what the
\* table had when it caught up.
ImplementsLifecycle == Lifecycle!Spec

\* A client that polls the status of a photo accepted with 202 does not read
\* "processing" for ever, from the table or from a replica, unless the task died
\* or the last status update ended in an error, which is only logged.
PollsEnd ==
    <>[](\A u \in Uploads : upPc[u] = "202" =>
            \/ worker[u] \in {"logged", "dead"}
            \/ \A item \in PhotoReads(u) : item.album # None => item.status # "processing")
=============================================================================
