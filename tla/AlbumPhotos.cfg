SPECIFICATION FairSpec
CONSTANTS
    Albums = {a}
    Tasks = {t1, t2}
    Puts = {r1}
    Uploads = {u1}
    Deletes = {d1, d2}
    Spooled = {u1}
    u1 = u1
    u2 = u2
    t1 = t1
    t2 = t2
    AlbumOf <- MCAlbumOf
    PhotoOf <- MCPhotoOf
    TaskOf <- MCTaskOf
    Faults = {"error", "lost", "stale", "panic", "crash"}
    Retried = {"DeletePhoto", "UploadFile", "DeleteObject"}
    MaxSeq = 1
    None = None
INVARIANTS TypeOK DeletedPhotoGone DeletedUrlFileGone UrlServesFile NoBareCounter
PROPERTIES ImplementsLifecycle PollsEnd
CHECK_DEADLOCK FALSE
