SPECIFICATION Spec
CONSTANTS
    Albums = {a}
    Tasks = {t1, t2}
    Puts = {r1, r2}
    Uploads = {u1, u2}
    Deletes = {}
    Spooled = {}
    u1 = u1
    u2 = u2
    t1 = t1
    t2 = t2
    AlbumOf <- MCAlbumOf
    PhotoOf <- MCPhotoOf
    TaskOf <- MCTaskOf
    Faults = {}
    Retried = {}
    MaxSeq = 2
    None = None
INVARIANTS SeqUnique
CHECK_DEADLOCK FALSE
