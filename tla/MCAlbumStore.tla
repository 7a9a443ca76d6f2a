---------------------------- MODULE MCAlbumStore ----------------------------
(***************************************************************************)
(* Instances of AlbumStore for TLC: one album and two tasks; which         *)
(* requests there are, and what may fail, is set in each configuration.    *)
(***************************************************************************)
EXTENDS AlbumStore

CONSTANTS u1, u2, t1, t2

\* One album: every request is about it.
MCAlbumOf == [r \in Requests |-> CHOOSE a \in Albums : TRUE]
\* The deletes all name the first upload's photo.
MCPhotoOf == [d \in Deletes |-> u1]
\* The first upload runs in one task and everything else in the other.
MCTaskOf == [r \in Requests |-> IF r = u1 THEN t1 ELSE t2]
=============================================================================
