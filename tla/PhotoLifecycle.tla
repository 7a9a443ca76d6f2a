--------------------------- MODULE PhotoLifecycle ---------------------------
(***************************************************************************)
(* What the album store promises about one photo.  In the table it appears *)
(* once, in "processing", it is decided once, and once deleted it never    *)
(* comes back.  A replica shows what the table had when it last caught up. *)
(* GET /albums/:album_id/photos/:photo_id answers from either of them, so  *)
(* a client may see a photo go back, but to nothing the table did not have *)
(* and not after the replica has caught up.                                *)
(***************************************************************************)
CONSTANT Photos

VARIABLES
    phase,  \* of each photo in the table
    shown   \* what the replica answers for it

Phases == {"absent", "processing", "completed", "failed", "deleted"}

\* What a GET answers for a photo in this phase.
View(ph) == IF ph \in {"absent", "deleted"} THEN "404" ELSE ph

Init ==
    /\ phase = [p \in Photos |-> "absent"]
    /\ shown = [p \in Photos |-> "404"]

Accept(p) ==
    /\ phase[p] = "absent"
    /\ phase' = [phase EXCEPT ![p] = "processing"]
    /\ UNCHANGED shown

Finish(p) ==
    /\ phase[p] = "processing"
    /\ \E result \in {"completed", "failed"} : phase' = [phase EXCEPT ![p] = result]
    /\ UNCHANGED shown

Delete(p) ==
    /\ phase[p] \in {"processing", "completed", "failed"}
    /\ phase' = [phase EXCEPT ![p] = "deleted"]
    /\ UNCHANGED shown

CatchUp(p) ==
    /\ shown' = [shown EXCEPT ![p] = View(phase[p])]
    /\ UNCHANGED phase

Next == \E p \in Photos : Accept(p) \/ Finish(p) \/ Delete(p) \/ CatchUp(p)

Spec == Init /\ [][Next]_<<phase, shown>>
=============================================================================
