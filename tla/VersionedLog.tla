---------------------------- MODULE VersionedLog ----------------------------
(***************************************************************************)
(* What a replicated entry with version numbers promises: the values are   *)
(* written one after the other, version v is the v-th of them at every     *)
(* node, and a replica only moves forward through them, skipping some.     *)
(***************************************************************************)
EXTENDS Naturals, Sequences

CONSTANTS Values, Writers, Replicas

VARIABLES
    log,        \* the values written, in the order of their versions
    position    \* the version each node holds

vars == <<log, position>>

Init == log = <<>> /\ position = [n \in Writers \cup Replicas |-> 0]

Write(n, v) ==
    /\ position[n] = Len(log)
    /\ log' = Append(log, v)
    /\ position' = [position EXCEPT ![n] = Len(log) + 1]

CatchUp(n) ==
    /\ \E p \in (position[n] + 1)..Len(log) : position' = [position EXCEPT ![n] = p]
    /\ UNCHANGED log

\* A replica that loses its memory starts over.
Forget(n) ==
    /\ position' = [position EXCEPT ![n] = 0]
    /\ UNCHANGED log

\* A writer that loses its memory takes the log with it.
End ==
    /\ log' = <<>>
    /\ position' = [n \in Writers \cup Replicas |-> 0]

Next ==
    \/ \E n \in Writers, v \in Values : Write(n, v)
    \/ \E n \in Replicas : CatchUp(n) \/ Forget(n)
    \/ End

Spec == Init /\ [][Next]_vars
=============================================================================
