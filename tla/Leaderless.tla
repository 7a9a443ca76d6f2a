----------------------------- MODULE Leaderless -----------------------------
(***************************************************************************)
(* The leaderless key-value store of homework10: any node takes a write,   *)
(* becomes its coordinator, and answers 201 once all its peers have (W=N). *)
(* As in LeaderFollower the module is about one key, a write is also the   *)
(* value it stores, and the same losses and restarts may happen.           *)
(***************************************************************************)
EXTENDS Naturals

CONSTANTS
    N,          \* the nodes are 1..N; each lists its PEERS in this order
    Writes,
    At,         \* the node a client sends a write to
    Lossy, Restarts,
    None        \* the value of a key that is not in the map

ASSUME NAssumption == N \in Nat
ASSUME WritesAssumption == At \in [Writes -> 1..N] /\ None \notin Writes
ASSUME FaultsAssumption == Lossy \in BOOLEAN /\ Restarts \subseteq 1..N

Nodes == 1..N
Peers(n) == Nodes \ {n}

VARIABLES
    store,      \* the entry of the key at each node; version 0 when it has none
    pc,         \* handleSet of each write
    version,    \* its localVersion
    call,       \* sendPropagate of a write to a peer, as the coordinator sees it
    inbox,      \* the requests peers have taken and not yet applied
    kept        \* history: the nodes that never restarted

vars == <<store, pc, version, call, inbox, kept>>

Entry == [value : Writes \cup {None}, version : Nat]
NoEntry == [value |-> None, version |-> 0]
Finished(c) == c \in {"ok", "failed"}

Init ==
    /\ store = [n \in Nodes |-> NoEntry]
    /\ pc = [w \in Writes |-> "start"]
    /\ version = [w \in Writes |-> 0]
    /\ call = [w \in Writes |-> [n \in Nodes |-> "unsent"]]
    /\ inbox = {}
    /\ kept = Nodes

\* The coordinator's own version counter decides the version, under its lock.
Accept(w) ==
    /\ pc[w] = "start"
    /\ LET v == store[At[w]].version + 1
       IN  /\ store' = [store EXCEPT ![At[w]] = [value |-> w, version |-> v]]
           /\ version' = [version EXCEPT ![w] = v]
    /\ pc' = [pc EXCEPT ![w] = "wait"]
    /\ UNCHANGED <<call, inbox, kept>>

\* One peer after the other, without waiting for the answers.
Send(w, n) ==
    /\ pc[w] = "wait" /\ n \in Peers(At[w]) /\ call[w][n] = "unsent"
    /\ \A m \in Peers(At[w]) : m < n => call[w][m] # "unsent"
    /\ \/ /\ call' = [call EXCEPT ![w][n] = "sent"]
          /\ inbox' = inbox \cup {<<w, n>>}
       \/ /\ Lossy
          /\ call' = [call EXCEPT ![w][n] = "failed"]
          /\ UNCHANGED inbox
    /\ UNCHANGED <<store, pc, version, kept>>

\* Mutant: applies a request of the same version too.
ApplyNotOlder(w, n) ==
    /\ <<w, n>> \in inbox
    /\ inbox' = inbox \ {<<w, n>>}
    /\ store' = IF version[w] >= store[n].version
                THEN [store EXCEPT ![n] = [value |-> w, version |-> version[w]]]
                ELSE store
    /\ call' = IF call[w][n] = "sent" THEN [call EXCEPT ![w][n] = "ok"] ELSE call
    /\ UNCHANGED <<pc, version, kept>>

\* handlePropagate: only a newer version is applied; the answer is 200 anyway.
Apply(w, n) ==
    /\ <<w, n>> \in inbox
    /\ inbox' = inbox \ {<<w, n>>}
    /\ store' = IF version[w] > store[n].version
                THEN [store EXCEPT ![n] = [value |-> w, version |-> version[w]]]
                ELSE store
    /\ call' = IF call[w][n] = "sent" THEN [call EXCEPT ![w][n] = "ok"] ELSE call
    /\ UNCHANGED <<pc, version, kept>>

\* The coordinator sees an error; the peer may still hold the request.
Break(w, n) ==
    /\ Lossy
    /\ call[w][n] = "sent"
    /\ call' = [call EXCEPT ![w][n] = "failed"]
    /\ UNCHANGED <<store, pc, version, inbox, kept>>

\* Mutant: takes any result for an acknowledgement.
ReplyToAny(w) ==
    /\ pc[w] = "wait"
    /\ \A n \in Peers(At[w]) : Finished(call[w][n])
    /\ pc' = [pc EXCEPT ![w] = "201"]
    /\ UNCHANGED <<store, version, call, inbox, kept>>

\* Mutant: answers 200 where clients expect 201.
ReplyOK(w) ==
    /\ pc[w] = "wait"
    /\ \A n \in Peers(At[w]) : Finished(call[w][n])
    /\ pc' = [pc EXCEPT ![w] = IF \A n \in Peers(At[w]) : call[w][n] = "ok" THEN "200" ELSE "500"]
    /\ UNCHANGED <<store, version, call, inbox, kept>>

\* W = N: a single failed peer makes it a 500.
Reply(w) ==
    /\ pc[w] = "wait"
    /\ \A n \in Peers(At[w]) : Finished(call[w][n])
    /\ pc' = [pc EXCEPT ![w] = IF \A n \in Peers(At[w]) : call[w][n] = "ok" THEN "201" ELSE "500"]
    /\ UNCHANGED <<store, version, call, inbox, kept>>

\* A node that restarts has an empty map; the writes it coordinated die.
Restart(n) ==
    /\ n \in Restarts /\ store[n] # NoEntry
    /\ store' = [store EXCEPT ![n] = NoEntry]
    /\ pc' = [w \in Writes |-> IF At[w] = n /\ pc[w] = "wait" THEN "dead" ELSE pc[w]]
    /\ inbox' = {m \in inbox : m[2] # n}
    /\ call' = [w \in Writes |-> [m \in Nodes |->
                   IF m = n /\ call[w][m] = "sent" THEN "failed" ELSE call[w][m]]]
    /\ UNCHANGED version
    /\ kept' = kept \ {n}

Next ==
    \/ \E w \in Writes : Accept(w) \/ Reply(w)
    \/ \E w \in Writes, n \in Nodes : Send(w, n) \/ Apply(w, n) \/ Break(w, n)
    \/ \E n \in Nodes : Restart(n)

Spec == Init /\ [][Next]_vars

-----------------------------------------------------------------------------
(* Correctness *)

\* Entries at the nodes, handlers at known points, requests in transit.
TypeOK ==
    /\ store \in [Nodes -> Entry]
    /\ pc \in [Writes -> {"start", "wait", "201", "500", "dead"}]
    /\ version \in [Writes -> Nat]
    /\ call \in [Writes -> [Nodes -> {"unsent", "sent", "ok", "failed"}]]
    /\ inbox \subseteq Writes \X Nodes /\ kept \subseteq Nodes

\* A write answered 201 has reached every node that keeps its memory, as itself
\* or as a version that is not older, even if its requests came after those of
\* other coordinators.
AckedEverywhere ==
    \A w \in Writes : pc[w] = "201" => \A n \in kept : store[n].version >= version[w]

\* R = 1: a node answers a read, of a client or of its peers, from its own map.
Get(n) == store[n]

\* The coordinator of a write returns that value or a newer version: a value
\* another coordinator gave the same version never replaces it there.
CoordinatorConsistent ==
    \A w \in Writes : At[w] \in kept /\ pc[w] # "start" =>
        /\ Get(At[w]).version >= version[w]
        /\ Get(At[w]).version = version[w] => Get(At[w]).value = w
=============================================================================
