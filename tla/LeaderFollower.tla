--------------------------- MODULE LeaderFollower ---------------------------
(***************************************************************************)
(* The leader-follower key-value store of homework10: node 0 is the        *)
(* leader, nodes 1..F its followers in the order of FOLLOWERS.             *)
(*                                                                         *)
(* Keys are independent, every step touches one of them: the module is     *)
(* about one key.  A write is a client's POST /set to the leader and is    *)
(* also the value it stores, so all values differ; a read is a GET /get.   *)
(* What a follower answers at once (403 to a write, 400) is left out.      *)
(*                                                                         *)
(* Two things may go wrong.  Where Lossy, a connection is refused or it    *)
(* breaks, before or after the follower has taken the request.  A node of  *)
(* Restarts may lose its memory and everything it was doing.               *)
(***************************************************************************)
EXTENDS Naturals, FiniteSets

CONSTANTS
    F,          \* number of followers, nValue - 1
    W, R,       \* wValue, rValue
    Writes, Reads,
    At,         \* the node that serves a read
    Lossy, Restarts,
    None        \* the value of a key that is not in the map

ASSUME SizeAssumption == F \in Nat /\ W \in Nat /\ R \in Nat
ASSUME RequestAssumption == At \in [Reads -> 0..F] /\ None \notin Writes
ASSUME FaultsAssumption == Lossy \in BOOLEAN /\ Restarts \subseteq 0..F

Followers == 1..F
Nodes == 0..F
Leader == 0

VARIABLES
    store,      \* the entry of the key at each node; version 0 when it has none
    pc,         \* handleSet of each write
    version,    \* its localVersion
    call,       \* sendReplicate of a write to a follower, as the leader sees it
    inbox,      \* the requests followers have taken and not yet applied
    rpc, best, got,     \* handleGet of each read: its best entry, who answered
    before,     \* history: the writes answered 201 before each read began
    kept        \* history: the nodes that never restarted

writeVars == <<pc, version, call, inbox>>
readVars  == <<rpc, best, got, before>>
vars == <<store, writeVars, readVars, kept>>

Entry == [value : Writes \cup {None}, version : Nat]
NoEntry == [value |-> None, version |-> 0]

\* What replicateToFollowers and the followers' goroutines wait for.
Calls == {"unsent", "sent", "ok", "failed"}
Finished(c) == c \in {"ok", "failed"}

Init ==
    /\ store = [n \in Nodes |-> NoEntry]
    /\ pc = [w \in Writes |-> "start"]
    /\ version = [w \in Writes |-> 0]
    /\ call = [w \in Writes |-> [f \in Followers |-> "unsent"]]
    /\ inbox = {}
    /\ rpc = [g \in Reads |-> "start"]
    /\ best = [g \in Reads |-> NoEntry]
    /\ got = [g \in Reads |-> {}]
    /\ before = [g \in Reads |-> {}]
    /\ kept = Nodes

-----------------------------------------------------------------------------
(* POST /set *)

\* Mutant: an update of an existing key keeps its version.
AcceptSameVersion(w) ==
    /\ pc[w] = "start"
    /\ LET v == IF store[Leader] = NoEntry THEN 1 ELSE store[Leader].version
       IN  /\ store' = [store EXCEPT ![Leader] = [value |-> w, version |-> v]]
           /\ version' = [version EXCEPT ![w] = v]
    /\ pc' = [pc EXCEPT ![w] = IF W <= 1 THEN "201" ELSE "wait"]
    /\ UNCHANGED <<call, inbox, readVars, kept>>

\* Under storeMu: read, increment, store.  With W = 1 the client is answered
\* before anything is sent.
Accept(w) ==
    /\ pc[w] = "start"
    /\ LET v == store[Leader].version + 1
       IN  /\ store' = [store EXCEPT ![Leader] = [value |-> w, version |-> v]]
           /\ version' = [version EXCEPT ![w] = v]
    /\ pc' = [pc EXCEPT ![w] = IF W <= 1 THEN "201" ELSE "wait"]
    /\ UNCHANGED <<call, inbox, readVars, kept>>

\* Mutant: without acknowledgements to wait for, nothing is sent at all.
SendOnlyWaiting(w, f) ==
    /\ pc[w] = "wait" /\ call[w][f] = "unsent"
    /\ call' = [call EXCEPT ![w][f] = "sent"]
    /\ inbox' = inbox \cup {<<w, f>>}
    /\ UNCHANGED <<store, pc, version, readVars, kept>>

\* One follower after the other; without acknowledgements to wait for, only
\* when the call before has ended.
Send(w, f) ==
    /\ pc[w] \in {"wait", "201"} /\ call[w][f] = "unsent"
    /\ \A e \in 1..(f - 1) : call[w][e] # "unsent" /\ (W <= 1 => Finished(call[w][e]))
    /\ \/ /\ call' = [call EXCEPT ![w][f] = "sent"]
          /\ inbox' = inbox \cup {<<w, f>>}
       \/ /\ Lossy
          /\ call' = [call EXCEPT ![w][f] = "failed"]
          /\ UNCHANGED inbox
    /\ UNCHANGED <<store, pc, version, readVars, kept>>

\* Mutant: applies whatever arrives, in the order of arrival.
ApplyAlways(w, f) ==
    /\ <<w, f>> \in inbox
    /\ inbox' = inbox \ {<<w, f>>}
    /\ store' = [store EXCEPT ![f] = [value |-> w, version |-> version[w]]]
    /\ call' = IF call[w][f] = "sent" THEN [call EXCEPT ![w][f] = "ok"] ELSE call
    /\ UNCHANGED <<pc, version, readVars, kept>>

\* handleReplicate, after its storage delay: only a newer version is applied,
\* and the answer is 200 either way.
Apply(w, f) ==
    /\ <<w, f>> \in inbox
    /\ inbox' = inbox \ {<<w, f>>}
    /\ store' = IF version[w] > store[f].version
                THEN [store EXCEPT ![f] = [value |-> w, version |-> version[w]]]
                ELSE store
    /\ call' = IF call[w][f] = "sent" THEN [call EXCEPT ![w][f] = "ok"] ELSE call
    /\ UNCHANGED <<pc, version, readVars, kept>>

\* The leader sees an error; the follower may still hold the request.
Break(w, f) ==
    /\ Lossy
    /\ call[w][f] = "sent"
    /\ call' = [call EXCEPT ![w][f] = "failed"]
    /\ UNCHANGED <<store, pc, version, inbox, readVars, kept>>

\* Mutant: counts the results, failures included.
AcksOfAnyResult(w) == 1 + Cardinality({f \in Followers : Finished(call[w][f])})

Acks(w) == 1 + Cardinality({f \in Followers : call[w][f] = "ok"})

\* Mutant: answers 200 where clients expect 201.
ReplyOK(w) ==
    /\ pc[w] = "wait"
    /\ \A f \in Followers : Finished(call[w][f])
    /\ pc' = [pc EXCEPT ![w] = IF Acks(w) >= W THEN "200" ELSE "500"]
    /\ UNCHANGED <<store, version, call, inbox, readVars, kept>>

\* All followers have been heard of.
Reply(w) ==
    /\ pc[w] = "wait"
    /\ \A f \in Followers : Finished(call[w][f])
    /\ pc' = [pc EXCEPT ![w] = IF Acks(w) >= W THEN "201" ELSE "500"]
    /\ UNCHANGED <<store, version, call, inbox, readVars, kept>>

-----------------------------------------------------------------------------
(* GET /get/:key *)

\* The nodes a node can ask: only the leader is given FOLLOWERS.
Peers(n) == IF n = Leader THEN Followers ELSE {}

\* Mutant: waits for a found result without counting the results.
EnoughFound(results, found, n) == Cardinality(results) >= R /\ found

\* Enough results and one of them found, or no more results to come.
Enough(results, found, n) ==
    \/ Cardinality(results) >= R /\ found
    \/ results = {n} \cup Peers(n)

\* The local entry is the first result; with R = 1 it is the answer.
ReadLocal(g) ==
    /\ rpc[g] = "start"
    /\ before' = [before EXCEPT ![g] = {w \in Writes : pc[w] = "201"}]
    /\ best' = [best EXCEPT ![g] = store[At[g]]]
    /\ got' = [got EXCEPT ![g] = {At[g]}]
    /\ rpc' = [rpc EXCEPT ![g] = IF R <= 1 \/ Enough({At[g]}, store[At[g]].version > 0, At[g])
                                 THEN "done" ELSE "collect"]
    /\ UNCHANGED <<store, writeVars, kept>>

\* fetchFromNode, and its result taken from the channel; a failed fetch counts
\* as a result that was not found.
Collect(g, f) ==
    /\ rpc[g] = "collect" /\ f \in Peers(At[g]) \ got[g]
    /\ \E entry \in {store[f]} \cup IF Lossy THEN {NoEntry} ELSE {} :
        best' = IF entry.version > best[g].version THEN [best EXCEPT ![g] = entry] ELSE best
    /\ got' = [got EXCEPT ![g] = @ \cup {f}]
    /\ rpc' = [rpc EXCEPT ![g] = IF Enough(got'[g], best'[g].version > 0, At[g])
                                 THEN "done" ELSE "collect"]
    /\ UNCHANGED <<store, writeVars, before, kept>>

-----------------------------------------------------------------------------
(* Nodes keep everything in memory *)

RestartFollower(f) ==
    /\ f \in Restarts
    /\ store[f] # NoEntry \/ \E w \in Writes : <<w, f>> \in inbox
    /\ store' = [store EXCEPT ![f] = NoEntry]
    /\ inbox' = {m \in inbox : m[2] # f}
    /\ call' = [w \in Writes |-> IF call[w][f] = "sent" THEN [call[w] EXCEPT ![f] = "failed"]
                                 ELSE call[w]]
    /\ rpc' = [g \in Reads |-> IF At[g] = f /\ rpc[g] = "collect" THEN "dead" ELSE rpc[g]]
    /\ kept' = kept \ {f}
    /\ UNCHANGED <<pc, version, best, got, before>>

\* What the leader has sent stays at the followers, the rest is never sent.
RestartLeader ==
    /\ Leader \in Restarts
    /\ store[Leader] # NoEntry
    /\ store' = [store EXCEPT ![Leader] = NoEntry]
    /\ pc' = [w \in Writes |-> IF pc[w] = "wait" THEN "dead" ELSE pc[w]]
    /\ call' = [w \in Writes |-> IF pc[w] = "start" THEN call[w]
                                 ELSE [f \in Followers |-> IF Finished(call[w][f]) THEN call[w][f]
                                                           ELSE "failed"]]
    /\ rpc' = [g \in Reads |-> IF At[g] = Leader /\ rpc[g] = "collect" THEN "dead" ELSE rpc[g]]
    /\ kept' = kept \ {Leader}
    /\ UNCHANGED <<version, inbox, best, got, before>>

Next ==
    \/ \E w \in Writes : Accept(w) \/ Reply(w)
    \/ \E w \in Writes, f \in Followers : Send(w, f) \/ Apply(w, f) \/ Break(w, f)
    \/ \E g \in Reads : ReadLocal(g) \/ \E f \in Followers : Collect(g, f)
    \/ \E f \in Followers : RestartFollower(f)
    \/ RestartLeader

\* Handlers and goroutines run, and a follower answers what it has taken.
Fairness ==
    /\ \A w \in Writes : WF_vars(Reply(w))
    /\ \A w \in Writes, f \in Followers : WF_vars(Send(w, f)) /\ WF_vars(Apply(w, f))
    /\ \A g \in Reads, f \in Followers : WF_vars(Collect(g, f))

Spec == Init /\ [][Next]_vars
FairSpec == Spec /\ Fairness

-----------------------------------------------------------------------------
(* Correctness *)

\* Entries at the nodes, handlers at known points, requests in transit.
TypeOK ==
    /\ store \in [Nodes -> Entry]
    /\ pc \in [Writes -> {"start", "wait", "201", "500", "dead"}]
    /\ version \in [Writes -> Nat]
    /\ call \in [Writes -> [Followers -> Calls]]
    /\ inbox \subseteq Writes \X Followers /\ kept \subseteq Nodes
    /\ rpc \in [Reads -> {"start", "collect", "done", "dead"}]
    /\ best \in [Reads -> Entry] /\ before \in [Reads -> SUBSET Writes]
    /\ got \in [Reads -> SUBSET Nodes]

\* The version number alone says which value an entry holds, at every node,
\* also at one that lost its memory and caught up: what makes "apply only if
\* newer" safe.
SameVersionSameValue ==
    Leader \in kept =>
        \A m, n \in Nodes : store[m].version = store[n].version => store[m] = store[n]

\* A write answered 201 was held by W nodes, as itself or as a later write, and
\* is still held by those that have not restarted, even though a follower
\* answers 200 to a request it does not apply.
AckedOnQuorum ==
    Leader \in kept => \A w \in Writes : pc[w] = "201" =>
        Cardinality({n \in Nodes : n \in kept => store[n].version >= version[w]}) >= W

\* A read that begins after a write was answered 201 returns that write or a
\* later one: at the leader always, at a follower when W is all nodes.
ReadAfterAck ==
    \A g \in Reads :
        /\ rpc[g] = "done" /\ {Leader, At[g]} \subseteq kept
        /\ At[g] = Leader \/ W >= F + 1
        => \A w \in before[g] : best[g].version >= version[w]

\* No node that keeps its memory goes back to an older version, though requests
\* overtake each other on the way to it.
VersionsGrow == [][\A n \in kept' : store'[n].version >= store[n].version]_vars

\* Every write and every read is answered: no handler waits forever for the
\* results of its goroutines, failed calls and failed reads included.
Answered ==
    /\ \A w \in Writes : pc[w] = "wait" ~> pc[w] # "wait"
    /\ \A g \in Reads : rpc[g] = "collect" ~> rpc[g] # "collect"

\* A write the leader has accepted reaches every follower, or a later one does,
\* unless the leader has seen the call fail or one of the two restarts.
Converges ==
    \A w \in Writes, f \in Followers :
        pc[w] # "start" ~> \/ store[f].version >= version[w]
                           \/ call[w][f] = "failed"
                           \/ ~({Leader, f} \subseteq kept)

-----------------------------------------------------------------------------
(* Refinement *)

Log == INSTANCE VersionedLog WITH
    Values <- Writes, Writers <- {Leader}, Replicas <- Followers,
    log <- IF Leader \in kept
           THEN [v \in 1..store[Leader].version |-> CHOOSE w \in Writes : version[w] = v]
           ELSE <<>>,
    position <- [n \in Nodes |-> IF Leader \in kept THEN store[n].version ELSE 0]

\* Leader and followers implement one log of values that replicas follow, until
\* the leader restarts and its numbers begin again.
ImplementsLog == Log!Spec
=============================================================================
