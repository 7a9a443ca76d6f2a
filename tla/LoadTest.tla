------------------------------- MODULE LoadTest -------------------------------
(***************************************************************************)
(* The load tester of homework10 against the leader-follower store: its    *)
(* workers send writes and reads of one key, record the versions of the    *)
(* writes that succeed in a shared key tracker, and report a read as stale *)
(* if it returned less than the tracker holds.                             *)
(*                                                                         *)
(* The store's module makes the steps of a request inside the store; here  *)
(* are those of the worker that made it.  A worker makes one request at a  *)
(* time.  Latencies and the report that is written at the end are left     *)
(* out.                                                                    *)
(***************************************************************************)
EXTENDS LeaderFollower

CONSTANT Concurrency    \* number of workers

ASSUME ConcurrencyAssumption == Concurrency \in Nat \ {0}

VARIABLES
    tracked,    \* versions[key] of the key tracker; 0 when it has none
    ended,      \* the requests whose worker has gone on
    verdict,    \* of each read that was answered: StaleRead, or that it was not asked
    recorded,   \* history: the writes recorded
    known,      \* history: the writes recorded before each read began
    crossed     \* history: the writes recorded while an older one was pending

testerVars == <<tracked, ended, verdict, recorded, known, crossed>>
allVars == <<vars, testerVars>>

NewTracker == tracked = 0

TestInit ==
    /\ Init
    /\ NewTracker
    /\ ended = {}
    /\ verdict = [g \in Reads |-> "none"]
    /\ recorded = {} /\ known = [g \in Reads |-> {}] /\ crossed = {}

Pending ==
    ({w \in Writes : pc[w] # "start"} \cup {g \in Reads : rpc[g] # "start"}) \ ended

-----------------------------------------------------------------------------
\* A step of the store, which may be the start of a request by an idle worker.
StoreStep ==
    /\ Next
    /\ known' = [g \in Reads |-> IF rpc[g] # rpc'[g] /\ rpc[g] = "start" THEN recorded ELSE known[g]]
    /\ UNCHANGED <<tracked, ended, verdict, recorded, crossed>>
    /\ Cardinality(Pending') <= Concurrency

\* Mutant: recordWrite only sets the version of a key that has none.
RecordFirstWrite(w) ==
    /\ w \notin ended /\ pc[w] = "201"
    /\ tracked' = IF tracked = 0 THEN version[w] ELSE tracked
    /\ ended' = ended \cup {w} /\ recorded' = recorded \cup {w}
    /\ crossed' = IF \E x \in Pending \cap Writes : version[x] < version[w]
                  THEN crossed \cup {w} ELSE crossed
    /\ UNCHANGED <<vars, verdict, known>>

\* recordWrite, after a 201: whichever worker comes last sets the version.
RecordWrite(w) ==
    /\ w \notin ended /\ pc[w] = "201"
    /\ tracked' = version[w]
    /\ ended' = ended \cup {w} /\ recorded' = recorded \cup {w}
    /\ crossed' = IF \E x \in Pending \cap Writes : version[x] < version[w]
                  THEN crossed \cup {w} ELSE crossed
    /\ UNCHANGED <<vars, verdict, known>>

\* Mutant: counts a read of the version expected as stale.
CheckStaleOrEqual(g) ==
    /\ g \notin ended /\ rpc[g] = "done" /\ best[g] # NoEntry
    /\ verdict' = [verdict EXCEPT ![g] = IF best[g].version <= tracked THEN "stale" ELSE "fresh"]
    /\ ended' = ended \cup {g}
    /\ UNCHANGED <<vars, tracked, recorded, known, crossed>>

\* Mutant: a read of a key with no known write gets no verdict of its own.
CheckStaleUnknown(g) ==
    /\ g \notin ended /\ rpc[g] = "done" /\ best[g] # NoEntry
    /\ verdict' = [verdict EXCEPT ![g] = IF NewTracker THEN "unknown"
                                        ELSE IF best[g].version < tracked THEN "stale" ELSE "fresh"]
    /\ ended' = ended \cup {g}
    /\ UNCHANGED <<vars, tracked, recorded, known, crossed>>

\* checkStale, after a 200.
CheckStale(g) ==
    /\ g \notin ended /\ rpc[g] = "done" /\ best[g] # NoEntry
    /\ verdict' = [verdict EXCEPT ![g] = IF best[g].version < tracked THEN "stale" ELSE "fresh"]
    /\ ended' = ended \cup {g}
    /\ UNCHANGED <<vars, tracked, recorded, known, crossed>>

\* A 404 is an answer, but the tracker is not asked about it.
ReadNotFound(g) ==
    /\ g \notin ended /\ rpc[g] = "done" /\ best[g] = NoEntry
    /\ verdict' = [verdict EXCEPT ![g] = "unchecked"]
    /\ ended' = ended \cup {g}
    /\ UNCHANGED <<vars, tracked, recorded, known, crossed>>

\* No answer to work with: 500, a node that died, or a connection that broke on
\* the way back.
Fail(q) ==
    /\ q \in Pending
    /\ \/ q \in Writes /\ (pc[q] \in {"500", "dead"} \/ (Lossy /\ pc[q] = "201"))
       \/ q \in Reads /\ (rpc[q] = "dead" \/ (Lossy /\ rpc[q] = "done"))
    /\ ended' = ended \cup {q}
    /\ UNCHANGED <<vars, tracked, verdict, recorded, known, crossed>>

TestNext ==
    \/ StoreStep
    \/ \E w \in Writes : RecordWrite(w)
    \/ \E g \in Reads : CheckStale(g) \/ ReadNotFound(g)
    \/ \E q \in Writes \cup Reads : Fail(q)

TestSpec == TestInit /\ [][TestNext]_allVars
FairTestSpec == TestSpec /\ Fairness

-----------------------------------------------------------------------------
(* Correctness *)

\* The tracker holds a version, requests end with what they are.
TesterTypeOK ==
    /\ tracked \in Nat
    /\ ended \subseteq Writes \cup Reads
    /\ verdict \in [Reads -> {"none", "fresh", "stale", "unchecked"}]
    /\ recorded \subseteq Writes \cap ended /\ crossed \subseteq recorded
    /\ known \in [Reads -> SUBSET Writes]

\* The leader's reads are never stale: one that is reported overlapped the
\* write it is said to have missed.  So are the reads of a follower if W is
\* all nodes.
FlaggedOverlaps ==
    \A g \in Reads :
        /\ verdict[g] = "stale" /\ {Leader, At[g]} \subseteq kept
        /\ At[g] = Leader \/ W >= F + 1
        => \E w \in recorded \ before[g] : version[w] > best[g].version

\* A read that returned less than a write recorded before it began is reported,
\* with two exceptions.  An older write was pending when that one was recorded:
\* two workers that write the same key may record their versions in the wrong
\* order.  Or the answer was a 404, which is never checked: a follower gives one
\* when the write has not reached it or was lost in its restart, while the
\* leader, and with W all nodes a follower that kept its memory, gives none.
MissesExplained ==
    Leader \in kept =>
        \A g \in Reads : verdict[g] \in {"fresh", "unchecked"} =>
            \A w \in known[g] : best[g].version < version[w] =>
                \/ verdict[g] = "fresh" /\ w \in crossed
                \/ verdict[g] = "unchecked" /\ At[g] # Leader /\ (W < F + 1 \/ At[g] \notin kept)
=============================================================================
