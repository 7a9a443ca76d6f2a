------------------------ MODULE LeaderFollowerProofs ------------------------
(***************************************************************************)
(* Proofs about LeaderFollower, for any number of followers, writes and    *)
(* reads, any W and R, with or without lost messages, whatever nodes       *)
(* restart: what the theorems say of a memory they say as long as its node *)
(* (or the leader, which numbers the writes) has kept it.  The last part   *)
(* is about LoadTest, for any number of workers: what the store promises   *)
(* holds when the load tester drives it, and what the tester reports about *)
(* it is true.                                                             *)
(***************************************************************************)
EXTENDS LoadTest, FiniteSetTheorems, SequenceTheorems, TLAPS

\* Every step, whatever it does, keeps the variables' types.
LEMMA TypePreserved == TypeOK /\ [Next]_vars => TypeOK'
<1> SUFFICES ASSUME TypeOK, [Next]_vars PROVE TypeOK'
    OBVIOUS
<1> USE DEF TypeOK, Nodes, Followers, Leader, Entry, NoEntry, Calls
<1>1. ASSUME NEW w \in Writes, Accept(w) PROVE TypeOK'
    BY <1>1, SizeAssumption DEF Accept, readVars
<1>2. ASSUME NEW w \in Writes, NEW f \in Followers, Send(w, f) PROVE TypeOK'
  <2>1. UNCHANGED <<store, pc, version, kept, rpc, best, got, before>>
    BY <1>2 DEF Send, readVars
  <2>2. PICK c \in Calls : call' = [call EXCEPT ![w][f] = c]
    BY <1>2 DEF Send
  <2>3. call' \in [Writes -> [Followers -> Calls]]
    BY <2>2
  <2>4. inbox' \subseteq Writes \X Followers
    BY <1>2 DEF Send
  <2> QED
    BY <2>1, <2>3, <2>4
<1>3. ASSUME NEW w \in Writes, Reply(w) PROVE TypeOK'
    BY <1>3 DEF Reply, readVars
<1>4. ASSUME NEW w \in Writes, NEW f \in Followers, Apply(w, f) PROVE TypeOK'
    BY <1>4 DEF Apply, readVars
<1>5. ASSUME NEW w \in Writes, NEW f \in Followers, Break(w, f) PROVE TypeOK'
    BY <1>5 DEF Break, readVars
<1>6. ASSUME NEW g \in Reads, ReadLocal(g) PROVE TypeOK'
    BY <1>6, RequestAssumption DEF ReadLocal, writeVars
<1>7. ASSUME NEW g \in Reads, NEW f \in Followers, Collect(g, f) PROVE TypeOK'
    BY <1>7, SizeAssumption DEF Collect, writeVars
<1>8. ASSUME NEW f \in Followers, RestartFollower(f) PROVE TypeOK'
    BY <1>8 DEF RestartFollower
<1>9. ASSUME RestartLeader PROVE TypeOK'
    BY <1>9 DEF RestartLeader, Finished
<1>10. ASSUME UNCHANGED vars PROVE TypeOK'
    BY <1>10 DEF vars, writeVars, readVars
<1> QED
    BY <1>1, <1>2, <1>3, <1>4, <1>5, <1>6, <1>7, <1>8, <1>9, <1>10 DEF Next

\* The tables, handlers and requests of the store always have their types.
THEOREM TypeCorrect == Spec => []TypeOK
<1>1. Init => TypeOK
    BY SizeAssumption DEF Init, TypeOK, Nodes, Followers, Entry, NoEntry, Calls
<1> QED
    BY <1>1, TypePreserved, PTL DEF Spec

-----------------------------------------------------------------------------
(* The inductive invariant *)

\* The leader numbers the writes it accepts, and until it restarts the numbers
\* are distinct and none is above its own.
VersionsAssigned ==
    /\ \A w \in Writes : pc[w] = "start" <=> version[w] = 0
    /\ Leader \in kept =>
          /\ \A v, w \in Writes : version[v] = version[w] /\ version[v] # 0 => v = w
          /\ \A w \in Writes : version[w] <= store[Leader].version

\* An entry at a node is one of these writes under its number, or none.
EntriesWritten ==
    \A n \in Nodes :
        \/ store[n] = NoEntry
        \/ store[n].value \in Writes /\ store[n].version = version[store[n].value]
              /\ store[n].version # 0

\* A follower that acknowledged a write and keeps its memory holds it or a later
\* one.
CallsHonest ==
    \A w \in Writes, f \in Followers :
        /\ call[w][f] = "ok" /\ f \in kept => version[w] <= store[f].version
        /\ call[w][f] # "unsent" \/ <<w, f>> \in inbox => pc[w] # "start"

\* A 201 of a W > 1 was given after every follower was heard of and W agreed.
AcksCounted ==
    \A w \in Writes : pc[w] = "201" /\ W > 1 =>
        /\ Acks(w) >= W
        /\ \A f \in Followers : Finished(call[w][f])

\* The nodes a read can rely on.
Served(g) == {Leader, At[g]} \subseteq kept /\ (At[g] = Leader \/ W >= F + 1)

\* What a read has seen so far is no older than what was acknowledged before it.
ReadsFresh ==
    \A g \in Reads :
        /\ \A w \in before[g] : pc[w] = "201"
        /\ rpc[g] \in {"collect", "done"} /\ Served(g) =>
              \A w \in before[g] : best[g].version >= version[w]

IInv == TypeOK /\ VersionsAssigned /\ EntriesWritten /\ CallsHonest /\ AcksCounted /\ ReadsFresh

-----------------------------------------------------------------------------
(* Each action preserves it *)

\* A new write gets a number above all others, and the leader's memory moves
\* to it; nothing at a follower changes.
LEMMA AcceptPreserves ==
    ASSUME IInv, TypeOK', NEW w \in Writes, Accept(w)
    PROVE  IInv'
<1> DEFINE v == store[Leader].version + 1
<1> USE SizeAssumption DEF TypeOK, Nodes, Followers, Leader, Entry
<1>1. /\ pc[w] = "start" /\ version[w] = 0
      /\ store' = [store EXCEPT ![Leader] = [value |-> w, version |-> v]]
      /\ version' = [version EXCEPT ![w] = v]
      /\ pc' = [pc EXCEPT ![w] = IF W <= 1 THEN "201" ELSE "wait"]
      /\ UNCHANGED <<call, inbox, rpc, best, got, before, kept>>
    BY DEF Accept, readVars, IInv, VersionsAssigned
<1>2. v \in Nat /\ v > 0 /\ Leader \in Nodes
    BY DEF IInv
<1>3. VersionsAssigned'
    BY <1>1, <1>2 DEF IInv, VersionsAssigned
<1>4. EntriesWritten'
    BY <1>1, <1>2 DEF IInv, EntriesWritten, VersionsAssigned, NoEntry
<1>5. CallsHonest'
  <2>1. \A f \in Followers : call[w][f] = "unsent" /\ <<w, f>> \notin inbox
    BY <1>1 DEF IInv, CallsHonest, Calls
  <2>2. \A f \in Followers : store'[f] = store[f]
    BY <1>1 DEF IInv
  <2>3. \A x \in Writes : x # w => version'[x] = version[x] /\ pc'[x] = pc[x]
    BY <1>1 DEF IInv
  <2> SUFFICES ASSUME NEW x \in Writes, NEW e \in Followers
               PROVE  /\ call'[x][e] = "ok" /\ e \in kept' => version'[x] <= store'[e].version
                      /\ call'[x][e] # "unsent" \/ <<x, e>> \in inbox' => pc'[x] # "start"
    BY DEF CallsHonest
  <2>4. call'[x][e] = call[x][e] /\ inbox' = inbox
    BY <1>1
  <2>5. CASE x = w
    BY <2>1, <2>4, <2>5
  <2>6. CASE x # w
    BY <1>1, <2>2, <2>3, <2>4, <2>6 DEF IInv, CallsHonest
  <2> QED
    BY <2>5, <2>6
<1>6. AcksCounted'
  <2>1. \A x \in Writes : Acks(x)' = Acks(x)
    BY <1>1 DEF Acks
  <2>2. \A x \in Writes : pc'[x] = "201" /\ W > 1 => pc[x] = "201"
    BY <1>1 DEF IInv
  <2> QED
    BY <1>1, <2>1, <2>2 DEF IInv, AcksCounted
<1>7. ReadsFresh'
    BY <1>1, <1>2 DEF IInv, ReadsFresh, Served
<1> QED
    BY <1>3, <1>4, <1>5, <1>6, <1>7 DEF IInv

\* A request on its way changes neither memories nor acknowledgements.
LEMMA SendPreserves ==
    ASSUME IInv, TypeOK', NEW w \in Writes, NEW f \in Followers, Send(w, f)
    PROVE  IInv'
<1> USE DEF TypeOK, Nodes, Followers
<1>1. PICK c \in {"sent", "failed"} : call' = [call EXCEPT ![w][f] = c]
    BY DEF Send
<1>2. /\ UNCHANGED <<store, pc, version, rpc, best, got, before, kept>>
      /\ pc[w] # "start" /\ call[w][f] = "unsent"
      /\ inbox' \subseteq inbox \cup {<<w, f>>}
    BY DEF Send, readVars, IInv
<1>3. VersionsAssigned' /\ EntriesWritten' /\ ReadsFresh'
    BY <1>2 DEF IInv, VersionsAssigned, EntriesWritten, ReadsFresh, Served, NoEntry
<1>4. CallsHonest'
    BY <1>1, <1>2 DEF IInv, CallsHonest
<1>5. AcksCounted'
  <2>1. ASSUME NEW x \in Writes, pc[x] = "201", W > 1
        PROVE  call'[x] = call[x]
    BY <1>1, <1>2, <2>1 DEF IInv, AcksCounted, Finished
  <2>2. ASSUME NEW x \in Writes, pc[x] = "201", W > 1
        PROVE  Acks(x)' = Acks(x)
    BY <2>1, <2>2 DEF Acks
  <2> QED
    BY <1>2, <2>1, <2>2 DEF IInv, AcksCounted
<1> QED
    BY <1>3, <1>4, <1>5 DEF IInv

\* A follower moves to a write only if it is newer, and then acknowledges it.
LEMMA ApplyPreserves ==
    ASSUME IInv, TypeOK', NEW w \in Writes, NEW f \in Followers, Apply(w, f)
    PROVE  IInv'
<1> USE SizeAssumption DEF TypeOK, Nodes, Followers, Leader, Entry
<1>1. /\ UNCHANGED <<pc, version, rpc, best, got, before, kept>>
      /\ <<w, f>> \in inbox /\ inbox' \subseteq inbox
      /\ store' = IF version[w] > store[f].version
                  THEN [store EXCEPT ![f] = [value |-> w, version |-> version[w]]]
                  ELSE store
      /\ call' = IF call[w][f] = "sent" THEN [call EXCEPT ![w][f] = "ok"] ELSE call
    BY DEF Apply, readVars
<1>2. pc[w] # "start" /\ version[w] # 0
    BY <1>1 DEF IInv, CallsHonest, VersionsAssigned
<1>3. /\ \A n \in Nodes : store'[n].version >= store[n].version
      /\ store'[f].version >= version[w]
      /\ store'[Leader] = store[Leader]
    BY <1>1, f \in Nodes, f # Leader DEF IInv
<1>4. VersionsAssigned'
    BY <1>1, <1>3 DEF IInv, VersionsAssigned
<1>5. EntriesWritten'
    BY <1>1, <1>2 DEF IInv, EntriesWritten, NoEntry
<1>6. CallsHonest'
  <2> SUFFICES ASSUME NEW x \in Writes, NEW e \in Followers
               PROVE  /\ call'[x][e] = "ok" /\ e \in kept' => version'[x] <= store'[e].version
                      /\ call'[x][e] # "unsent" \/ <<x, e>> \in inbox' => pc'[x] # "start"
    BY DEF CallsHonest
  <2>1. call'[x][e] = call[x][e] \/ (x = w /\ e = f)
    BY <1>1 DEF IInv
  <2>2. CASE x = w /\ e = f
    BY <1>1, <1>2, <1>3, <2>2
  <2>3. CASE call'[x][e] = call[x][e]
    <3>1. store'[e].version >= store[e].version /\ store[e].version \in Nat
      BY <1>3 DEF IInv
    <3>2. store'[e].version \in Nat /\ version[x] \in Nat
      BY DEF IInv
    <3> QED
      BY <1>1, <2>3, <3>1, <3>2 DEF IInv, CallsHonest
  <2> QED
    BY <2>1, <2>2, <2>3
<1>7. AcksCounted'
  <2>1. ASSUME NEW x \in Writes, pc[x] = "201", W > 1
        PROVE  call'[x] = call[x]
    BY <1>1, <2>1 DEF IInv, AcksCounted, Finished
  <2>2. ASSUME NEW x \in Writes, pc[x] = "201", W > 1
        PROVE  Acks(x)' = Acks(x)
    BY <2>1, <2>2 DEF Acks
  <2> QED
    BY <1>1, <2>1, <2>2 DEF IInv, AcksCounted
<1>8. ReadsFresh'
    BY <1>1 DEF IInv, ReadsFresh, Served
<1> QED
    BY <1>4, <1>5, <1>6, <1>7, <1>8 DEF IInv

\* A broken connection takes no acknowledgement back.
LEMMA BreakPreserves ==
    ASSUME IInv, TypeOK', NEW w \in Writes, NEW f \in Followers, Break(w, f)
    PROVE  IInv'
<1> USE DEF TypeOK, Nodes, Followers
<1>1. /\ UNCHANGED <<store, pc, version, inbox, rpc, best, got, before, kept>>
      /\ call[w][f] = "sent"
      /\ call' = [call EXCEPT ![w][f] = "failed"]
    BY DEF Break, readVars
<1>2. VersionsAssigned' /\ EntriesWritten' /\ ReadsFresh'
    BY <1>1 DEF IInv, VersionsAssigned, EntriesWritten, ReadsFresh, Served, NoEntry
<1>3. CallsHonest'
    BY <1>1 DEF IInv, CallsHonest
<1>4. AcksCounted'
  <2>1. ASSUME NEW x \in Writes, pc[x] = "201", W > 1
        PROVE  call'[x] = call[x]
    BY <1>1, <2>1 DEF IInv, AcksCounted, Finished
  <2>2. ASSUME NEW x \in Writes, pc[x] = "201", W > 1
        PROVE  Acks(x)' = Acks(x)
    BY <2>1, <2>2 DEF Acks
  <2> QED
    BY <1>1, <2>1, <2>2 DEF IInv, AcksCounted
<1> QED
    BY <1>2, <1>3, <1>4 DEF IInv

\* The leader answers only when every follower was heard of.
LEMMA ReplyPreserves ==
    ASSUME IInv, TypeOK', NEW w \in Writes, Reply(w)
    PROVE  IInv'
<1> USE DEF TypeOK, Nodes, Followers
<1>1. /\ UNCHANGED <<store, version, call, inbox, rpc, best, got, before, kept>>
      /\ pc[w] = "wait" /\ \A f \in Followers : Finished(call[w][f])
      /\ pc' = [pc EXCEPT ![w] = IF Acks(w) >= W THEN "201" ELSE "500"]
    BY DEF Reply, readVars
<1>2. VersionsAssigned' /\ EntriesWritten' /\ CallsHonest'
    BY <1>1 DEF IInv, VersionsAssigned, EntriesWritten, CallsHonest, NoEntry
<1>3. AcksCounted'
  <2>1. \A x \in Writes : Acks(x)' = Acks(x)
    BY <1>1 DEF Acks
  <2> QED
    BY <1>1, <2>1 DEF IInv, AcksCounted
<1>4. ReadsFresh'
    BY <1>1 DEF IInv, ReadsFresh, Served
<1> QED
    BY <1>2, <1>3, <1>4 DEF IInv

-----------------------------------------------------------------------------
(* Counting acknowledgements *)

\* The followers that acknowledged a write, W - 1 of them or more.
LEMMA AckersFinite ==
    ASSUME NEW w \in Writes
    PROVE  LET S == {f \in Followers : call[w][f] = "ok"}
           IN  /\ IsFiniteSet(S) /\ Cardinality(S) \in Nat /\ Cardinality(S) <= F
               /\ Cardinality(S) = F => S = Followers
<1> DEFINE S == {f \in Followers : call[w][f] = "ok"}
<1>1. IsFiniteSet(Followers) /\ Cardinality(Followers) = F
    BY SizeAssumption, FS_Interval DEF Followers
<1>2. S \in SUBSET Followers
    OBVIOUS
<1>3. /\ IsFiniteSet(S) /\ Cardinality(S) <= Cardinality(Followers)
      /\ Cardinality(Followers) = Cardinality(S) => Followers = S
    BY <1>1, <1>2, FS_Subset
<1>4. Cardinality(S) \in Nat
    BY <1>3, FS_CardinalityType
<1> QED
    BY <1>1, <1>3, <1>4

\* When W is all nodes, a 201 means that every follower acknowledged.
LEMMA AllAcked ==
    ASSUME IInv, W >= F + 1, NEW w \in Writes, pc[w] = "201", NEW f \in Followers
    PROVE  call[w][f] = "ok"
<1> DEFINE S == {e \in Followers : call[w][e] = "ok"}
<1>1. W > 1
    BY SizeAssumption DEF Followers
<1>2. Acks(w) >= W
    BY <1>1 DEF IInv, AcksCounted
<1>3. Acks(w) = 1 + Cardinality(S)
    BY DEF Acks
<1>4. Cardinality(S) \in Nat /\ Cardinality(S) <= F /\ (Cardinality(S) = F => S = Followers)
    BY AckersFinite
<1>5. Cardinality(S) = F
    BY <1>2, <1>3, <1>4, SizeAssumption
<1> QED
    BY <1>4, <1>5

-----------------------------------------------------------------------------
(* Reads *)

\* The local entry is already as new as every acknowledged write.
LEMMA ReadLocalPreserves ==
    ASSUME IInv, TypeOK', NEW g \in Reads, ReadLocal(g)
    PROVE  IInv'
<1> USE SizeAssumption, RequestAssumption DEF TypeOK, Nodes, Followers, Leader, Entry
<1>1. /\ UNCHANGED <<store, pc, version, call, inbox, kept>>
      /\ before' = [before EXCEPT ![g] = {w \in Writes : pc[w] = "201"}]
      /\ best' = [best EXCEPT ![g] = store[At[g]]]
    BY DEF ReadLocal, writeVars
<1>2. \A x \in Reads : x # g => rpc'[x] = rpc[x]
    BY DEF ReadLocal, IInv
<1>3. VersionsAssigned' /\ EntriesWritten' /\ CallsHonest'
    BY <1>1 DEF IInv, VersionsAssigned, EntriesWritten, CallsHonest, NoEntry
<1>4. AcksCounted'
  <2>1. \A x \in Writes : Acks(x)' = Acks(x)
    BY <1>1 DEF Acks
  <2> QED
    BY <1>1, <2>1 DEF IInv, AcksCounted
<1>5. ReadsFresh'
  <2>1. ASSUME Served(g), NEW w \in Writes, pc[w] = "201"
        PROVE  store[At[g]].version >= version[w]
    <3>1. CASE At[g] = Leader
      BY <2>1, <3>1 DEF IInv, VersionsAssigned, Served
    <3>2. CASE At[g] # Leader
      <4>1. At[g] \in Followers \cap kept /\ W >= F + 1
        BY <2>1, <3>2 DEF Served
      <4>2. call[w][At[g]] = "ok"
        BY <2>1, <4>1, AllAcked
      <4>3. version[w] <= store[At[g]].version
        BY <4>1, <4>2 DEF IInv, CallsHonest
      <4>4. version[w] \in Nat /\ store[At[g]].version \in Nat
        BY DEF IInv
      <4> QED
        BY <4>3, <4>4
    <3> QED
      BY <3>1, <3>2
  <2>2. before'[g] = {w \in Writes : pc[w] = "201"} /\ best'[g] = store[At[g]]
    BY <1>1 DEF IInv
  <2>3. \A x \in Reads : x # g => before'[x] = before[x] /\ best'[x] = best[x]
    BY <1>1 DEF IInv
  <2> SUFFICES ASSUME NEW x \in Reads
               PROVE  /\ \A w \in before'[x] : pc'[w] = "201"
                      /\ rpc'[x] \in {"collect", "done"} /\ Served(x) =>
                            \A w \in before'[x] : best'[x].version >= version'[w]
    BY <1>1 DEF ReadsFresh, Served
  <2>4. CASE x = g
    BY <1>1, <2>1, <2>2, <2>4
  <2>5. CASE x # g
    BY <1>1, <1>2, <2>3, <2>5 DEF IInv, ReadsFresh
  <2> QED
    BY <2>4, <2>5
<1> QED
    BY <1>3, <1>4, <1>5 DEF IInv

\* Another result only makes the answer newer.
LEMMA CollectPreserves ==
    ASSUME IInv, TypeOK', NEW g \in Reads, NEW f \in Followers, Collect(g, f)
    PROVE  IInv'
<1> USE SizeAssumption DEF TypeOK, Nodes, Followers, Leader, Entry, NoEntry
<1>1. /\ UNCHANGED <<store, pc, version, call, inbox, before, kept>>
      /\ rpc[g] = "collect"
    BY DEF Collect, writeVars
<1>2. \A x \in Reads : x # g => rpc'[x] = rpc[x] /\ best'[x] = best[x]
    BY DEF Collect, IInv
<1>3. best'[g].version >= best[g].version
    BY DEF Collect, IInv
<1>4. VersionsAssigned' /\ EntriesWritten' /\ CallsHonest'
    BY <1>1 DEF IInv, VersionsAssigned, EntriesWritten, CallsHonest
<1>5. AcksCounted'
  <2>1. \A x \in Writes : Acks(x)' = Acks(x)
    BY <1>1 DEF Acks
  <2> QED
    BY <1>1, <2>1 DEF IInv, AcksCounted
<1>6. ReadsFresh'
  <2> SUFFICES ASSUME NEW x \in Reads
               PROVE  /\ \A w \in before[x] : pc[w] = "201"
                      /\ rpc'[x] \in {"collect", "done"} /\ Served(x) =>
                            \A w \in before[x] : best'[x].version >= version[w]
    BY <1>1 DEF ReadsFresh, Served
  <2>1. CASE x = g
    <3>1. /\ \A w \in before[g] : pc[w] = "201"
          /\ Served(g) => \A w \in before[g] : best[g].version >= version[w]
      BY <1>1 DEF IInv, ReadsFresh
    <3>2. \A w \in before[g] : version[w] \in Nat
      BY DEF IInv
    <3>3. best[g].version \in Nat /\ best'[g].version \in Nat
      BY DEF IInv
    <3> QED
      BY <1>3, <2>1, <3>1, <3>2, <3>3
  <2>2. CASE x # g
    BY <1>2, <2>2 DEF IInv, ReadsFresh
  <2> QED
    BY <2>1, <2>2
<1> QED
    BY <1>4, <1>5, <1>6 DEF IInv

-----------------------------------------------------------------------------
(* Restarts *)

\* A follower that restarts takes no finished call back, and nothing relies on
\* its memory any more.
LEMMA RestartFollowerPreserves ==
    ASSUME IInv, TypeOK', NEW f \in Followers, RestartFollower(f)
    PROVE  IInv'
<1> USE SizeAssumption DEF TypeOK, Nodes, Followers, Leader
<1>1. /\ UNCHANGED <<pc, version, best, before>>
      /\ store' = [store EXCEPT ![f] = NoEntry] /\ kept' = kept \ {f}
      /\ inbox' \subseteq inbox
      /\ call' = [w \in Writes |-> IF call[w][f] = "sent" THEN [call[w] EXCEPT ![f] = "failed"]
                                   ELSE call[w]]
      /\ rpc' = [g \in Reads |-> IF At[g] = f /\ rpc[g] = "collect" THEN "dead" ELSE rpc[g]]
    BY DEF RestartFollower
<1>2. f \in Nodes /\ f # Leader /\ store'[Leader] = store[Leader]
    BY <1>1 DEF IInv
<1>3. VersionsAssigned' /\ EntriesWritten'
    BY <1>1, <1>2 DEF IInv, VersionsAssigned, EntriesWritten, NoEntry
<1>4. CallsHonest'
  <2> SUFFICES ASSUME NEW w \in Writes, NEW e \in Followers
               PROVE  /\ call'[w][e] = "ok" /\ e \in kept' => version'[w] <= store'[e].version
                      /\ call'[w][e] # "unsent" \/ <<w, e>> \in inbox' => pc'[w] # "start"
    BY DEF CallsHonest
  <2>1. call'[w][e] = call[w][e] \/ (call'[w][e] = "failed" /\ call[w][e] = "sent")
    BY <1>1 DEF IInv
  <2>2. e \in kept' => e \in kept /\ store'[e] = store[e]
    BY <1>1 DEF IInv
  <2> QED
    BY <1>1, <2>1, <2>2 DEF IInv, CallsHonest
<1>5. AcksCounted'
  <2>1. ASSUME NEW w \in Writes, pc[w] = "201", W > 1
        PROVE  call'[w] = call[w]
    BY <1>1, <2>1 DEF IInv, AcksCounted, Finished
  <2>2. ASSUME NEW w \in Writes, pc[w] = "201", W > 1
        PROVE  Acks(w)' = Acks(w)
    BY <2>1, <2>2 DEF Acks
  <2> QED
    BY <1>1, <2>1, <2>2 DEF IInv, AcksCounted
<1>6. ReadsFresh'
    BY <1>1 DEF IInv, ReadsFresh, Served
<1> QED
    BY <1>3, <1>4, <1>5, <1>6 DEF IInv

\* A leader that restarts ends what its numbers meant, not what was answered.
LEMMA RestartLeaderPreserves ==
    ASSUME IInv, TypeOK', RestartLeader
    PROVE  IInv'
<1> USE SizeAssumption DEF TypeOK, Nodes, Followers, Leader
<1>1. /\ UNCHANGED <<version, inbox, best, before>>
      /\ store' = [store EXCEPT ![Leader] = NoEntry] /\ kept' = kept \ {Leader}
      /\ pc' = [w \in Writes |-> IF pc[w] = "wait" THEN "dead" ELSE pc[w]]
      /\ call' = [w \in Writes |-> IF pc[w] = "start" THEN call[w]
                     ELSE [f \in Followers |-> IF Finished(call[w][f]) THEN call[w][f]
                                               ELSE "failed"]]
    BY DEF RestartLeader
<1>2. VersionsAssigned' /\ EntriesWritten'
    BY <1>1 DEF IInv, VersionsAssigned, EntriesWritten, NoEntry
<1>3. CallsHonest'
  <2> SUFFICES ASSUME NEW w \in Writes, NEW e \in Followers
               PROVE  /\ call'[w][e] = "ok" /\ e \in kept' => version'[w] <= store'[e].version
                      /\ call'[w][e] # "unsent" \/ <<w, e>> \in inbox' => pc'[w] # "start"
    BY DEF CallsHonest
  <2>1. call'[w][e] = "ok" => call[w][e] = "ok"
    BY <1>1 DEF IInv, Finished
  <2>2. pc[w] = "start" => call'[w][e] = call[w][e]
    BY <1>1
  <2>3. pc'[w] = "start" => pc[w] = "start"
    BY <1>1 DEF IInv
  <2>4. e \in kept' => e \in kept /\ store'[e] = store[e]
    BY <1>1 DEF IInv
  <2> QED
    BY <1>1, <2>1, <2>2, <2>3, <2>4 DEF IInv, CallsHonest
<1>4. AcksCounted'
  <2>1. ASSUME NEW w \in Writes, pc'[w] = "201", W > 1
        PROVE  pc[w] = "201" /\ \A f \in Followers : Finished(call[w][f]) /\ call'[w][f] = call[w][f]
    <3>1. pc[w] = "201"
      BY <1>1, <2>1 DEF IInv
    <3>2. \A f \in Followers : Finished(call[w][f])
      BY <2>1, <3>1 DEF IInv, AcksCounted
    <3> QED
      BY <1>1, <3>1, <3>2
  <2>2. ASSUME NEW w \in Writes, pc'[w] = "201", W > 1
        PROVE  Acks(w)' = Acks(w)
    BY <2>1, <2>2 DEF Acks
  <2> QED
    BY <2>1, <2>2 DEF IInv, AcksCounted, Finished
<1>5. ReadsFresh'
    BY <1>1 DEF IInv, ReadsFresh, Served
<1> QED
    BY <1>2, <1>3, <1>4, <1>5 DEF IInv

-----------------------------------------------------------------------------
(* The theorems *)

\* A fresh cluster: every memory is empty and nobody was answered.
LEMMA InitInvariant == Init => IInv
<1> SUFFICES ASSUME Init PROVE IInv
    OBVIOUS
<1>1. TypeOK
    BY SizeAssumption DEF Init, TypeOK, Nodes, Followers, Entry, NoEntry, Calls
<1>2. VersionsAssigned /\ EntriesWritten /\ CallsHonest /\ AcksCounted /\ ReadsFresh
    BY SizeAssumption DEF Init, VersionsAssigned, EntriesWritten, CallsHonest, AcksCounted,
        ReadsFresh, NoEntry, Nodes, Followers, Leader
<1> QED
    BY <1>1, <1>2 DEF IInv

\* Every step preserves the invariant.
LEMMA NextPreserves == IInv /\ [Next]_vars => IInv'
<1> SUFFICES ASSUME IInv, [Next]_vars PROVE IInv'
    OBVIOUS
<1>1. TypeOK'
    BY TypePreserved DEF IInv
<1>2. CASE UNCHANGED vars
    BY <1>1, <1>2 DEF vars, writeVars, readVars, IInv, VersionsAssigned, EntriesWritten,
        CallsHonest, AcksCounted, Acks, ReadsFresh, Served, NoEntry
<1>3. CASE Next
    BY <1>1, <1>3, AcceptPreserves, SendPreserves, ApplyPreserves, BreakPreserves,
        ReplyPreserves, ReadLocalPreserves, CollectPreserves, RestartFollowerPreserves,
        RestartLeaderPreserves DEF Next
<1> QED
    BY <1>2, <1>3

\* The invariant of the store: what the other theorems follow from.
THEOREM Invariant == Spec => []IInv
<1>1. IInv /\ [Next]_vars => IInv'
    BY NextPreserves
<1> QED
    BY <1>1, InitInvariant, PTL DEF Spec

\* A version number stands for one value at every node, until the leader restarts.
THEOREM VersionMeansValue == Spec => []SameVersionSameValue
<1>1. IInv => SameVersionSameValue
  <2> SUFFICES ASSUME IInv, Leader \in kept, NEW m \in Nodes, NEW n \in Nodes,
                      store[m].version = store[n].version
               PROVE  store[m] = store[n]
    BY DEF SameVersionSameValue
  <2>1. store[m] \in Entry /\ store[n] \in Entry
    BY DEF IInv, TypeOK
  <2>2. CASE store[m] = NoEntry
    BY <2>2 DEF IInv, EntriesWritten, NoEntry
  <2>3. CASE store[m] # NoEntry
    <3>1. store[m].value = store[n].value
      BY <2>3 DEF IInv, EntriesWritten, VersionsAssigned, NoEntry
    <3> QED
      BY <2>1, <3>1 DEF Entry
  <2> QED
    BY <2>2, <2>3
<1> QED
    BY <1>1, Invariant, PTL

\* When every write that was accepted has been acknowledged by all followers, or
\* answered 201 with W all nodes, the followers that kept their memory are copies
\* of a leader that did.
SettledCopies ==
    /\ Leader \in kept
    /\ \A w \in Writes :
          \/ pc[w] = "start"
          \/ pc[w] = "201" /\ W >= F + 1
          \/ \A f \in Followers : call[w][f] = "ok"
    => \A f \in Followers \cap kept : store[f] = store[Leader]

\* Although an acknowledgement may be of a request that was not applied, and
\* requests overtake each other, acknowledgements leave nothing to catch up with.
THEOREM SettledFollowersAreCopies == Spec => []SettledCopies
<1>1. IInv /\ SameVersionSameValue => SettledCopies
  <2>1. SUFFICES ASSUME IInv, SameVersionSameValue, Leader \in kept,
                        \A w \in Writes :
                            \/ pc[w] = "start"
                            \/ pc[w] = "201" /\ W >= F + 1
                            \/ \A f \in Followers : call[w][f] = "ok",
                        NEW f \in Followers, f \in kept
                 PROVE  store[f] = store[Leader]
    BY DEF SettledCopies
  <2>2. /\ f \in Nodes /\ Leader \in Nodes
        /\ store[f].version \in Nat /\ store[Leader].version \in Nat
    BY <2>1, SizeAssumption DEF IInv, TypeOK, Entry, Nodes, Followers, Leader
  <2>3. store[f].version <= store[Leader].version
    <3>1. CASE store[f] = NoEntry
      BY <2>2, <3>1 DEF NoEntry
    <3>2. CASE store[f] # NoEntry
      BY <2>1, <2>2, <3>2 DEF IInv, EntriesWritten, VersionsAssigned
    <3> QED
      BY <3>1, <3>2
  <2>4. store[Leader].version <= store[f].version
    <3>1. CASE store[Leader] = NoEntry
      BY <2>2, <3>1 DEF NoEntry
    <3>2. CASE store[Leader] # NoEntry
      <4>1. PICK w \in Writes : store[Leader].version = version[w] /\ version[w] # 0
        BY <2>1, <2>2, <3>2 DEF IInv, EntriesWritten
      <4>2. pc[w] # "start"
        BY <2>1, <4>1 DEF IInv, VersionsAssigned
      <4>3. call[w][f] = "ok"
        BY <2>1, <4>2, AllAcked
      <4> QED
        BY <2>1, <4>1, <4>3 DEF IInv, CallsHonest
    <3> QED
      BY <3>1, <3>2
  <2>5. store[f].version = store[Leader].version
    BY <2>2, <2>3, <2>4
  <2> QED
    BY <2>1, <2>2, <2>5 DEF SameVersionSameValue
<1> QED
    BY <1>1, Invariant, VersionMeansValue, PTL

\* A read that begins after a 201 returns that write or a later one, at the
\* leader for every W and R, and anywhere when W is all nodes.
THEOREM ReadsSeeAcked == Spec => []ReadAfterAck
<1>1. IInv => ReadAfterAck
    BY DEF IInv, ReadsFresh, ReadAfterAck, Served
<1> QED
    BY <1>1, Invariant, PTL

\* A write answered 201 is on W nodes, as itself or as a later write.
THEOREM AckedOnQuorumHolds == Spec => []AckedOnQuorum
<1>1. IInv => AckedOnQuorum
  <2> SUFFICES ASSUME IInv, Leader \in kept, NEW w \in Writes, pc[w] = "201"
               PROVE  Cardinality({n \in Nodes : n \in kept => store[n].version >= version[w]}) >= W
    BY DEF AckedOnQuorum
  <2> DEFINE S == {f \in Followers : call[w][f] = "ok"}
             Q == {n \in Nodes : n \in kept => store[n].version >= version[w]}
  <2>1. IsFiniteSet(S) /\ Cardinality(S) \in Nat
    BY AckersFinite
  <2>2. IsFiniteSet(S \cup {Leader}) /\ Cardinality(S \cup {Leader}) = Cardinality(S) + 1
    <3>1. Leader \notin S
      BY DEF Leader, Followers
    <3> HIDE DEF S
    <3> QED
      BY <2>1, <3>1, FS_AddElement
  <2>3. S \cup {Leader} \in SUBSET Q
    <3>1. store \in [Nodes -> Entry] /\ version \in [Writes -> Nat]
      BY DEF IInv, TypeOK
    <3>2. Leader \in Q
      BY <3>1, SizeAssumption DEF IInv, Entry, VersionsAssigned, Leader, Nodes
    <3>3. ASSUME NEW f \in S PROVE f \in Q
      <4>1. f \in Followers /\ f \in Nodes /\ call[w][f] = "ok"
        BY <3>3, SizeAssumption DEF Followers, Nodes
      <4>2. f \in kept => version[w] <= store[f].version
        BY <4>1 DEF IInv, CallsHonest
      <4>3. version[w] \in Nat /\ store[f].version \in Nat
        BY <3>1, <4>1 DEF Entry
      <4> QED
        BY <4>1, <4>2, <4>3
    <3> QED
      BY <3>2, <3>3
  <2>4. IsFiniteSet(Q)
    <3>1. IsFiniteSet(Nodes)
      BY SizeAssumption, FS_Interval DEF Nodes
    <3>2. Q \in SUBSET Nodes
      OBVIOUS
    <3> QED
      BY <3>1, <3>2, FS_Subset
  <2>5. Cardinality(S) + 1 <= Cardinality(Q) /\ Cardinality(Q) \in Nat
    BY <2>2, <2>3, <2>4, FS_Subset, FS_CardinalityType
  <2>6. W > 1 => 1 + Cardinality(S) >= W
    BY DEF IInv, AcksCounted, Acks
  <2>7. Cardinality(Q) >= W
    <3> HIDE DEF Q, S
    <3> QED
      BY <2>1, <2>5, <2>6, SizeAssumption
  <2> QED
    BY <2>7
<1> QED
    BY <1>1, Invariant, PTL

\* No step takes a node that keeps its memory back to an older version.
THEOREM VersionsOnlyGrow == Spec => VersionsGrow
<1>1. TypeOK /\ [Next]_vars => [\A n \in kept' : store'[n].version >= store[n].version]_vars
  <2> SUFFICES ASSUME TypeOK, Next, NEW n \in kept'
               PROVE  store'[n].version >= store[n].version
    OBVIOUS
  <2>1. n \in Nodes
    BY TypePreserved DEF TypeOK
  <2>2. store[n].version \in Nat /\ Leader \in Nodes /\ store[Leader].version \in Nat
    BY <2>1, SizeAssumption DEF TypeOK, Entry, Nodes, Leader
  <2>3. CASE store'[n] = store[n]
    BY <2>2, <2>3
  <2>4. ASSUME NEW w \in Writes, Accept(w) PROVE store'[n].version >= store[n].version
    BY <2>1, <2>2, <2>4 DEF Accept, TypeOK
  <2>5. ASSUME NEW w \in Writes, NEW f \in Followers, Apply(w, f)
        PROVE  store'[n].version >= store[n].version
    BY <2>1, <2>2, <2>5 DEF Apply, TypeOK
  <2>6. ASSUME RestartLeader \/ \E f \in Followers : RestartFollower(f)
        PROVE  store'[n] = store[n]
    BY <2>1, <2>6 DEF RestartLeader, RestartFollower, TypeOK
  <2>7. \/ store' = store
        \/ \E w \in Writes : Accept(w) \/ \E f \in Followers : Apply(w, f)
        \/ RestartLeader \/ \E f \in Followers : RestartFollower(f)
    BY DEF Next, Send, Reply, Break, ReadLocal, Collect
  <2> QED
    BY <2>3, <2>4, <2>5, <2>6, <2>7
<1> QED
    BY <1>1, TypeCorrect, PTL DEF Spec, VersionsGrow

-----------------------------------------------------------------------------
(* Leader and followers implement one log *)

\* The numbers up to the leader's have all been given to writes.
NumbersUsed ==
    Leader \in kept => \A v \in 1..store[Leader].version : \E w \in Writes : version[w] = v

\* The variables of Log.
TheLog ==
    IF Leader \in kept
    THEN [v \in 1..store[Leader].version |-> CHOOSE w \in Writes : version[w] = v]
    ELSE <<>>
Positions == [n \in Nodes |-> IF Leader \in kept THEN store[n].version ELSE 0]

\* A function on 1..n is a sequence of length n.
LEMMA SequenceOf ==
    ASSUME NEW S, NEW n \in Nat, NEW f \in [1..n -> S]
    PROVE  f \in Seq(S) /\ Len(f) = n
<1>1. f \in Seq(S)
    BY SeqDef
<1>2. DOMAIN f = 1..n
    OBVIOUS
<1>3. Len(f) \in Nat /\ DOMAIN f = 1..Len(f)
    BY <1>1, LenProperties
<1>4. Len(f) = n
    BY <1>2, <1>3
<1> QED
    BY <1>1, <1>4

\* While the leader keeps its memory, the log is as long as its version.
LEMMA LogLength ==
    ASSUME TypeOK, NumbersUsed, Leader \in kept
    PROVE  TheLog \in Seq(Writes) /\ Len(TheLog) = store[Leader].version
<1> DEFINE n == store[Leader].version
<1>1. n \in Nat
    BY SizeAssumption DEF TypeOK, Nodes, Leader, Entry
<1>2. TheLog \in [1..n -> Writes]
    BY DEF NumbersUsed, TheLog
<1> QED
    BY <1>1, <1>2, SequenceOf

\* Without the leader's memory the log is empty, and nobody is anywhere in it.
LEMMA LogEnded ==
    ASSUME Leader \notin kept, Leader \notin kept'
    PROVE  UNCHANGED <<TheLog, Positions>>
<1>1. TheLog = <<>> /\ TheLog' = <<>>
    BY DEF TheLog
<1>2. Positions = [n \in Nodes |-> 0] /\ Positions' = [n \in Nodes |-> 0]
    BY DEF Positions
<1> QED
    BY <1>1, <1>2

\* A new write takes the next number, and is the log's next value.
LEMMA AcceptAppends ==
    ASSUME IInv, NumbersUsed, TypeOK', NEW w \in Writes, Accept(w)
    PROVE  NumbersUsed' /\ (Log!Write(Leader, w) \/ UNCHANGED <<TheLog, Positions>>)
<1> DEFINE n == store[Leader].version
<1> USE DEF TypeOK
<1>1. /\ version[w] = 0 /\ n \in Nat /\ Leader \in Nodes
      /\ store' = [store EXCEPT ![Leader] = [value |-> w, version |-> n + 1]]
      /\ version' = [version EXCEPT ![w] = n + 1] /\ UNCHANGED kept
    BY SizeAssumption DEF Accept, IInv, VersionsAssigned, Nodes, Leader, Entry
<1>2. store'[Leader].version = n + 1 /\ version'[w] = n + 1
    BY <1>1 DEF IInv
<1>3. \A x \in Writes : x # w => version'[x] = version[x]
    BY <1>1 DEF IInv
<1>4. NumbersUsed'
  <2> SUFFICES ASSUME Leader \in kept, NEW v \in 1..(n + 1) PROVE \E x \in Writes : version'[x] = v
    BY <1>1, <1>2 DEF NumbersUsed
  <2>1. CASE v = n + 1
    BY <1>2, <2>1
  <2>2. CASE v # n + 1
    <3>1. v \in 1..n
      <4>1. n \in Nat
        BY <1>1
      <4> HIDE DEF n
      <4> QED
        BY <2>2, <4>1
    <3>2. PICK x \in Writes : version[x] = v
      BY <3>1 DEF NumbersUsed
    <3>3. x # w
      BY <1>1, <3>1, <3>2
    <3> QED
      BY <1>3, <3>2, <3>3
  <2> QED
    BY <2>1, <2>2
<1>5. CASE Leader \notin kept
    BY <1>1, <1>4, <1>5, LogEnded
<1>6. CASE Leader \in kept
  <2>1. TheLog \in Seq(Writes) /\ Len(TheLog) = n
    BY <1>6, LogLength DEF IInv
  <2>2. TheLog' \in Seq(Writes) /\ Len(TheLog') = n + 1
    <3>1. TheLog' \in [1..(n + 1) -> Writes]
      <4>1. \A v \in 1..(n + 1) : \E x \in Writes : version'[x] = v
        BY <1>1, <1>2, <1>4, <1>6 DEF NumbersUsed
      <4>2. TheLog' = [v \in 1..(n + 1) |-> CHOOSE x \in Writes : version'[x] = v]
        BY <1>1, <1>2, <1>6 DEF TheLog
      <4> QED
        BY <4>1, <4>2
    <3>2. n + 1 \in Nat
      BY <1>1
    <3> HIDE DEF n, TypeOK
    <3> QED
      BY <3>1, <3>2, SequenceOf
  <2>3. ASSUME NEW v \in 1..n PROVE TheLog'[v] = TheLog[v]
    <3>1. PICK x \in Writes : version[x] = v
      BY <1>6 DEF NumbersUsed
    <3>2. version'[x] = v
      BY <1>1, <1>3, <3>1
    <3>3. \A y \in Writes : version[y] = v => y = x
      BY <1>1, <1>6, <3>1 DEF IInv, VersionsAssigned
    <3>4. \A y \in Writes : version'[y] = v => y = x
      BY <1>1, <1>2, <1>3, <3>3
    <3>5. TheLog[v] = x
      BY <1>6, <3>1, <3>3 DEF TheLog
    <3>6. TheLog'[v] = x
      <4>1. v \in 1..store'[Leader].version
        BY <1>1, <1>2
      <4> QED
        BY <1>1, <1>6, <3>2, <3>4, <4>1 DEF TheLog
    <3> QED
      BY <3>5, <3>6
  <2>4. TheLog'[n + 1] = w
    <3>1. \A y \in Writes : version'[y] = n + 1 => y = w
      BY <1>1, <1>3, <1>6 DEF IInv, VersionsAssigned
    <3>2. n + 1 \in 1..store'[Leader].version
      BY <1>1, <1>2
    <3> QED
      BY <1>1, <1>2, <1>6, <3>1, <3>2 DEF TheLog
  <2>5. TheLog' = Append(TheLog, w)
    <3>1. /\ Append(TheLog, w) \in Seq(Writes) /\ Len(Append(TheLog, w)) = n + 1
          /\ \A v \in 1..n : Append(TheLog, w)[v] = TheLog[v]
          /\ Append(TheLog, w)[n + 1] = w
      BY <1>1, <2>1, AppendProperties
    <3>2. \A v \in 1..(n + 1) : TheLog'[v] = Append(TheLog, w)[v]
      BY <1>1, <2>3, <2>4, <3>1
    <3> QED
      BY <2>2, <3>1, <3>2, SeqEqual
  <2>6. Positions[Leader] = n /\ Positions' = [Positions EXCEPT ![Leader] = n + 1]
    BY <1>1, <1>2, <1>6 DEF Positions, IInv
  <2> QED
    BY <1>4, <2>1, <2>5, <2>6 DEF Log!Write, TheLog, Positions
<1> QED
    BY <1>4, <1>5, <1>6

\* A follower's move is a step forward in the log, or it is already further.
LEMMA ApplyCatchesUp ==
    ASSUME IInv, NumbersUsed, NEW w \in Writes, NEW f \in Followers, Apply(w, f)
    PROVE  NumbersUsed' /\ (Log!CatchUp(f) \/ UNCHANGED <<TheLog, Positions>>)
<1>1. /\ UNCHANGED <<version, kept>> /\ f \in Nodes /\ f # Leader
      /\ store' = IF version[w] > store[f].version
                  THEN [store EXCEPT ![f] = [value |-> w, version |-> version[w]]]
                  ELSE store
      /\ store \in [Nodes -> Entry] /\ version \in [Writes -> Nat]
    BY SizeAssumption DEF Apply, IInv, TypeOK, Followers, Nodes, Leader
<1>2. store'[Leader] = store[Leader]
    BY <1>1 DEF Entry
<1>3. NumbersUsed' /\ UNCHANGED TheLog
  <2>1. version' = version /\ kept' = kept
    BY <1>1
  <2>2. NumbersUsed'
    BY <1>2, <2>1 DEF NumbersUsed
  <2>3. TheLog' = TheLog
    BY <1>2, <2>1 DEF TheLog
  <2> QED
    BY <2>2, <2>3
<1>4. CASE Leader \notin kept
    BY <1>1, <1>3, <1>4, LogEnded
<1>5. CASE version[w] <= store[f].version
  <2>1. store' = store
    BY <1>1, <1>5 DEF Entry
  <2> QED
    BY <1>1, <1>3, <2>1 DEF Positions
<1>6. CASE Leader \in kept /\ version[w] > store[f].version
  <2>1. version[w] \in (Positions[f] + 1)..Len(TheLog)
    <3>1. Positions[f] = store[f].version /\ store[f].version \in Nat
      BY <1>1, <1>6 DEF Positions, Entry
    <3>2. Len(TheLog) = store[Leader].version /\ store[Leader].version \in Nat
      BY <1>1, <1>6, LogLength, SizeAssumption DEF IInv, Entry, Nodes, Leader
    <3>3. version[w] <= store[Leader].version
      BY <1>6 DEF IInv, VersionsAssigned
    <3> QED
      BY <1>1, <1>6, <3>1, <3>2, <3>3
  <2>2. Positions' = [Positions EXCEPT ![f] = version[w]]
    BY <1>1, <1>6 DEF Positions
  <2> QED
    BY <1>3, <2>1, <2>2 DEF Log!CatchUp, TheLog, Positions
<1> QED
  <2>1. version[w] \in Nat /\ store[f].version \in Nat
    BY <1>1 DEF Entry
  <2> QED
    BY <1>4, <1>5, <1>6, <2>1

\* A follower that loses its memory starts over, as the log allows.
LEMMA RestartForgets ==
    ASSUME IInv, NumbersUsed, NEW f \in Followers, RestartFollower(f)
    PROVE  NumbersUsed' /\ (Log!Forget(f) \/ UNCHANGED <<TheLog, Positions>>)
<1>1. /\ UNCHANGED version /\ f \in Nodes /\ f # Leader
      /\ store' = [store EXCEPT ![f] = NoEntry] /\ kept' = kept \ {f}
      /\ store \in [Nodes -> Entry]
    BY SizeAssumption DEF RestartFollower, IInv, TypeOK, Followers, Nodes, Leader
<1>2. store'[Leader] = store[Leader] /\ (Leader \in kept' <=> Leader \in kept)
    BY <1>1
<1>3. NumbersUsed' /\ UNCHANGED TheLog
    BY <1>1, <1>2 DEF NumbersUsed, TheLog
<1>4. CASE Leader \notin kept
    BY <1>2, <1>3, <1>4, LogEnded
<1>5. CASE Leader \in kept
  <2>1. Positions' = [Positions EXCEPT ![f] = 0]
    BY <1>1, <1>2, <1>5 DEF Positions, NoEntry
  <2> QED
    BY <1>3, <2>1 DEF Log!Forget, TheLog, Positions
<1> QED
    BY <1>4, <1>5

\* The log ends with the memory of the leader that numbered it.
LEMMA RestartEnds ==
    ASSUME RestartLeader
    PROVE  NumbersUsed' /\ Log!End
<1>1. Leader \notin kept'
    BY DEF RestartLeader
<1>2. TheLog' = <<>> /\ Positions' = [n \in Nodes |-> 0]
    BY <1>1 DEF TheLog, Positions
<1>3. Nodes = {Leader} \cup Followers
    BY SizeAssumption DEF Nodes, Leader, Followers
<1> QED
    BY <1>1, <1>2, <1>3 DEF NumbersUsed, Log!End, TheLog, Positions

\* Every other step leaves what the log speaks of alone.
LEMMA OthersStutter ==
    ASSUME NumbersUsed, UNCHANGED <<store, version, kept>>
    PROVE  NumbersUsed' /\ UNCHANGED <<TheLog, Positions>>
    BY DEF NumbersUsed, TheLog, Positions

\* Leader and followers implement one log of values that replicas follow, for
\* any number of followers and whatever is lost: version v is the v-th write at
\* every node, until the leader restarts.
THEOREM ImplementsOneLog == Spec => ImplementsLog
<1>1. Init => Log!Init /\ NumbersUsed
  <2> SUFFICES ASSUME Init PROVE Log!Init /\ NumbersUsed
    OBVIOUS
  <2>1. Leader \in kept /\ \A n \in Nodes : store[n].version = 0
    BY SizeAssumption DEF Init, Nodes, Leader, NoEntry
  <2>2. Leader \in Nodes /\ Nodes = {Leader} \cup Followers
    BY SizeAssumption DEF Nodes, Leader, Followers
  <2>3. TheLog = <<>>
    <3>1. TheLog \in [1..0 -> Writes]
      BY <2>1, <2>2 DEF TheLog
    <3>2. TheLog \in Seq(Writes) /\ Len(TheLog) = 0
      BY <3>1, SequenceOf
    <3> QED
      BY <3>2, EmptySeq
  <2>4. Positions = [n \in {Leader} \cup Followers |-> 0]
    BY <2>1, <2>2 DEF Positions
  <2> QED
    BY <2>1, <2>2, <2>3, <2>4 DEF Log!Init, NumbersUsed, TheLog, Positions
<1>2. IInv /\ TypeOK' /\ NumbersUsed /\ [Next]_vars => NumbersUsed' /\ [Log!Next]_(Log!vars)
  <2> SUFFICES ASSUME IInv, TypeOK', NumbersUsed, [Next]_vars
               PROVE  NumbersUsed' /\ [Log!Next]_(Log!vars)
    OBVIOUS
  <2>1. ASSUME UNCHANGED <<TheLog, Positions>> PROVE UNCHANGED Log!vars
    BY <2>1 DEF Log!vars, TheLog, Positions
  <2>2. ASSUME NEW w \in Writes, Accept(w) PROVE NumbersUsed' /\ [Log!Next]_(Log!vars)
    BY <2>1, <2>2, AcceptAppends DEF Log!Next
  <2>3. ASSUME NEW w \in Writes, NEW f \in Followers, Apply(w, f)
        PROVE  NumbersUsed' /\ [Log!Next]_(Log!vars)
    BY <2>1, <2>3, ApplyCatchesUp DEF Log!Next
  <2>4. ASSUME NEW f \in Followers, RestartFollower(f)
        PROVE  NumbersUsed' /\ [Log!Next]_(Log!vars)
    BY <2>1, <2>4, RestartForgets DEF Log!Next
  <2>5. CASE RestartLeader
    BY <2>5, RestartEnds DEF Log!Next
  <2>6. CASE UNCHANGED <<store, version, kept>>
    BY <2>1, <2>6, OthersStutter
  <2>7. \/ UNCHANGED <<store, version, kept>>
        \/ \E w \in Writes : Accept(w) \/ \E f \in Followers : Apply(w, f)
        \/ RestartLeader \/ \E f \in Followers : RestartFollower(f)
    BY DEF Next, Send, Reply, Break, ReadLocal, Collect, vars, writeVars, readVars
  <2> QED
    BY <2>2, <2>3, <2>4, <2>5, <2>6, <2>7
<1>3. IInv => TypeOK
    BY DEF IInv
<1> QED
    BY <1>1, <1>2, <1>3, Invariant, PTL DEF Spec, ImplementsLog, Log!Spec

-----------------------------------------------------------------------------
(* The load tester *)

\* The load tester only makes the store's own steps.
LEMMA StepOfStore == [TestNext]_allVars => [Next]_vars
    BY DEF TestNext, StoreStep, RecordWrite, CheckStale, ReadNotFound, Fail, allVars

\* The store under the load tester is the store: its theorems hold here too.
THEOREM DrivesTheStore == TestSpec => Spec
<1>1. TestInit => Init
    BY DEF TestInit
<1> QED
    BY <1>1, StepOfStore, PTL DEF TestSpec, Spec

\* Driven by the load tester, leader and followers implement one log.
THEOREM ImplementsOneLogUnderTest == TestSpec => ImplementsLog
    BY DrivesTheStore, ImplementsOneLog, PTL

-----------------------------------------------------------------------------
(* The inductive invariant *)

\* What was recorded, and by whom.
Recorded ==
    /\ \A w \in recorded : pc[w] = "201"
    /\ tracked = 0 \/ \E w \in recorded : tracked = version[w]
    /\ \A g \in Reads : known[g] \subseteq recorded \cap before[g]
    /\ \A g \in Reads : verdict[g] # "none" => rpc[g] = "done"

\* The writes that are still to be recorded are no older than those recorded
\* without crossing one, and the tracker has not gone back behind these.
InOrder ==
    Leader \in kept => \A w \in recorded \ crossed :
        /\ tracked >= version[w]
        /\ \A x \in Writes \ ended : pc[x] # "start" => version[x] >= version[w]

\* A read that passed the check is as new as what was recorded before it and
\* crossed nothing.
PassedOnlyIfCrossed ==
    Leader \in kept =>
        \A g \in Reads : verdict[g] = "fresh" =>
            \A w \in known[g] \ crossed : best[g].version >= version[w]

TInv == TesterTypeOK /\ Recorded /\ InOrder /\ FlaggedOverlaps /\ PassedOnlyIfCrossed

-----------------------------------------------------------------------------
(* The steps of the store *)

\* A write that was accepted keeps its version, a read that is done its result;
\* what was answered before a read is noted when it leaves its start.
Kept ==
    /\ \A w \in Writes : pc[w] # "start" => version'[w] = version[w]
    /\ \A w \in Writes : pc[w] = "201" => pc'[w] = "201"
    /\ \A g \in Reads : rpc[g] = "done" =>
          rpc'[g] = "done" /\ best'[g] = best[g] /\ before'[g] = before[g]
    /\ \A g \in Reads :
          \/ before'[g] = before[g] /\ (rpc'[g] = rpc[g] \/ rpc[g] # "start")
          \/ rpc[g] = "start" /\ rpc'[g] # "start" /\ before'[g] = {w \in Writes : pc[w] = "201"}
    /\ kept' \subseteq kept

\* No step of the store takes an answer back.
LEMMA StoreKeeps ==
    ASSUME IInv, [Next]_vars
    PROVE  Kept
<1> USE DEF Kept, IInv, TypeOK, writeVars, readVars
<1>1. ASSUME NEW w \in Writes, Accept(w) \/ Reply(w) PROVE Kept
    BY <1>1 DEF Accept, Reply
<1>2. ASSUME NEW w \in Writes, NEW f \in Followers, Send(w, f) \/ Apply(w, f) \/ Break(w, f)
      PROVE  Kept
    BY <1>2 DEF Send, Apply, Break
<1>3. ASSUME NEW g \in Reads, ReadLocal(g) PROVE Kept
    BY <1>3 DEF ReadLocal
<1>4. ASSUME NEW g \in Reads, NEW f \in Followers, Collect(g, f) PROVE Kept
    BY <1>4 DEF Collect
<1>5. ASSUME NEW f \in Followers, RestartFollower(f) PROVE Kept
    BY <1>5 DEF RestartFollower
<1>6. ASSUME RestartLeader PROVE Kept
    BY <1>6 DEF RestartLeader
<1>7. ASSUME UNCHANGED vars PROVE Kept
    BY <1>7 DEF vars
<1> QED
    BY <1>1, <1>2, <1>3, <1>4, <1>5, <1>6, <1>7 DEF Next

\* A write that the leader accepts now gets a version above all it has given.
LEMMA AcceptedLater ==
    ASSUME IInv, [Next]_vars, Leader \in kept', NEW x \in Writes, NEW w \in Writes,
           pc[w] # "start", pc[x] = "start", pc'[x] # "start"
    PROVE  version'[x] >= version[w]
<1>1. Accept(x)
  <2>1. ASSUME NEW y \in Writes, Accept(y) PROVE y = x
    BY <2>1 DEF Accept, IInv, TypeOK
  <2>2. ASSUME NEW y \in Writes, Reply(y) PROVE FALSE
    BY <2>2 DEF Reply, IInv, TypeOK
  <2>3. ASSUME NEW y \in Writes, NEW f \in Followers, Send(y, f) \/ Apply(y, f) \/ Break(y, f)
        PROVE  FALSE
    BY <2>3 DEF Send, Apply, Break
  <2>4. ASSUME NEW g \in Reads, ReadLocal(g) \/ \E f \in Followers : Collect(g, f) PROVE FALSE
    BY <2>4 DEF ReadLocal, Collect, writeVars
  <2>5. ASSUME RestartLeader \/ \E f \in Followers : RestartFollower(f) PROVE FALSE
    BY <2>5 DEF RestartLeader, RestartFollower
  <2>6. ASSUME UNCHANGED vars PROVE FALSE
    BY <2>6 DEF vars, writeVars
  <2> QED
    BY <2>1, <2>2, <2>3, <2>4, <2>5, <2>6 DEF Next
<1>2. /\ Leader \in kept /\ Leader \in Nodes
      /\ version'[x] = store[Leader].version + 1 /\ store[Leader].version \in Nat
    BY <1>1, SizeAssumption DEF Accept, IInv, TypeOK, Nodes, Leader, Entry
<1>3. version[w] <= store[Leader].version /\ version[w] \in Nat
    BY <1>2 DEF IInv, TypeOK, VersionsAssigned
<1> QED
    BY <1>2, <1>3

\* While the tester waits, nothing it knows becomes wrong.
LEMMA StoreStepPreserves ==
    ASSUME IInv, IInv', TInv, StoreStep
    PROVE  TInv'
<1>1. /\ Kept
      /\ known' = [g \in Reads |-> IF rpc[g] # rpc'[g] /\ rpc[g] = "start" THEN recorded ELSE known[g]]
      /\ UNCHANGED <<tracked, ended, verdict, recorded, crossed>>
    BY StoreKeeps DEF StoreStep
<1>2. TypeOK /\ TypeOK'
    BY DEF IInv
<1>3. TesterTypeOK'
    BY <1>1 DEF TInv, TesterTypeOK
<1>4. \A w \in recorded : w \in Writes /\ pc[w] = "201" /\ version'[w] = version[w]
    BY <1>1 DEF TInv, Recorded, TesterTypeOK, Kept
<1>5. \A g \in Reads : verdict[g] # "none" =>
         rpc'[g] = "done" /\ best'[g] = best[g] /\ before'[g] = before[g] /\ known'[g] = known[g]
    BY <1>1 DEF TInv, Recorded, Kept
<1>6. Recorded'
  <2>1. \A w \in recorded' : pc'[w] = "201"
    BY <1>1, <1>4 DEF Kept
  <2>2. tracked' = 0 \/ \E w \in recorded' : tracked' = version'[w]
    BY <1>1, <1>4 DEF TInv, Recorded
  <2>3. ASSUME NEW g \in Reads PROVE known'[g] \subseteq recorded' \cap before'[g]
    <3>1. CASE rpc[g] # rpc'[g] /\ rpc[g] = "start"
      <4>1. before'[g] = {w \in Writes : pc[w] = "201"} /\ known'[g] = recorded
        BY <1>1, <3>1 DEF Kept
      <4> QED
        BY <1>1, <1>4, <4>1
    <3>2. CASE ~(rpc[g] # rpc'[g] /\ rpc[g] = "start")
      <4>1. before'[g] = before[g] /\ known'[g] = known[g]
        BY <1>1, <3>2 DEF Kept
      <4> QED
        BY <1>1, <4>1 DEF TInv, Recorded
    <3> QED
      BY <3>1, <3>2
  <2>4. \A g \in Reads : verdict'[g] # "none" => rpc'[g] = "done"
    BY <1>1, <1>5
  <2> QED
    BY <2>1, <2>2, <2>3, <2>4 DEF Recorded
<1>7. InOrder'
  <2> SUFFICES ASSUME Leader \in kept', NEW w \in recorded \ crossed
               PROVE  /\ tracked >= version'[w]
                      /\ \A x \in Writes \ ended : pc'[x] # "start" => version'[x] >= version'[w]
    BY <1>1 DEF InOrder
  <2>1. Leader \in kept /\ version'[w] = version[w] /\ w \in Writes /\ pc[w] = "201"
    BY <1>1, <1>4 DEF Kept
  <2>2. tracked >= version'[w]
    BY <2>1 DEF TInv, InOrder
  <2>3. ASSUME NEW x \in Writes \ ended, pc'[x] # "start" PROVE version'[x] >= version'[w]
    <3>1. CASE pc[x] # "start"
      BY <1>1, <2>1, <3>1 DEF TInv, InOrder, Kept
    <3>2. CASE pc[x] = "start"
      <4>1. [Next]_vars
        BY DEF StoreStep
      <4> QED
        BY <2>1, <2>3, <3>2, <4>1, AcceptedLater
    <3> QED
      BY <3>1, <3>2
  <2> QED
    BY <2>2, <2>3
<1>8. FlaggedOverlaps'
  <2> SUFFICES ASSUME NEW g \in Reads, verdict[g] = "stale", {Leader, At[g]} \subseteq kept',
                      At[g] = Leader \/ W >= F + 1
               PROVE  \E w \in recorded \ before'[g] : version'[w] > best'[g].version
    BY <1>1 DEF FlaggedOverlaps
  <2>1. PICK w \in recorded \ before[g] : version[w] > best[g].version
    BY <1>1 DEF TInv, FlaggedOverlaps, Kept
  <2> QED
    BY <1>4, <1>5, <2>1
<1>9. PassedOnlyIfCrossed'
  <2> SUFFICES ASSUME Leader \in kept', NEW g \in Reads, verdict[g] = "fresh",
                      NEW w \in known'[g] \ crossed
               PROVE  best'[g].version >= version'[w]
    BY <1>1 DEF PassedOnlyIfCrossed
  <2>1. Leader \in kept /\ known'[g] = known[g] /\ best'[g] = best[g]
    BY <1>1, <1>5 DEF Kept
  <2>2. w \in recorded
    BY <2>1 DEF TInv, Recorded
  <2> QED
    BY <1>4, <2>1, <2>2 DEF TInv, PassedOnlyIfCrossed
<1> QED
    BY <1>3, <1>6, <1>7, <1>8, <1>9 DEF TInv

-----------------------------------------------------------------------------
(* The steps of the workers *)

\* The tracker takes a version that is no older than those before, unless the
\* write crossed an older one.
LEMMA RecordWritePreserves ==
    ASSUME IInv, TInv, NEW w \in Writes, RecordWrite(w)
    PROVE  TInv'
<1>1. /\ w \notin ended /\ pc[w] = "201" /\ tracked' = version[w]
      /\ ended' = ended \cup {w} /\ recorded' = recorded \cup {w}
      /\ crossed' = IF \E x \in Pending \cap Writes : version[x] < version[w]
                    THEN crossed \cup {w} ELSE crossed
      /\ UNCHANGED <<pc, version, store, rpc, best, before, kept, verdict, known>>
    BY DEF RecordWrite, vars, writeVars, readVars
<1>2. version \in [Writes -> Nat]
    BY DEF IInv, TypeOK
<1>3. TesterTypeOK'
    BY <1>1, <1>2 DEF TInv, TesterTypeOK
<1>4. Recorded'
    BY <1>1 DEF TInv, Recorded
<1>5. InOrder'
  <2> SUFFICES ASSUME Leader \in kept, NEW v \in recorded' \ crossed'
               PROVE  /\ version[w] >= version[v]
                      /\ \A x \in Writes \ ended' : pc[x] # "start" => version[x] >= version[v]
    BY <1>1 DEF InOrder
  <2>1. CASE v = w
    <3>1. \A x \in Pending \cap Writes : ~(version[x] < version[w])
      BY <1>1, <2>1
    <3>2. ASSUME NEW x \in Writes \ ended', pc[x] # "start" PROVE version[x] >= version[w]
      <4>1. x \in Pending \cap Writes
        BY <1>1, <3>2 DEF Pending
      <4> QED
        BY <1>2, <3>1, <4>1
    <3> QED
      BY <1>2, <2>1, <3>2
  <2>2. CASE v # w
    <3>1. v \in recorded \ crossed
      BY <1>1, <2>2
    <3> QED
      BY <1>1, <3>1 DEF TInv, InOrder
  <2> QED
    BY <2>1, <2>2
<1>6. FlaggedOverlaps'
    BY <1>1 DEF TInv, FlaggedOverlaps
<1>7. PassedOnlyIfCrossed'
    BY <1>1 DEF TInv, PassedOnlyIfCrossed
<1> QED
    BY <1>3, <1>4, <1>5, <1>6, <1>7 DEF TInv

\* A read that is reported is older than a write that cannot have been answered
\* before it; one that is not is as new as the tracker.
LEMMA CheckStalePreserves ==
    ASSUME IInv, TInv, NEW g \in Reads, CheckStale(g)
    PROVE  TInv'
<1>1. /\ rpc[g] = "done" /\ ended' = ended \cup {g}
      /\ verdict' = [verdict EXCEPT ![g] = IF best[g].version < tracked THEN "stale" ELSE "fresh"]
      /\ UNCHANGED <<pc, version, store, rpc, best, before, kept, tracked, recorded, known, crossed>>
    BY DEF CheckStale, vars, writeVars, readVars
<1>2. /\ version \in [Writes -> Nat] /\ best[g].version \in Nat /\ tracked \in Nat
      /\ recorded \subseteq Writes
    BY DEF IInv, TypeOK, Entry, TInv, TesterTypeOK
<1>3. TesterTypeOK'
    BY <1>1 DEF TInv, TesterTypeOK
<1>4. \A x \in Reads : x # g => verdict'[x] = verdict[x]
    BY <1>1 DEF TInv, TesterTypeOK
<1>5. verdict'[g] = IF best[g].version < tracked THEN "stale" ELSE "fresh"
    BY <1>1 DEF TInv, TesterTypeOK
<1>6. Recorded'
    BY <1>1, <1>4 DEF TInv, Recorded
<1>7. InOrder'
    BY <1>1 DEF TInv, InOrder
<1>8. FlaggedOverlaps'
  <2> SUFFICES ASSUME NEW x \in Reads, verdict'[x] = "stale", {Leader, At[x]} \subseteq kept,
                      At[x] = Leader \/ W >= F + 1
               PROVE  \E w \in recorded \ before[x] : version[w] > best[x].version
    BY <1>1 DEF FlaggedOverlaps
  <2>1. CASE x = g
    <3>1. best[g].version < tracked
      BY <1>5, <2>1
    <3>2. PICK w \in recorded : tracked = version[w]
      BY <1>2, <3>1 DEF TInv, Recorded
    <3>3. \A v \in before[g] : best[g].version >= version[v]
      BY <1>1, <2>1 DEF IInv, ReadsFresh, Served
    <3>4. w \notin before[g]
      BY <1>2, <3>1, <3>2, <3>3
    <3> QED
      BY <1>2, <2>1, <3>1, <3>2, <3>4
  <2>2. CASE x # g
    BY <1>4, <2>2 DEF TInv, FlaggedOverlaps
  <2> QED
    BY <2>1, <2>2
<1>9. PassedOnlyIfCrossed'
  <2> SUFFICES ASSUME Leader \in kept, NEW x \in Reads, verdict'[x] = "fresh",
                      NEW w \in known[x] \ crossed
               PROVE  best[x].version >= version[w]
    BY <1>1 DEF PassedOnlyIfCrossed
  <2>1. CASE x = g
    <3>1. ~(best[g].version < tracked)
      BY <1>5, <2>1
    <3>2. w \in recorded /\ tracked >= version[w]
      BY DEF TInv, Recorded, InOrder
    <3> QED
      BY <1>2, <2>1, <3>1, <3>2
  <2>2. CASE x # g
    BY <1>4, <2>2 DEF TInv, PassedOnlyIfCrossed
  <2> QED
    BY <2>1, <2>2
<1> QED
    BY <1>3, <1>6, <1>7, <1>8, <1>9 DEF TInv

\* A 404 is no verdict that the invariant speaks of.
LEMMA ReadNotFoundPreserves ==
    ASSUME TInv, NEW g \in Reads, ReadNotFound(g)
    PROVE  TInv'
<1>1. /\ rpc[g] = "done" /\ ended' = ended \cup {g}
      /\ verdict' = [verdict EXCEPT ![g] = "unchecked"]
      /\ UNCHANGED <<pc, version, store, rpc, best, before, kept, tracked, recorded, known, crossed>>
    BY DEF ReadNotFound, vars, writeVars, readVars
<1>2. verdict'[g] = "unchecked" /\ \A x \in Reads : x # g => verdict'[x] = verdict[x]
    BY <1>1 DEF TInv, TesterTypeOK
<1>3. TesterTypeOK'
    BY <1>1 DEF TInv, TesterTypeOK
<1>4. Recorded' /\ InOrder'
    BY <1>1, <1>2 DEF TInv, Recorded, InOrder
<1>5. FlaggedOverlaps' /\ PassedOnlyIfCrossed'
    BY <1>1, <1>2 DEF TInv, FlaggedOverlaps, PassedOnlyIfCrossed
<1> QED
    BY <1>3, <1>4, <1>5 DEF TInv

\* A request without an answer leaves tracker and verdicts as they are.
LEMMA FailPreserves ==
    ASSUME TInv, NEW q \in Writes \cup Reads, Fail(q)
    PROVE  TInv'
<1>1. /\ ended' = ended \cup {q}
      /\ UNCHANGED <<pc, version, rpc, best, before, kept, tracked, verdict, recorded, known, crossed>>
    BY DEF Fail, vars, writeVars, readVars
<1> QED
    BY <1>1 DEF TInv, TesterTypeOK, Recorded, InOrder, FlaggedOverlaps, PassedOnlyIfCrossed

-----------------------------------------------------------------------------
(* The theorems *)

\* The invariant of store and load tester.
THEOREM TesterInvariant == TestSpec => [](IInv /\ TInv)
<1>1. TestInit => TInv
    BY DEF TestInit, NewTracker, Init, TInv, TesterTypeOK, Recorded, InOrder, FlaggedOverlaps,
           PassedOnlyIfCrossed
<1>2. IInv /\ IInv' /\ TInv /\ [TestNext]_allVars => TInv'
  <2> SUFFICES ASSUME IInv, IInv', TInv, [TestNext]_allVars PROVE TInv'
    OBVIOUS
  <2>1. CASE UNCHANGED allVars
    BY <2>1 DEF allVars, vars, writeVars, readVars, testerVars, TInv, TesterTypeOK, Recorded,
                InOrder, FlaggedOverlaps, PassedOnlyIfCrossed
  <2> QED
    BY <2>1, StoreStepPreserves, RecordWritePreserves, CheckStalePreserves, ReadNotFoundPreserves,
       FailPreserves
       DEF TestNext
<1> QED
    BY <1>1, <1>2, DrivesTheStore, Invariant, PTL DEF TestSpec

\* Tracker, verdicts and records always have their types.
THEOREM TesterTypeCorrect == TestSpec => []TesterTypeOK
<1>1. TInv => TesterTypeOK
    BY DEF TInv
<1> QED
    BY <1>1, TesterInvariant, PTL

\* A read reported as stale where the store promises fresh ones overlapped the
\* write it is said to have missed.
THEOREM NothingMissedIsReported == TestSpec => []FlaggedOverlaps
<1>1. TInv => FlaggedOverlaps
    BY DEF TInv
<1> QED
    BY <1>1, TesterInvariant, PTL

\* A stale read goes unreported only where two workers' writes crossed, or where
\* a node that need not have the write yet, or has lost it, answered 404.
THEOREM MissesAreExplained == TestSpec => []MissesExplained
<1>1. IInv /\ TInv => MissesExplained
  <2> SUFFICES ASSUME IInv, TInv, Leader \in kept, NEW g \in Reads, NEW w \in known[g],
                      verdict[g] \in {"fresh", "unchecked"}, best[g].version < version[w]
               PROVE  \/ verdict[g] = "fresh" /\ w \in crossed
                      \/ verdict[g] = "unchecked" /\ ~Served(g)
    BY SizeAssumption DEF MissesExplained, Served
  <2>1. /\ w \in before[g] /\ rpc[g] = "done" /\ w \in Writes
        /\ version[w] \in Nat /\ best[g].version \in Nat
    BY DEF TInv, Recorded, TesterTypeOK, IInv, TypeOK, Entry
  <2>2. CASE verdict[g] = "fresh"
    BY <2>1, <2>2 DEF TInv, PassedOnlyIfCrossed
  <2>3. CASE verdict[g] = "unchecked"
    BY <2>1, <2>3 DEF IInv, ReadsFresh
  <2> QED
    BY <2>2, <2>3
<1> QED
    BY <1>1, TesterInvariant, PTL
=============================================================================
