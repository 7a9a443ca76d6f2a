-------------------------- MODULE LeaderlessProofs --------------------------
(***************************************************************************)
(* Proofs about Leaderless, for any number of nodes, any writes at any     *)
(* coordinators, with or without lost requests, whatever nodes restart.    *)
(***************************************************************************)
EXTENDS Leaderless, TLAPS

\* Every step, whatever it does, keeps the variables' types.
LEMMA TypePreserved == TypeOK /\ [Next]_vars => TypeOK'
<1> SUFFICES ASSUME TypeOK, [Next]_vars PROVE TypeOK'
    OBVIOUS
<1> USE DEF TypeOK, Nodes, Peers, Entry, NoEntry
<1>1. ASSUME NEW w \in Writes, Accept(w) PROVE TypeOK'
  <2> DEFINE v == store[At[w]].version + 1
  <2>1. v \in Nat /\ At[w] \in Nodes
    BY WritesAssumption
  <2>2. /\ store' = [store EXCEPT ![At[w]] = [value |-> w, version |-> v]]
        /\ version' = [version EXCEPT ![w] = v] /\ pc' = [pc EXCEPT ![w] = "wait"]
        /\ UNCHANGED <<call, inbox, kept>>
    BY <1>1 DEF Accept
  <2> HIDE DEF v
  <2> QED
    BY <2>1, <2>2
<1>2. ASSUME NEW w \in Writes, Reply(w) PROVE TypeOK'
    BY <1>2 DEF Reply
<1>3. ASSUME NEW w \in Writes, NEW n \in Nodes, Send(w, n) PROVE TypeOK'
  <2>1. PICK c \in {"sent", "failed"} : call' = [call EXCEPT ![w][n] = c]
    BY <1>3 DEF Send
  <2>2. inbox' \subseteq Writes \X Nodes /\ UNCHANGED <<store, pc, version, kept>>
    BY <1>3 DEF Send
  <2> QED
    BY <2>1, <2>2
<1>4. ASSUME NEW w \in Writes, NEW n \in Nodes, Apply(w, n) PROVE TypeOK'
    BY <1>4 DEF Apply
<1>5. ASSUME NEW w \in Writes, NEW n \in Nodes, Break(w, n) PROVE TypeOK'
    BY <1>5 DEF Break
<1>6. ASSUME NEW n \in Nodes, Restart(n) PROVE TypeOK'
    BY <1>6 DEF Restart
<1>7. ASSUME UNCHANGED vars PROVE TypeOK'
    BY <1>7 DEF vars
<1> QED
    BY <1>1, <1>2, <1>3, <1>4, <1>5, <1>6, <1>7 DEF Next

-----------------------------------------------------------------------------
(* The inductive invariant *)

\* A peer that acknowledged a write and keeps its memory holds that version or a
\* newer one; a write that was not accepted has been sent to nobody.
CallsHonest ==
    \A w \in Writes, n \in Nodes :
        /\ call[w][n] = "ok" /\ n \in kept => store[n].version >= version[w]
        /\ call[w][n] # "unsent" \/ <<w, n>> \in inbox => pc[w] # "start"

\* A 201 was given when every peer had acknowledged.
AllAcked == \A w \in Writes : pc[w] = "201" => \A n \in Peers(At[w]) : call[w][n] = "ok"

IInv == TypeOK /\ CoordinatorConsistent /\ CallsHonest /\ AllAcked

\* A new write gets a number above its coordinator's own, whatever coordinated
\* the entry that is there.
LEMMA AcceptPreserves ==
    ASSUME IInv, TypeOK', NEW w \in Writes, Accept(w)
    PROVE  IInv'
<1> DEFINE v == store[At[w]].version + 1
<1> USE WritesAssumption DEF TypeOK, Nodes, Entry
<1>1. /\ pc[w] = "start"
      /\ store' = [store EXCEPT ![At[w]] = [value |-> w, version |-> v]]
      /\ version' = [version EXCEPT ![w] = v]
      /\ pc' = [pc EXCEPT ![w] = "wait"]
      /\ UNCHANGED <<call, inbox, kept>>
    BY DEF Accept
<1>2. /\ v \in Nat /\ v > 0
      /\ \A n \in Nodes : store'[n].version >= store[n].version
    BY <1>1 DEF IInv
<1>3. \A x \in Writes : x # w => version'[x] = version[x] /\ pc'[x] = pc[x]
    BY <1>1 DEF IInv
<1>4. CoordinatorConsistent'
  <2> SUFFICES ASSUME NEW x \in Writes, At[x] \in kept, pc'[x] # "start"
               PROVE  /\ store'[At[x]].version >= version'[x]
                      /\ store'[At[x]].version = version'[x] => store'[At[x]].value = x
    BY <1>1 DEF CoordinatorConsistent, Get
  <2>1. CASE x = w
    BY <1>1, <1>2, <2>1 DEF IInv
  <2>2. CASE x # w
    <3>1. /\ store[At[x]].version >= version[x]
          /\ store[At[x]].version = version[x] => store[At[x]].value = x
      BY <1>3, <2>2 DEF IInv, CoordinatorConsistent, Get
    <3>2. CASE At[x] = At[w]
      BY <1>1, <1>2, <1>3, <2>2, <3>1, <3>2 DEF IInv
    <3>3. CASE At[x] # At[w]
      BY <1>1, <1>3, <2>2, <3>1, <3>3 DEF IInv
    <3> QED
      BY <3>2, <3>3
  <2> QED
    BY <2>1, <2>2
<1>5. CallsHonest'
  <2> SUFFICES ASSUME NEW x \in Writes, NEW n \in Nodes
               PROVE  /\ call[x][n] = "ok" /\ n \in kept => store'[n].version >= version'[x]
                      /\ call[x][n] # "unsent" \/ <<x, n>> \in inbox => pc'[x] # "start"
    BY <1>1 DEF CallsHonest
  <2>1. CASE x = w
    BY <1>1, <2>1 DEF IInv, CallsHonest
  <2>2. CASE x # w
    BY <1>2, <1>3, <2>2 DEF IInv, CallsHonest
  <2> QED
    BY <2>1, <2>2
<1>6. AllAcked'
    BY <1>1 DEF IInv, AllAcked
<1> QED
    BY <1>4, <1>5, <1>6 DEF IInv

\* A request on its way, or its loss, changes neither memories nor acknowledgements.
LEMMA SendPreserves ==
    ASSUME IInv, TypeOK', NEW w \in Writes, NEW n \in Nodes, Send(w, n) \/ Break(w, n)
    PROVE  IInv'
<1> USE DEF TypeOK
<1>1. PICK c \in {"sent", "failed"} : call' = [call EXCEPT ![w][n] = c]
    BY DEF Send, Break
<1>2. /\ UNCHANGED <<store, pc, version, kept>>
      /\ call[w][n] # "ok" /\ pc[w] # "start"
      /\ inbox' \subseteq inbox \cup {<<w, n>>}
    BY DEF Send, Break, IInv, CallsHonest
<1>3. CoordinatorConsistent'
    BY <1>2 DEF IInv, CoordinatorConsistent, Get
<1>4. CallsHonest'
    BY <1>1, <1>2 DEF IInv, CallsHonest
<1>5. AllAcked'
    BY <1>1, <1>2, WritesAssumption DEF IInv, AllAcked, Peers, Nodes
<1> QED
    BY <1>3, <1>4, <1>5 DEF IInv

\* A peer moves to a request only if it is newer than all it has, its own writes
\* included, and has caught up with it when it acknowledges.
LEMMA ApplyPreserves ==
    ASSUME IInv, TypeOK', NEW w \in Writes, NEW n \in Nodes, Apply(w, n)
    PROVE  IInv'
<1> USE WritesAssumption DEF TypeOK, Entry
<1>1. /\ UNCHANGED <<pc, version, kept>>
      /\ <<w, n>> \in inbox /\ inbox' \subseteq inbox
      /\ store' = IF version[w] > store[n].version
                  THEN [store EXCEPT ![n] = [value |-> w, version |-> version[w]]]
                  ELSE store
      /\ call' = IF call[w][n] = "sent" THEN [call EXCEPT ![w][n] = "ok"] ELSE call
    BY DEF Apply
<1>2. /\ store'[n].version >= version[w]
      /\ \A m \in Nodes : \/ store'[m] = store[m]
                          \/ store'[m].version > store[m].version
    BY <1>1 DEF IInv
<1>3. \A m \in Nodes : store[m].version \in Nat /\ store'[m].version \in Nat
    BY DEF IInv
<1>4. CoordinatorConsistent'
  <2> SUFFICES ASSUME NEW x \in Writes, At[x] \in kept, pc[x] # "start"
               PROVE  /\ store'[At[x]].version >= version[x]
                      /\ store'[At[x]].version = version[x] => store'[At[x]].value = x
    BY <1>1 DEF CoordinatorConsistent, Get
  <2>1. /\ store[At[x]].version >= version[x]
        /\ store[At[x]].version = version[x] => store[At[x]].value = x
    BY DEF IInv, CoordinatorConsistent, Get
  <2>2. At[x] \in Nodes /\ version[x] \in Nat
    BY DEF IInv, Nodes
  <2> QED
    BY <1>2, <1>3, <2>1, <2>2
<1>5. CallsHonest'
  <2> SUFFICES ASSUME NEW x \in Writes, NEW m \in Nodes
               PROVE  /\ call'[x][m] = "ok" /\ m \in kept => store'[m].version >= version[x]
                      /\ call'[x][m] # "unsent" \/ <<x, m>> \in inbox' => pc[x] # "start"
    BY <1>1 DEF CallsHonest
  <2>1. call'[x][m] = call[x][m] \/ (x = w /\ m = n)
    BY <1>1 DEF IInv
  <2>2. CASE x = w /\ m = n
    BY <1>1, <1>2, <2>2 DEF IInv, CallsHonest
  <2>3. CASE call'[x][m] = call[x][m]
    <3>1. store'[m] = store[m] \/ store'[m].version > store[m].version
      BY <1>2
    <3>2. version[x] \in Nat
      BY DEF IInv
    <3> QED
      BY <1>1, <1>3, <2>3, <3>1, <3>2 DEF IInv, CallsHonest
  <2> QED
    BY <2>1, <2>2, <2>3
<1>6. AllAcked'
    BY <1>1 DEF IInv, AllAcked, Peers, Nodes
<1> QED
    BY <1>4, <1>5, <1>6 DEF IInv

\* The coordinator answers 201 only when all its peers have acknowledged.
LEMMA ReplyPreserves ==
    ASSUME IInv, TypeOK', NEW w \in Writes, Reply(w)
    PROVE  IInv'
<1> USE DEF TypeOK
<1>1. /\ UNCHANGED <<store, version, call, inbox, kept>> /\ pc[w] = "wait"
      /\ pc' = [pc EXCEPT ![w] = IF \A n \in Peers(At[w]) : call[w][n] = "ok"
                                 THEN "201" ELSE "500"]
    BY DEF Reply
<1>2. CoordinatorConsistent' /\ CallsHonest'
    BY <1>1 DEF IInv, CoordinatorConsistent, Get, CallsHonest
<1>3. AllAcked'
    BY <1>1 DEF IInv, AllAcked
<1> QED
    BY <1>2, <1>3 DEF IInv

\* Nothing relies on the memory of a node that restarted.
LEMMA RestartPreserves ==
    ASSUME IInv, TypeOK', NEW n \in Nodes, Restart(n)
    PROVE  IInv'
<1> USE WritesAssumption DEF TypeOK
<1>1. /\ UNCHANGED version
      /\ store' = [store EXCEPT ![n] = NoEntry] /\ kept' = kept \ {n}
      /\ pc' = [w \in Writes |-> IF At[w] = n /\ pc[w] = "wait" THEN "dead" ELSE pc[w]]
      /\ inbox' \subseteq inbox
      /\ call' = [w \in Writes |-> [m \in Nodes |->
                     IF m = n /\ call[w][m] = "sent" THEN "failed" ELSE call[w][m]]]
    BY DEF Restart
<1>2. \A m \in kept' : m \in kept /\ store'[m] = store[m]
    BY <1>1 DEF IInv
<1>3. \A w \in Writes : pc'[w] = "start" <=> pc[w] = "start"
    BY <1>1 DEF IInv
<1>4. \A w \in Writes, m \in Nodes :
          call'[w][m] = call[w][m] \/ (call[w][m] = "sent" /\ call'[w][m] = "failed")
  <2> SUFFICES ASSUME NEW w \in Writes, NEW m \in Nodes
               PROVE  call'[w][m] = call[w][m] \/ (call[w][m] = "sent" /\ call'[w][m] = "failed")
    OBVIOUS
  <2>1. call'[w][m] = IF m = n /\ call[w][m] = "sent" THEN "failed" ELSE call[w][m]
    BY <1>1
  <2> QED
    BY <2>1
<1>5. CoordinatorConsistent'
    BY <1>1, <1>2, <1>3 DEF IInv, CoordinatorConsistent, Get
<1>6. CallsHonest'
  <2> SUFFICES ASSUME NEW w \in Writes, NEW m \in Nodes
               PROVE  /\ call'[w][m] = "ok" /\ m \in kept' => store'[m].version >= version'[w]
                      /\ call'[w][m] # "unsent" \/ <<w, m>> \in inbox' => pc'[w] # "start"
    BY DEF CallsHonest
  <2> QED
    BY <1>1, <1>2, <1>3, <1>4 DEF IInv, CallsHonest
<1>7. AllAcked'
  <2>1. \A w \in Writes : pc'[w] = "201" => pc[w] = "201"
    BY <1>1 DEF IInv
  <2> QED
    BY <1>4, <2>1 DEF IInv, AllAcked, Peers
<1> QED
    BY <1>5, <1>6, <1>7 DEF IInv

\* Every step preserves the invariant.
LEMMA NextPreserves == IInv /\ [Next]_vars => IInv'
<1> SUFFICES ASSUME IInv, [Next]_vars PROVE IInv'
    OBVIOUS
<1>1. TypeOK'
    BY TypePreserved DEF IInv
<1>2. CASE UNCHANGED vars
    BY <1>1, <1>2 DEF vars, IInv, CoordinatorConsistent, Get, CallsHonest, AllAcked
<1>3. CASE Next
    BY <1>1, <1>3, AcceptPreserves, SendPreserves, ApplyPreserves, ReplyPreserves,
        RestartPreserves DEF Next
<1> QED
    BY <1>2, <1>3

-----------------------------------------------------------------------------
(* The theorems *)

\* The invariant of the store: what every coordinator may rely on, and what an
\* acknowledgement and an answer mean.
THEOREM Invariant == Spec => []IInv
<1>1. Init => IInv
    BY DEF Init, IInv, TypeOK, CoordinatorConsistent, CallsHonest, AllAcked, Nodes, Entry, NoEntry
<1> QED
    BY <1>1, NextPreserves, PTL DEF Spec

\* The tables, handlers and requests of the store always have their types.
THEOREM TypeCorrect == Spec => []TypeOK
<1>1. IInv => TypeOK
    BY DEF IInv
<1> QED
    BY <1>1, Invariant, PTL

\* The coordinator of a write returns that value or a newer version.
THEOREM CoordinatorKeepsItsWrites == Spec => []CoordinatorConsistent
<1>1. IInv => CoordinatorConsistent
    BY DEF IInv
<1> QED
    BY <1>1, Invariant, PTL

\* A write answered 201 is on every node that keeps its memory, or a version
\* that is not older, in whatever order the requests of all coordinators came.
THEOREM AckedIsEverywhere == Spec => []AckedEverywhere
<1>1. IInv => AckedEverywhere
  <2> SUFFICES ASSUME IInv, NEW w \in Writes, pc[w] = "201", NEW n \in kept
               PROVE  store[n].version >= version[w]
    BY DEF AckedEverywhere
  <2>1. n \in Nodes
    BY DEF IInv, TypeOK
  <2>2. CASE n = At[w]
    BY <2>2 DEF IInv, CoordinatorConsistent, Get
  <2>3. CASE n # At[w]
    BY <2>1, <2>3 DEF IInv, AllAcked, CallsHonest, Peers
  <2> QED
    BY <2>2, <2>3
<1> QED
    BY <1>1, Invariant, PTL

-----------------------------------------------------------------------------
(* What nodes may disagree about *)

\* Every entry is a write's, under the number its coordinator gave it.
EntriesWritten ==
    \A n \in Nodes : store[n] # NoEntry =>
        /\ store[n].value \in Writes /\ pc[store[n].value] # "start"
        /\ store[n].version = version[store[n].value]

\* A coordinator that keeps its memory numbers its writes apart.
OwnNumbers ==
    \A w, x \in Writes : w # x /\ At[w] = At[x] /\ At[w] \in kept =>
        pc[w] = "start" \/ pc[x] = "start" \/ version[w] # version[x]

\* Nodes that have one version of the key disagree about its value only if two
\* coordinators wrote it, or one that lost its memory in between.
DisagreeAcrossOnly ==
    \A n, m \in Nodes :
        /\ store[n] # NoEntry /\ store[m] # NoEntry /\ store[n].version = store[m].version
        /\ At[store[n].value] = At[store[m].value] /\ At[store[n].value] \in kept
        => store[n].value = store[m].value

\* A node's own writes have numbers up to its own, so that the next has another.
LEMMA OwnNumbersPreserved ==
    ASSUME IInv, OwnNumbers, [Next]_vars
    PROVE  OwnNumbers'
<1> DEFINE Same == /\ version' = version /\ kept' \subseteq kept
                   /\ \A w \in Writes : pc[w] = "start" => pc'[w] = "start"
<1> USE WritesAssumption DEF TypeOK
<1>1. ASSUME NEW w \in Writes, Accept(w) PROVE OwnNumbers'
  <2>1. /\ pc[w] = "start" /\ version' = [version EXCEPT ![w] = store[At[w]].version + 1]
        /\ pc' = [pc EXCEPT ![w] = "wait"] /\ kept' = kept
    BY <1>1 DEF Accept
  <2>2. ASSUME NEW x \in Writes, x # w, At[x] = At[w], At[x] \in kept, pc[x] # "start"
        PROVE  version'[x] # version'[w]
    <3>1. store[At[x]].version >= version[x]
      BY <2>2 DEF IInv, CoordinatorConsistent, Get
    <3>2. store[At[x]].version \in Nat /\ version[x] \in Nat
      BY DEF IInv, Entry, Nodes
    <3>3. version'[x] = version[x] /\ version'[w] = store[At[x]].version + 1
      BY <2>1, <2>2 DEF IInv
    <3> QED
      BY <3>1, <3>2, <3>3
  <2>3. \A x \in Writes : x # w => version'[x] = version[x] /\ pc'[x] = pc[x]
    BY <2>1 DEF IInv
  <2> QED
    BY <2>1, <2>2, <2>3 DEF OwnNumbers
<1>2. CASE Same
    BY <1>2 DEF OwnNumbers
<1>3. ASSUME NEW w \in Writes, Reply(w) PROVE Same
    BY <1>3 DEF Reply, IInv
<1>4. ASSUME NEW w \in Writes, NEW n \in Nodes, Send(w, n) \/ Apply(w, n) \/ Break(w, n) PROVE Same
    BY <1>4 DEF Send, Apply, Break
<1>5. ASSUME NEW n \in Nodes, Restart(n) PROVE Same
    BY <1>5 DEF Restart, IInv
<1>6. CASE UNCHANGED vars
    BY <1>2, <1>6 DEF vars
<1> QED
    BY <1>1, <1>2, <1>3, <1>4, <1>5, <1>6 DEF Next

\* Entries come from coordinators and from their requests.
LEMMA EntriesWrittenPreserved ==
    ASSUME IInv, EntriesWritten, [Next]_vars
    PROVE  EntriesWritten'
<1> DEFINE Same == /\ version' = version
                   /\ \A n \in Nodes : store'[n] \in {store[n], NoEntry}
                   /\ \A w \in Writes : pc[w] # "start" => pc'[w] # "start"
<1> USE WritesAssumption DEF TypeOK
<1>1. ASSUME NEW w \in Writes, Accept(w) PROVE EntriesWritten'
  <2>1. /\ pc[w] = "start" /\ version' = [version EXCEPT ![w] = store[At[w]].version + 1]
        /\ pc' = [pc EXCEPT ![w] = "wait"]
        /\ store' = [store EXCEPT ![At[w]] = [value |-> w, version |-> store[At[w]].version + 1]]
    BY <1>1 DEF Accept
  <2>2. \A x \in Writes : x # w => version'[x] = version[x] /\ pc'[x] = pc[x]
    BY <2>1 DEF IInv
  <2>3. pc'[w] # "start" /\ version'[w] = store[At[w]].version + 1
    BY <2>1 DEF IInv
  <2>4. \A n \in Nodes : n # At[w] => store'[n] = store[n]
    BY <2>1 DEF IInv
  <2>5. store'[At[w]] = [value |-> w, version |-> version'[w]]
    BY <2>1, <2>3 DEF IInv, Nodes
  <2>6. \A n \in Nodes : store[n] # NoEntry => store[n].value # w
    BY <2>1 DEF EntriesWritten
  <2> QED
    BY <2>2, <2>3, <2>4, <2>5, <2>6 DEF EntriesWritten
<1>2. ASSUME NEW w \in Writes, NEW n \in Nodes, Apply(w, n) PROVE EntriesWritten'
  <2>1. pc' = pc /\ version' = version /\ pc[w] # "start"
    BY <1>2 DEF Apply, IInv, CallsHonest
  <2>2. \A m \in Nodes : store'[m] = store[m] \/ store'[m] = [value |-> w, version |-> version[w]]
    BY <1>2 DEF Apply, IInv
  <2> QED
    BY <2>1, <2>2 DEF EntriesWritten
<1>3. CASE Same
    BY <1>3 DEF EntriesWritten
<1>4. ASSUME NEW w \in Writes, Reply(w) PROVE Same
    BY <1>4 DEF Reply, IInv
<1>5. ASSUME NEW w \in Writes, NEW n \in Nodes, Send(w, n) \/ Break(w, n) PROVE Same
    BY <1>5 DEF Send, Break
<1>6. ASSUME NEW n \in Nodes, Restart(n) PROVE Same
    BY <1>6 DEF Restart, IInv
<1>7. CASE UNCHANGED vars
    BY <1>3, <1>7 DEF vars
<1> QED
    BY <1>1, <1>2, <1>3, <1>4, <1>5, <1>6, <1>7 DEF Next

\* Two values under one version have different coordinators, or one that
\* restarted, wherever they are and in whatever order requests came.
THEOREM DisagreementHasTwoCoordinators == Spec => []DisagreeAcrossOnly
<1>1. Init => EntriesWritten /\ OwnNumbers
    BY WritesAssumption DEF Init, EntriesWritten, OwnNumbers, Nodes
<1>2. IInv /\ EntriesWritten /\ OwnNumbers /\ [Next]_vars => (EntriesWritten /\ OwnNumbers)'
    BY EntriesWrittenPreserved, OwnNumbersPreserved
<1>3. EntriesWritten /\ OwnNumbers => DisagreeAcrossOnly
    BY DEF EntriesWritten, OwnNumbers, DisagreeAcrossOnly
<1> QED
    BY <1>1, <1>2, <1>3, Invariant, PTL DEF Spec

\* When every write that was accepted has been answered 201, the nodes that kept
\* their memory have one version of the key.
SettledAgree ==
    (\A w \in Writes : pc[w] \in {"start", "201"}) =>
        \A n, m \in kept : store[n].version = store[m].version

\* Whatever the writes were, however many coordinators took them: a node has no
\* version that is not some write's, and each of these is everywhere.
THEOREM SettledNodesAgree == Spec => []SettledAgree
<1>1. Init => EntriesWritten
    BY DEF Init, EntriesWritten
<1>2. IInv /\ EntriesWritten /\ [Next]_vars => EntriesWritten'
    BY EntriesWrittenPreserved
<1>3. IInv /\ EntriesWritten /\ AckedEverywhere => SettledAgree
  <2>1. SUFFICES ASSUME IInv, EntriesWritten, AckedEverywhere,
                        \A w \in Writes : pc[w] \in {"start", "201"}, NEW n \in kept, NEW m \in kept
                 PROVE  store[n].version = store[m].version
    BY DEF SettledAgree
  <2>2. \A k \in kept : k \in Nodes /\ store[k].version \in Nat
    BY <2>1 DEF IInv, TypeOK, Entry
  <2>3. ASSUME NEW k \in kept, NEW l \in kept PROVE store[k].version >= store[l].version
    <3>1. CASE store[l] = NoEntry
      BY <2>2, <3>1 DEF NoEntry
    <3>2. CASE store[l] # NoEntry
      <4>1. store[l].value \in Writes /\ pc[store[l].value] = "201" /\ store[l].version = version[store[l].value]
        BY <2>1, <2>2, <3>2 DEF EntriesWritten
      <4> QED
        BY <2>1, <4>1 DEF AckedEverywhere
    <3> QED
      BY <3>1, <3>2
  <2> QED
    BY <2>2, <2>3
<1> QED
    BY <1>1, <1>2, <1>3, Invariant, AckedIsEverywhere, PTL DEF Spec

\* A step replaces the entry of a node that keeps its memory only by one of a
\* higher version: what a read of it returned is never taken back.
EntriesOnlyGrow ==
    [][\A n \in kept' : store'[n] = store[n] \/ store'[n].version > store[n].version]_vars

\* Coordinating, applying and restarting all keep to it.
THEOREM NothingTakenBack == Spec => EntriesOnlyGrow
<1>1. TypeOK /\ [Next]_vars => [\A n \in kept' : store'[n] = store[n] \/ store'[n].version > store[n].version]_vars
  <2> SUFFICES ASSUME TypeOK, Next, NEW n \in kept'
               PROVE  store'[n] = store[n] \/ store'[n].version > store[n].version
    OBVIOUS
  <2> USE WritesAssumption DEF TypeOK
  <2>1. n \in Nodes /\ store[n].version \in Nat
    BY TypePreserved DEF Entry
  <2>2. ASSUME NEW w \in Writes, Accept(w) PROVE store'[n] = store[n] \/ store'[n].version > store[n].version
    BY <2>1, <2>2 DEF Accept
  <2>3. ASSUME NEW w \in Writes, NEW m \in Nodes, Apply(w, m)
        PROVE  store'[n] = store[n] \/ store'[n].version > store[n].version
    BY <2>1, <2>3 DEF Apply
  <2>4. ASSUME NEW m \in Nodes, Restart(m) PROVE store'[n] = store[n]
    BY <2>1, <2>4 DEF Restart
  <2> QED
    BY <2>2, <2>3, <2>4 DEF Next, Reply, Send, Break
<1> QED
    BY <1>1, TypeCorrect, PTL DEF Spec, EntriesOnlyGrow
=============================================================================
