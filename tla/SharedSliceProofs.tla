-------------------------- MODULE SharedSliceProofs --------------------------
(***************************************************************************)
(* Proofs about SharedSlice, for any adds, reads and number of albums the  *)
(* slice starts with, with the mutex and without.                          *)
(***************************************************************************)
EXTENDS SharedSlice, SequenceTheorems, TLAPS

-----------------------------------------------------------------------------
(* The inductive invariant *)

\* What requests have is kept by request.
ByRequest ==
    /\ albums \in [ptr : Nat, len : Nat, cap : Nat] /\ view \in [Requests -> [ptr : Nat, len : Nat, cap : Nat]]
    /\ todo \in [Requests -> SUBSET (Words \cup {"element"})]
    /\ listing = [g \in Reads |-> listing[g]] /\ before = [g \in Reads |-> before[g]]
    /\ due \in [Reads -> SUBSET Adds]

\* Arrays are sequences with room for the seeds; no header is shorter than these,
\* and an append stores behind them.
Slices ==
    /\ arrays \in Seq(Seq(Elements)) /\ Len(arrays) > 0
    /\ \A p \in DOMAIN arrays : Len(arrays[p]) >= Seeds
    /\ albums.len >= Seeds
    /\ \A q \in Requests : view[q].len >= Seeds
    /\ \A a \in Adds : pc[a] = "store" => view[a].len > Seeds

\* Under the mutex appends do not overlap; without it nobody holds it.
Exclusive ==
    IF locked THEN overlapped = {} /\ \A a \in Appending : mu = a
              ELSE mu = None

\* An append that none overlaps has the header to itself: what it has loaded or
\* stored of it is there.
Undisturbed ==
    \A a \in Appending \ overlapped :
        /\ Appending = {a}
        /\ "ptr" \notin todo[a] => albums.ptr = view[a].ptr
        /\ "len" \notin todo[a] => albums.len = view[a].len
        /\ "cap" \notin todo[a] => albums.cap = view[a].cap

\* Adds that store.
Storing == {a \in Adds : pc[a] = "store"}

\* Under the mutex a capacity is the length of its array.
Capped ==
    locked => /\ Storing = {} => albums.cap = Len(arrays[albums.ptr])
              /\ \A a \in Storing : view[a].cap = Len(arrays[view[a].ptr])

\* Every array begins with the seeds.
SeedsIn == \A p \in DOMAIN arrays : \A i \in 1..Seeds : arrays[p][i] = Seed

\* An array has an add's album in a place.
Has(p, k, a) == k \in DOMAIN arrays[p] /\ arrays[p][k] = a

\* What an append that none overlaps has stored of its element is there.
Stored ==
    \A a \in Appending \ overlapped :
        pc[a] = "store" /\ "element" \notin todo[a] => Has(view[a].ptr, view[a].len, a)

\* What a request has of the header shows the album.
Sees(q, k, a) ==
    /\ "len" \notin todo[q] \/ pc[q] = "store" => view[q].len >= k
    /\ "ptr" \notin todo[q] \/ pc[q] = "store" => Has(view[q].ptr, k, a)

\* The album is in the slice, whoever appends has it too and stores behind it,
\* and every GET that has to list it does.
InPlace(a, k) ==
    /\ albums.len >= k /\ Has(albums.ptr, k, a)
    /\ \A b \in Appending : Sees(b, k, a) /\ (pc[b] = "store" => view[b].len > k)
    /\ \A g \in Reads : a \in due[g] =>
          /\ pc[g] = "load" => Sees(g, k, a)
          /\ pc[g] = "200" => k \in DOMAIN listing[g] /\ listing[g][k] = a

\* An album whose POST was answered and not overlapped stays in its place.
AnsweredStay ==
    /\ \A a \in Adds \ overlapped : pc[a] = "201" => \E k \in Nat : InPlace(a, k)
    /\ \A g \in Reads : due[g] \subseteq {a \in Adds \ overlapped : pc[a] = "201"}

\* Every GET lists the seeds.
SeedsListed ==
    \A g \in Reads : pc[g] = "200" =>
        \A i \in 1..Seeds : i \in DOMAIN listing[g] /\ listing[g][i] = Seed

\* With the mutex, what a GET that no append raced has of the header shows the
\* list of when it began, and is in front of what appends store.
Steady ==
    locked => \A g \in Reads \ raced :
        /\ pc[g] = "load" /\ todo[g] # {} =>
              /\ \A a \in Adds : pc[a] # "store"
              /\ Shown(albums) = before[g]
              /\ "ptr" \notin todo[g] => view[g].ptr = albums.ptr
              /\ "len" \notin todo[g] => view[g].len = albums.len
        /\ pc[g] = "load" /\ todo[g] = {} =>
              /\ Shown(view[g]) = before[g]
              /\ view[g].len <= albums.len
              /\ \A a \in Adds : pc[a] = "store" => view[a].len > view[g].len
        /\ pc[g] = "200" => listing[g] = before[g]

\* What a store outside an array can destroy.
Intact == SeedsIn /\ Stored /\ AnsweredStay /\ SeedsListed

IInv ==
    /\ TypeOK /\ ByRequest /\ Slices /\ Exclusive /\ Undisturbed /\ Capped /\ Steady
    /\ ~astray => Intact

-----------------------------------------------------------------------------
(* Sequences of sequences *)

\* Arrays and their elements, by position.
LEMMA Positions ==
    ASSUME arrays \in Seq(Seq(Elements))
    PROVE  /\ Len(arrays) \in Nat /\ DOMAIN arrays = 1..Len(arrays)
           /\ \A p \in DOMAIN arrays :
                 /\ arrays[p] \in Seq(Elements) /\ Len(arrays[p]) \in Nat
                 /\ DOMAIN arrays[p] = 1..Len(arrays[p])
                 /\ \A i \in DOMAIN arrays[p] : arrays[p][i] \in Elements
<1>1. Len(arrays) \in Nat /\ DOMAIN arrays = 1..Len(arrays)
    BY LenProperties
<1>2. ASSUME NEW p \in DOMAIN arrays
      PROVE  /\ arrays[p] \in Seq(Elements) /\ Len(arrays[p]) \in Nat
             /\ DOMAIN arrays[p] = 1..Len(arrays[p])
             /\ \A i \in DOMAIN arrays[p] : arrays[p][i] \in Elements
  <2>1. arrays[p] \in Seq(Elements)
    BY <1>1, ElementOfSeq
  <2> QED
    BY <2>1, LenProperties, ElementOfSeq
<1> QED
    BY <1>1, <1>2

\* Storing an element changes one place of one array.
LEMMA ElementStored ==
    ASSUME arrays \in Seq(Seq(Elements)), NEW p \in DOMAIN arrays, NEW i \in DOMAIN arrays[p],
           NEW e \in Elements, arrays' = [arrays EXCEPT ![p][i] = e]
    PROVE  /\ arrays' \in Seq(Seq(Elements)) /\ Len(arrays') = Len(arrays)
           /\ DOMAIN arrays' = DOMAIN arrays
           /\ \A q \in DOMAIN arrays : /\ DOMAIN arrays'[q] = DOMAIN arrays[q]
                                       /\ Len(arrays'[q]) = Len(arrays[q])
           /\ \A q \in DOMAIN arrays : \A j \in DOMAIN arrays[q] :
                 q # p \/ j # i => arrays'[q][j] = arrays[q][j]
           /\ arrays'[p][i] = e
<1> DEFINE s == [arrays[p] EXCEPT ![i] = e]
<1>1. arrays[p] \in Seq(Elements) /\ i \in 1..Len(arrays[p]) /\ p \in 1..Len(arrays)
    BY Positions
<1>2. s \in Seq(Elements) /\ Len(s) = Len(arrays[p])
    BY <1>1, ExceptSeq
<1>3. arrays' = [arrays EXCEPT ![p] = s]
    OBVIOUS
<1>4. DOMAIN s = DOMAIN arrays[p] /\ s[i] = e /\ \A j \in DOMAIN arrays[p] : j # i => s[j] = arrays[p][j]
    OBVIOUS
<1> HIDE DEF s
<1>5. arrays' \in Seq(Seq(Elements)) /\ Len(arrays') = Len(arrays)
    BY <1>1, <1>2, <1>3, ExceptSeq
<1>6. DOMAIN arrays' = DOMAIN arrays /\ arrays'[p] = s /\ \A q \in DOMAIN arrays : q # p => arrays'[q] = arrays[q]
    BY <1>3
<1> QED
    BY <1>2, <1>4, <1>5, <1>6

\* A new array leaves the others alone.
LEMMA NewArray ==
    ASSUME arrays \in Seq(Seq(Elements)), NEW s \in Seq(Elements), arrays' = Append(arrays, s)
    PROVE  /\ arrays' \in Seq(Seq(Elements)) /\ Len(arrays') = Len(arrays) + 1
           /\ Len(arrays) + 1 \in DOMAIN arrays' /\ DOMAIN arrays \subseteq DOMAIN arrays'
           /\ \A p \in DOMAIN arrays' : p \in DOMAIN arrays \/ p = Len(arrays) + 1
           /\ \A p \in DOMAIN arrays : arrays'[p] = arrays[p]
           /\ arrays'[Len(arrays) + 1] = s
<1>1. arrays' \in Seq(Seq(Elements)) /\ Len(arrays') = Len(arrays) + 1
    BY AppendProperties
<1>2. \A p \in 1..Len(arrays) : arrays'[p] = arrays[p]
    BY AppendProperties
<1>3. arrays'[Len(arrays) + 1] = s
    BY AppendProperties
<1>4. DOMAIN arrays' = 1..(Len(arrays) + 1) /\ DOMAIN arrays = 1..Len(arrays) /\ Len(arrays) \in Nat
    BY <1>1, LenProperties
<1> QED
    BY <1>1, <1>2, <1>3, <1>4

\* Sequences as long as each other have the same positions, and only they.
LEMMA SameLength == \A m, n \in Nat : 1..m = 1..n => m = n
    OBVIOUS

\* The array that append makes when there is no room.
LEMMA Copied ==
    ASSUME TypeOK, Slices, NEW a \in Adds, ~ (view[a].len + 1 <= view[a].cap),
           NEW s, s = [i \in 1..NewCap(view[a]) |-> IF i <= view[a].len THEN Shown(view[a])[i] ELSE Zero]
    PROVE  /\ s \in Seq(Elements) /\ NewCap(view[a]) \in Nat /\ Len(s) = NewCap(view[a])
           /\ view[a].len + 1 \in DOMAIN s
           /\ \A i \in 1..view[a].len : i \in DOMAIN arrays[view[a].ptr] =>
                 i \in DOMAIN s /\ s[i] = arrays[view[a].ptr][i]
<1> DEFINE h == view[a]
           n == NewCap(h)
<1>1. h.ptr \in DOMAIN arrays /\ h.len \in Nat /\ h.cap \in Nat
    BY DEF TypeOK, Requests
<1>2. \A i \in DOMAIN arrays[h.ptr] : arrays[h.ptr][i] \in Elements
    BY <1>1, Positions DEF Slices
<1>3. \A i \in 1..h.len :
         Shown(h)[i] = IF i \in DOMAIN arrays[h.ptr] THEN arrays[h.ptr][i] ELSE Garbage
    BY DEF Shown
<1>4. n \in Nat /\ n >= h.len + 1
    BY <1>1 DEF NewCap
<1> HIDE DEF n
<1>5. s \in [1..n -> Elements]
  <2>1. \A i \in 1..n : i <= h.len => Shown(h)[i] \in Elements
    BY <1>1, <1>2, <1>3, <1>4 DEF Elements
  <2> QED
    BY <2>1 DEF Elements, n
<1>6. s \in Seq(Elements)
    BY <1>4, <1>5, SeqDef
<1>7. DOMAIN s = 1..n
    BY <1>5
<1>8. Len(s) = n
  <2>1. DOMAIN s = 1..Len(s) /\ Len(s) \in Nat
    BY <1>6, LenProperties
  <2> QED
    BY <1>4, <1>7, <2>1, SameLength
<1>9. ASSUME NEW i \in 1..h.len, i \in DOMAIN arrays[h.ptr]
      PROVE  i \in DOMAIN s /\ s[i] = arrays[h.ptr][i]
  <2>1. i \in 1..n /\ i <= h.len
    BY <1>1, <1>4
  <2> QED
    BY <1>3, <1>7, <1>9, <2>1 DEF n
<1>10. h.len + 1 \in DOMAIN s
  <2>1. h.len + 1 \in 1..n
    BY <1>1, <1>4
  <2> QED
    BY <1>7, <2>1
<1> QED
    BY <1>4, <1>6, <1>8, <1>9, <1>10 DEF n

\* A header that leads to an array.
LEMMA Header ==
    ASSUME NEW S, NEW h \in [ptr : Nat, len : Nat, cap : Nat], h.ptr \in S
    PROVE  h \in [ptr : S, len : Nat, cap : Nat]
    OBVIOUS

\* The headers lead to arrays.
LEMMA Headers ==
    ASSUME TypeOK
    PROVE  /\ albums.ptr \in DOMAIN arrays /\ albums.len \in Nat /\ albums.cap \in Nat
           /\ \A q \in Requests :
                 view[q].ptr \in DOMAIN arrays /\ view[q].len \in Nat /\ view[q].cap \in Nat
    BY DEF TypeOK

\* What was in place while nothing was stored astray.
LEMMA Sound ==
    ASSUME IInv, ~astray
    PROVE  SeedsIn /\ Stored /\ AnsweredStay /\ SeedsListed
    BY DEF IInv, Intact

-----------------------------------------------------------------------------
(* Loading a word *)

\* A word that is loaded is the header's; nobody else has a new one.
LEMMA LoadedWord ==
    ASSUME IInv, NEW q \in Requests, NEW word \in Words, Load(q, word)
    PROVE  /\ pc[q] = "load" /\ word \in todo[q]
           /\ UNCHANGED <<locked, mu, arrays, albums, pc, listing, historyVars>>
           /\ \A r \in Requests : r # q => view'[r] = view[r] /\ todo'[r] = todo[r]
           /\ todo'[q] = todo[q] \ {word}
           /\ word = "ptr" => view'[q].ptr = albums.ptr
           /\ word # "ptr" => view'[q].ptr = view[q].ptr
           /\ word = "len" => view'[q].len = albums.len
           /\ word # "len" => view'[q].len = view[q].len
           /\ word = "cap" => view'[q].cap = albums.cap
           /\ word # "cap" => view'[q].cap = view[q].cap
    BY DEF Load, IInv, ByRequest, Words

\* A loaded word leads where the header leads.
LEMMA LoadPreserves ==
    ASSUME IInv, NEW q \in Requests, NEW word \in Words, Load(q, word)
    PROVE  IInv'
<1>1. /\ pc[q] = "load" /\ word \in todo[q]
      /\ UNCHANGED <<locked, mu, arrays, albums, pc, listing, historyVars>>
      /\ \A r \in Requests : r # q => view'[r] = view[r] /\ todo'[r] = todo[r]
      /\ todo'[q] = todo[q] \ {word}
      /\ word = "ptr" => view'[q].ptr = albums.ptr
      /\ word # "ptr" => view'[q].ptr = view[q].ptr
      /\ word = "len" => view'[q].len = albums.len
      /\ word # "len" => view'[q].len = view[q].len
      /\ word = "cap" => view'[q].cap = albums.cap
      /\ word # "cap" => view'[q].cap = view[q].cap
    BY LoadedWord
<1>2. ByRequest'
    BY <1>1 DEF IInv, ByRequest, Load, Words, historyVars, listVars
<1>3. UNCHANGED <<astray, overlapped, due, raced, before>>
    BY <1>1 DEF historyVars, listVars
<1>4. word = "ptr" \/ word = "len" \/ word = "cap"
    BY DEF Words
<1>5. TypeOK'
  <2>1. /\ albums.ptr \in DOMAIN arrays /\ albums.len \in Nat
        /\ \A r \in Requests : view[r].ptr \in DOMAIN arrays /\ view[r].len \in Nat
    BY Headers DEF IInv
  <2>2. \A r \in Requests : view'[r] \in [ptr : DOMAIN arrays, len : Nat, cap : Nat]
    <3>1. SUFFICES ASSUME NEW r \in Requests PROVE view'[r] \in [ptr : DOMAIN arrays, len : Nat, cap : Nat]
      OBVIOUS
    <3>2. view'[r].ptr \in DOMAIN arrays
      BY <1>1, <1>4, <2>1
    <3>3. view'[r] \in [ptr : Nat, len : Nat, cap : Nat]
      BY <1>2 DEF ByRequest
    <3> QED
      BY <3>2, <3>3, Header
  <2>3. \A r \in Requests : todo'[r] \subseteq Words \cup {"element"}
    BY <1>2 DEF ByRequest
  <2>4. \A a \in Adds : pc[a] = "store" => view'[a] = view[a]
    BY <1>1 DEF Requests
  <2> QED
    BY <1>1, <1>3, <2>2, <2>3, <2>4 DEF IInv, TypeOK, Inside
<1>6. Slices'
    BY <1>1, <1>3, <1>4 DEF IInv, Slices, Requests, Elements
<1>7. Exclusive'
    BY <1>1, <1>3 DEF IInv, Exclusive, Appending
<1>8. Undisturbed'
    BY <1>1, <1>3, <1>4 DEF IInv, Undisturbed, Appending, Requests
<1>9. ASSUME ~astray PROVE SeedsIn' /\ Stored' /\ AnsweredStay' /\ SeedsListed'
  <2>0. SeedsIn /\ Stored /\ AnsweredStay /\ SeedsListed
    BY <1>9, Sound
  <2>1. \A a \in Adds, k \in Nat : InPlace(a, k) => InPlace(a, k)'
    BY <1>1, <1>3, <1>4 DEF InPlace, Sees, Has, Appending, Requests
  <2>2. AnsweredStay'
    BY <1>1, <1>3, <2>0, <2>1 DEF AnsweredStay
  <2>3. SeedsIn' /\ SeedsListed'
    BY <1>1, <2>0 DEF SeedsIn, SeedsListed
  <2>4. Stored'
    <3>1. \A a \in Adds : pc[a] = "store" => view'[a] = view[a] /\ todo'[a] = todo[a]
      BY <1>1 DEF Requests
    <3> QED
      BY <1>1, <1>3, <2>0, <3>1 DEF Stored, Has, Appending
  <2> QED
    BY <2>2, <2>3, <2>4
<1>10. Capped'
  <2>1. \A a \in Adds : pc[a] = "store" => view'[a] = view[a]
    BY <1>1 DEF Requests
  <2> QED
    BY <1>1, <2>1 DEF IInv, Capped, Storing
<1>11. Steady'
  <2>1. SUFFICES ASSUME locked, NEW g \in Reads \ raced
                 PROVE  /\ pc[g] = "load" /\ todo'[g] # {} =>
                              /\ \A a \in Adds : pc[a] # "store"
                              /\ Shown(albums)' = before[g]
                              /\ "ptr" \notin todo'[g] => view'[g].ptr = albums.ptr
                              /\ "len" \notin todo'[g] => view'[g].len = albums.len
                        /\ pc[g] = "load" /\ todo'[g] = {} =>
                              /\ Shown(view[g])' = before[g]
                              /\ view'[g].len <= albums.len
                              /\ \A a \in Adds : pc[a] = "store" => view'[a].len > view'[g].len
                        /\ pc[g] = "200" => listing[g] = before[g]
    BY <1>1, <1>3 DEF Steady
  <2>2. \A a \in Adds : pc[a] = "store" => view'[a] = view[a]
    BY <1>1 DEF Requests
  <2>3. Shown(albums)' = Shown(albums)
    BY <1>1 DEF Shown
  <2>4. CASE g # q
    <3>1. view'[g] = view[g] /\ todo'[g] = todo[g]
      BY <1>1, <2>4 DEF Requests
    <3>2. Shown(view[g])' = Shown(view[g])
      BY <1>1, <3>1 DEF Shown
    <3> QED
      BY <1>1, <2>1, <2>2, <2>3, <3>1, <3>2 DEF IInv, Steady
  <2>5. CASE g = q
    <3>1. /\ \A a \in Adds : pc[a] # "store"
          /\ Shown(albums) = before[g]
          /\ "ptr" \notin todo[g] => view[g].ptr = albums.ptr
          /\ "len" \notin todo[g] => view[g].len = albums.len
      BY <1>1, <2>1, <2>5 DEF IInv, Steady
    <3>2. "ptr" \notin todo'[g] => view'[g].ptr = albums.ptr
      BY <1>1, <1>4, <2>5, <3>1
    <3>3. "len" \notin todo'[g] => view'[g].len = albums.len
      BY <1>1, <1>4, <2>5, <3>1
    <3>4. todo'[g] = {} => Shown(view[g])' = Shown(albums)
      BY <1>1, <3>2, <3>3 DEF Shown
    <3>5. albums.len \in Nat
      BY Headers DEF IInv
    <3> QED
      BY <1>1, <2>3, <2>5, <3>1, <3>2, <3>3, <3>4, <3>5
  <2> QED
    BY <2>4, <2>5
<1> QED
    BY <1>2, <1>3, <1>5, <1>6, <1>7, <1>8, <1>9, <1>10, <1>11 DEF IInv, Intact

-----------------------------------------------------------------------------
(* The steps of postAlbums *)

\* Adds, reads and None are different from each other.
LEMMA Distinct == \A a \in Adds : a \notin Reads /\ a # None /\ a \in Requests
    BY NamesAssumption DEF Requests

\* Requests keep their own counters: what a step of one leaves to the others.
LEMMA Counters ==
    ASSUME TypeOK, NEW q \in Requests, NEW s, pc' = [pc EXCEPT ![q] = s]
    PROVE  pc'[q] = s /\ \A r \in Requests : r # q => pc'[r] = pc[r]
    BY DEF TypeOK

\* The mutex is free only when nobody appends.
LEMMA FreeMutex ==
    ASSUME Exclusive, locked, mu = None
    PROVE  Appending = {}
    BY Distinct DEF Exclusive, Appending

\* A POST with a bad body gives the mutex back.
LEMMA RefusedPreserves ==
    ASSUME IInv, NEW a \in Adds, pc[a] = "start", locked => mu = None,
           pc' = [pc EXCEPT ![a] = "400"], Unlock(a),
           UNCHANGED <<todo, overlapped, locked, arrays, albums, view, listing, astray, due, raced, before>>
    PROVE  IInv'
<1>1. pc'[a] = "400" /\ \A r \in Requests : r # a => pc'[r] = pc[r]
  <2>1. a \in Requests /\ TypeOK
    BY Distinct DEF IInv
  <2> QED
    BY <2>1, Counters
<1>2. Appending' = Appending
  BY <1>1 DEF Appending, Requests
<1>3. mu' = mu /\ (locked => Appending = {})
  BY FreeMutex DEF IInv, Exclusive, Unlock
<1>4. /\ \A b \in Adds : (pc'[b] = "store") = (pc[b] = "store")
      /\ \A b \in Adds : (pc'[b] = "201") = (pc[b] = "201")
      /\ \A g \in Reads : pc'[g] = pc[g]
  BY <1>1, Distinct DEF Requests
<1>5. TypeOK'
  BY <1>1, <1>3, <1>4, Distinct DEF IInv, TypeOK, Appending, Inside
<1>6. ByRequest'
  BY DEF IInv, ByRequest
<1>7. Slices'
  BY <1>4 DEF IInv, Slices
<1>8. Exclusive'
  BY <1>2, <1>3 DEF IInv, Exclusive
<1>9. Undisturbed'
  BY <1>2, <1>4 DEF IInv, Undisturbed
<1>10. ASSUME ~astray PROVE SeedsIn' /\ Stored' /\ AnsweredStay' /\ SeedsListed'
  <2>0. SeedsIn /\ Stored /\ AnsweredStay /\ SeedsListed
    BY <1>10, Sound
  <2>1. ASSUME NEW b \in Adds, NEW k \in Nat, InPlace(b, k)
        PROVE  InPlace(b, k)'
    <3>1. \A c \in Appending : Sees(c, k, b)' = Sees(c, k, b)
      BY <1>4 DEF Sees, Has, Appending
    <3>2. \A g \in Reads : Sees(g, k, b)' = Sees(g, k, b)
      BY <1>4 DEF Sees, Has
    <3> QED
      BY <1>2, <1>4, <2>1, <3>1, <3>2 DEF InPlace, Has, Appending
  <2>2. AnsweredStay'
    BY <1>4, <2>0, <2>1 DEF AnsweredStay
  <2>3. SeedsIn' /\ SeedsListed' /\ Stored'
    BY <1>2, <1>4, <2>0 DEF SeedsIn, SeedsListed, Stored, Has
  <2> QED
    BY <2>2, <2>3
<1>11. Capped'
  BY <1>4 DEF IInv, Capped, Storing
<1>12. Steady'
  BY <1>4 DEF IInv, Steady, Shown
<1> QED
  BY <1>5, <1>6, <1>7, <1>8, <1>9, <1>10, <1>11, <1>12 DEF IInv, Intact

\* A POST that starts its append has loaded nothing yet; the ones it overlaps
\* are not answered.
LEMMA StartedPreserves ==
    ASSUME IInv, NEW a \in Adds, pc[a] = "start", locked => mu = None,
           pc' = [pc EXCEPT ![a] = "load"], mu' = IF locked THEN a ELSE mu,
           todo' = [todo EXCEPT ![a] = Words],
           overlapped' = overlapped \cup IF Appending = {} THEN {} ELSE Appending \cup {a},
           UNCHANGED <<locked, arrays, albums, view, listing, astray, due, raced, before>>
    PROVE  IInv'
<1>1. pc'[a] = "load" /\ \A r \in Requests : r # a => pc'[r] = pc[r]
  <2>1. a \in Requests /\ TypeOK
    BY Distinct DEF IInv
  <2> QED
    BY <2>1, Counters
<1>2. Appending' = Appending \cup {a} /\ a \notin Appending
  BY <1>1, Distinct DEF Appending, Requests
<1>3. todo'[a] = Words /\ \A r \in Requests : r # a => todo'[r] = todo[r]
  BY Distinct DEF IInv, ByRequest
<1>4. /\ \A b \in Adds : (pc'[b] = "store") = (pc[b] = "store")
      /\ \A b \in Adds : (pc'[b] = "201") = (pc[b] = "201")
      /\ \A b \in Adds : pc[b] \in {"store", "201"} => b # a
      /\ \A g \in Reads : pc'[g] = pc[g] /\ todo'[g] = todo[g] /\ g # a
  BY <1>1, <1>3, Distinct DEF Requests
<1>5. ByRequest'
  BY DEF IInv, ByRequest
<1>6. locked => Appending = {}
  BY FreeMutex DEF IInv
<1>7. mu' = IF locked THEN a ELSE None
  BY DEF IInv, Exclusive
<1>8. TypeOK'
  <2>1. mu' \in {None} \cup {b \in Adds : pc'[b] \in {"load", "store"}}
    BY <1>1, <1>7
  <2>2. \A r \in Requests : todo'[r] \subseteq Words \cup {"element"}
    BY <1>5 DEF ByRequest
  <2>3. pc' \in [Requests -> {"start", "load", "store", "200", "201", "400"}]
    BY DEF IInv, TypeOK
  <2> QED
    BY <1>4, <2>1, <2>2, <2>3 DEF IInv, TypeOK, Inside
<1>9. Slices'
  BY <1>4 DEF IInv, Slices
<1>10. Exclusive'
  BY <1>2, <1>6, <1>7 DEF IInv, Exclusive
<1>11. Undisturbed'
  <2>1. CASE Appending = {}
    BY <1>1, <1>2, <1>3, <2>1 DEF Undisturbed, Words
  <2>2. CASE Appending # {}
    BY <1>2, <2>2 DEF Undisturbed
  <2> QED
    BY <2>1, <2>2
<1>12. ASSUME ~astray PROVE SeedsIn' /\ Stored' /\ AnsweredStay' /\ SeedsListed'
  <2>0. SeedsIn /\ Stored /\ AnsweredStay /\ SeedsListed
    BY <1>12, Sound
  <2>1. ASSUME NEW b \in Adds, NEW k \in Nat, InPlace(b, k)
        PROVE  InPlace(b, k)'
    <3>1. Sees(a, k, b)'
      BY <1>1, <1>3 DEF Sees, Words
    <3>2. \A c \in Appending : Sees(c, k, b)' = Sees(c, k, b)
      BY <1>1, <1>2, <1>3 DEF Sees, Has, Appending, Requests
    <3>3. \A g \in Reads : Sees(g, k, b)' = Sees(g, k, b)
      BY <1>4 DEF Sees, Has
    <3> QED
      BY <1>1, <1>2, <1>4, <2>1, <3>1, <3>2, <3>3 DEF InPlace, Has, Appending
  <2>3. \A b \in Adds : pc[b] = "201" => (b \in overlapped' <=> b \in overlapped)
    BY <1>4 DEF Appending
  <2>4. AnsweredStay'
    BY <1>4, <2>0, <2>1, <2>3 DEF AnsweredStay
  <2>5. SeedsIn' /\ SeedsListed'
    BY <1>4, <2>0 DEF SeedsIn, SeedsListed
  <2>6. Stored'
    <3>1. \A b \in Appending' \ overlapped' : Appending = {} \/ b \in Appending \ overlapped
      BY <1>2
    <3> QED
      BY <1>1, <1>2, <1>3, <1>4, <2>0, <3>1 DEF Stored, Has, Appending, Requests
  <2> QED
    BY <2>4, <2>5, <2>6
<1>13. Capped'
  BY <1>4 DEF IInv, Capped, Storing
<1>14. Steady'
  BY <1>4 DEF IInv, Steady, Shown
<1> QED
  BY <1>5, <1>8, <1>9, <1>10, <1>11, <1>12, <1>13, <1>14 DEF IInv, Intact

\* BindJSON.
LEMMA BindPreserves ==
    ASSUME IInv, NEW a \in Adds, Bind(a)
    PROVE  IInv'
<1>1. CASE pc' = [pc EXCEPT ![a] = "400"]
  BY <1>1, RefusedPreserves, StartedPreserves DEF Bind
<1>2. CASE pc' # [pc EXCEPT ![a] = "400"]
  BY <1>2, StartedPreserves DEF Bind
<1> QED
  BY <1>1, <1>2

\* Growing, in the array or in a copy of it, leaves every array that there is
\* alone; the header to store shows what was loaded and leads to a place behind
\* it, in the copy for certain, in the old array if the capacity is right.
LEMMA Grown ==
    ASSUME IInv, NEW a \in Adds, Grow(a)
    PROVE  /\ arrays' \in Seq(Seq(Elements)) /\ Len(arrays') > 0
           /\ DOMAIN arrays \subseteq DOMAIN arrays' /\ \A p \in DOMAIN arrays : arrays'[p] = arrays[p]
           /\ \A p \in DOMAIN arrays' : Len(arrays'[p]) >= Seeds
           /\ SeedsIn => SeedsIn'
           /\ view' \in [Requests -> [ptr : Nat, len : Nat, cap : Nat]]
           /\ view'[a].len = view[a].len + 1 /\ \A r \in Requests : r # a => view'[r] = view[r]
           /\ view'[a].ptr \in DOMAIN arrays'
           /\ \A i \in 1..view[a].len : i \in DOMAIN arrays[view[a].ptr] =>
                 /\ i \in DOMAIN arrays'[view'[a].ptr]
                 /\ arrays'[view'[a].ptr][i] = arrays[view[a].ptr][i]
           /\ todo' \in [Requests -> SUBSET (Words \cup {"element"})]
           /\ {"len", "element"} \subseteq todo'[a] /\ \A r \in Requests : r # a => todo'[r] = todo[r]
           /\ "ptr" \notin todo'[a] => view'[a].ptr = view[a].ptr
           /\ "cap" \notin todo'[a] => view'[a].cap = view[a].cap
           /\ \/ /\ view'[a].ptr = view[a].ptr /\ view'[a].cap = view[a].cap
                 /\ view[a].len + 1 <= view[a].cap
              \/ /\ view'[a].len \in DOMAIN arrays'[view'[a].ptr]
                 /\ view'[a].cap = Len(arrays'[view'[a].ptr])
<1> DEFINE h == view[a]
<1>1. a \in Requests
  BY Distinct
<1>2. /\ arrays \in Seq(Seq(Elements)) /\ Len(arrays) > 0
      /\ \A p \in DOMAIN arrays : Len(arrays[p]) >= Seeds
  BY DEF IInv, Slices
<1>3. h.ptr \in DOMAIN arrays /\ h.len \in Nat /\ h.cap \in Nat /\ h.len >= Seeds /\ Seeds \in Nat \ {0}
  BY <1>1, Headers, SeedsAssumption DEF IInv, Slices
<1>4. /\ Len(arrays) \in Nat /\ DOMAIN arrays = 1..Len(arrays)
      /\ DOMAIN arrays[h.ptr] = 1..Len(arrays[h.ptr]) /\ Len(arrays[h.ptr]) \in Nat
  BY <1>2, <1>3, Positions
<1>5. /\ view \in [Requests -> [ptr : Nat, len : Nat, cap : Nat]]
      /\ todo \in [Requests -> SUBSET (Words \cup {"element"})]
  BY DEF IInv, ByRequest
<1>6. CASE h.len + 1 <= h.cap
  <2>1. /\ view' = [view EXCEPT ![a].len = h.len + 1]
        /\ todo' = [todo EXCEPT ![a] = {"len", "element"}]
        /\ arrays' = arrays
    BY <1>6 DEF Grow
  <2>2. /\ view'[a].len = h.len + 1 /\ view'[a].ptr = h.ptr /\ view'[a].cap = h.cap
        /\ \A r \in Requests : r # a => view'[r] = view[r]
    BY <1>1, <1>5, <2>1
  <2>3. view' \in [Requests -> [ptr : Nat, len : Nat, cap : Nat]]
    BY <1>1, <1>3, <1>5, <2>1
  <2>4. /\ todo' \in [Requests -> SUBSET (Words \cup {"element"})]
        /\ todo'[a] = {"len", "element"} /\ \A r \in Requests : r # a => todo'[r] = todo[r]
    BY <1>1, <1>5, <2>1 DEF Words
  <2>5. SeedsIn => SeedsIn'
    BY <2>1 DEF SeedsIn
  <2> QED
    BY <1>2, <1>3, <1>6, <2>1, <2>2, <2>3, <2>4, <2>5
<1>7. CASE ~ (h.len + 1 <= h.cap)
  <2> DEFINE n == NewCap(h)
             s == [i \in 1..n |-> IF i <= h.len THEN Shown(h)[i] ELSE Zero]
             top == Len(arrays) + 1
  <2>1. /\ view' = [view EXCEPT ![a] = [ptr |-> top, len |-> h.len + 1, cap |-> n]]
        /\ todo' = [todo EXCEPT ![a] = Words \cup {"element"}]
        /\ arrays' = Append(arrays, s)
    BY <1>7 DEF Grow
  <2>2. /\ s \in Seq(Elements) /\ n \in Nat /\ Len(s) = n /\ h.len + 1 \in DOMAIN s
        /\ \A i \in 1..h.len : i \in DOMAIN arrays[h.ptr] => i \in DOMAIN s /\ s[i] = arrays[h.ptr][i]
    BY <1>7, Copied DEF IInv
  <2> HIDE DEF n, s
  <2>3. /\ arrays' \in Seq(Seq(Elements)) /\ Len(arrays') = top
        /\ top \in DOMAIN arrays' /\ DOMAIN arrays \subseteq DOMAIN arrays'
        /\ \A p \in DOMAIN arrays' : p \in DOMAIN arrays \/ p = top
        /\ \A p \in DOMAIN arrays : arrays'[p] = arrays[p]
        /\ arrays'[top] = s
    BY <1>2, <2>1, <2>2, NewArray
  <2>4. view'[a] = [ptr |-> top, len |-> h.len + 1, cap |-> n] /\ \A r \in Requests : r # a => view'[r] = view[r]
    BY <1>1, <1>5, <2>1
  <2>5. view' \in [Requests -> [ptr : Nat, len : Nat, cap : Nat]]
    BY <1>1, <1>3, <1>4, <1>5, <2>1, <2>2
  <2>6. /\ todo' \in [Requests -> SUBSET (Words \cup {"element"})]
        /\ todo'[a] = Words \cup {"element"} /\ \A r \in Requests : r # a => todo'[r] = todo[r]
    BY <1>1, <1>5, <2>1
  <2>7. {"ptr", "len", "cap", "element"} \subseteq todo'[a]
    BY <2>6 DEF Words
  <2>8. Len(s) >= Seeds
    <3>1. DOMAIN s = 1..Len(s)
      BY <2>2, LenProperties
    <3> QED
      BY <1>3, <2>2, <3>1
  <2>9. \A p \in DOMAIN arrays' : Len(arrays'[p]) >= Seeds
    BY <1>2, <2>3, <2>8
  <2>10. SeedsIn => SeedsIn'
    <3>1. ASSUME SeedsIn, NEW i \in 1..Seeds PROVE s[i] = Seed
      <4>1. i \in 1..h.len /\ i \in DOMAIN arrays[h.ptr]
        BY <1>2, <1>3, <1>4
      <4>2. arrays[h.ptr][i] = Seed
        BY <1>3, <3>1 DEF SeedsIn
      <4> QED
        BY <2>2, <4>1, <4>2
    <3> QED
      BY <2>3, <3>1 DEF SeedsIn
  <2>11. Len(arrays') > 0
    BY <1>4, <2>3
  <2> QED
    BY <2>2, <2>3, <2>4, <2>5, <2>6, <2>7, <2>9, <2>10, <2>11
<1> HIDE DEF h
<1> QED
  BY <1>6, <1>7

\* The header to store is ready: it is the old one with a place more.
LEMMA GrowPreserves ==
    ASSUME IInv, NEW a \in Adds, Grow(a)
    PROVE  IInv'
<1>1. /\ arrays' \in Seq(Seq(Elements)) /\ Len(arrays') > 0
      /\ DOMAIN arrays \subseteq DOMAIN arrays' /\ \A p \in DOMAIN arrays : arrays'[p] = arrays[p]
      /\ \A p \in DOMAIN arrays' : Len(arrays'[p]) >= Seeds
  BY Grown
<1>2. /\ view' \in [Requests -> [ptr : Nat, len : Nat, cap : Nat]]
      /\ view'[a].len = view[a].len + 1 /\ \A r \in Requests : r # a => view'[r] = view[r]
      /\ view'[a].ptr \in DOMAIN arrays'
      /\ \A i \in 1..view[a].len : i \in DOMAIN arrays[view[a].ptr] =>
            /\ i \in DOMAIN arrays'[view'[a].ptr]
            /\ arrays'[view'[a].ptr][i] = arrays[view[a].ptr][i]
  BY Grown
<1>3. /\ todo' \in [Requests -> SUBSET (Words \cup {"element"})]
      /\ {"len", "element"} \subseteq todo'[a] /\ \A r \in Requests : r # a => todo'[r] = todo[r]
      /\ "ptr" \notin todo'[a] => view'[a].ptr = view[a].ptr
      /\ "cap" \notin todo'[a] => view'[a].cap = view[a].cap
  BY Grown
<1>4. /\ pc[a] = "load" /\ todo[a] = {} /\ pc' = [pc EXCEPT ![a] = "store"]
      /\ raced' = raced \cup {g \in Reads : locked /\ todo[g] # {}}
      /\ UNCHANGED <<locked, mu, albums, listing, astray, overlapped, due, before>>
  BY DEF Grow
<1>5. pc'[a] = "store" /\ \A r \in Requests : r # a => pc'[r] = pc[r]
  <2>1. a \in Requests /\ TypeOK
    BY Distinct DEF IInv
  <2> QED
    BY <1>4, <2>1, Counters
<1>6. Appending' = Appending /\ a \in Appending
  BY <1>4, <1>5 DEF Appending, Requests
<1>7. /\ albums.ptr \in DOMAIN arrays /\ albums.len \in Nat
      /\ \A r \in Requests : view[r].ptr \in DOMAIN arrays /\ view[r].len \in Nat /\ view[r].cap \in Nat
  BY Headers DEF IInv
<1>8. \A g \in Reads : pc'[g] = pc[g] /\ todo'[g] = todo[g] /\ view'[g] = view[g]
  BY <1>2, <1>3, <1>5, Distinct DEF Requests
<1>9. \A b \in Adds : b # a => pc'[b] = pc[b] /\ todo'[b] = todo[b] /\ view'[b] = view[b]
  BY <1>2, <1>3, <1>5, Distinct
<1>10. view[a].len >= Seeds /\ Seeds \in Nat /\ a \in Requests
  BY SeedsAssumption, Distinct DEF IInv, Slices
<1>one. ASSUME locked
       PROVE  /\ Appending = {a} /\ Storing = {} /\ Storing' = {a}
              /\ Inside(a)' /\ view'[a].cap = Len(arrays'[view'[a].ptr])
  <2>1. Appending = {a} /\ albums.ptr = view[a].ptr /\ albums.cap = view[a].cap
    BY <1>4, <1>6, <1>one DEF IInv, Exclusive, Undisturbed
  <2>2. Storing = {}
    BY <1>4, <2>1 DEF Storing, Appending
  <2>3. Storing' = {a}
    BY <1>5, <1>9, <2>2 DEF Storing
  <2>4. view[a].cap = Len(arrays[view[a].ptr])
    BY <1>one, <2>1, <2>2 DEF IInv, Capped
  <2>5. DOMAIN arrays[view[a].ptr] = 1..Len(arrays[view[a].ptr])
    BY <1>7, <1>10, Positions DEF IInv, Slices
  <2>6. \/ /\ view'[a].ptr = view[a].ptr /\ view'[a].cap = view[a].cap
           /\ view[a].len + 1 <= view[a].cap
        \/ /\ view'[a].len \in DOMAIN arrays'[view'[a].ptr]
           /\ view'[a].cap = Len(arrays'[view'[a].ptr])
    BY Grown
  <2>7. CASE /\ view'[a].ptr = view[a].ptr /\ view'[a].cap = view[a].cap
             /\ view[a].len + 1 <= view[a].cap
    <3>1. arrays'[view'[a].ptr] = arrays[view[a].ptr]
      BY <1>1, <1>7, <1>10, <2>7
    <3>2. view'[a].len \in 1..Len(arrays[view[a].ptr])
      BY <1>2, <1>7, <1>10, <2>4, <2>7
    <3> QED
      BY <2>1, <2>2, <2>3, <2>4, <2>5, <2>7, <3>1, <3>2 DEF Inside
  <2>8. CASE /\ view'[a].len \in DOMAIN arrays'[view'[a].ptr]
             /\ view'[a].cap = Len(arrays'[view'[a].ptr])
    BY <2>1, <2>2, <2>3, <2>8 DEF Inside
  <2> QED
    BY <2>6, <2>7, <2>8
<1>11. ByRequest'
  BY <1>2, <1>3, <1>4 DEF IInv, ByRequest
<1>12. TypeOK'
  <2>1. \A r \in Requests : view'[r] \in [ptr : DOMAIN arrays', len : Nat, cap : Nat]
    <3>1. SUFFICES ASSUME NEW r \in Requests PROVE view'[r] \in [ptr : DOMAIN arrays', len : Nat, cap : Nat]
      OBVIOUS
    <3>2. view'[r].ptr \in DOMAIN arrays'
      BY <1>1, <1>2, <1>7
    <3> QED
      BY <1>2, <3>2, Header
  <2>2. albums' \in [ptr : DOMAIN arrays', len : Nat, cap : Nat]
    <3>1. albums \in [ptr : Nat, len : Nat, cap : Nat] /\ albums.ptr \in DOMAIN arrays'
      BY <1>1, <1>7 DEF IInv, ByRequest
    <3> QED
      BY <1>4, <3>1, Header
  <2>3. \A p \in DOMAIN arrays' : \A i \in DOMAIN arrays'[p] : arrays'[p][i] \in Elements
    <3>1. \A p \in DOMAIN arrays' : arrays'[p] \in Seq(Elements)
      BY <1>1, ElementOfSeq, LenProperties
    <3> QED
      BY <3>1, ElementOfSeq, LenProperties
  <2>4. pc' \in [Requests -> {"start", "load", "store", "200", "201", "400"}]
    BY <1>4 DEF IInv, TypeOK
  <2>5. locked => ~astray /\ \A b \in Adds : pc'[b] = "store" => Inside(b)'
    <3>1. locked => ~astray
      BY DEF IInv, TypeOK
    <3>2. ASSUME locked, NEW b \in Adds, pc'[b] = "store" PROVE Inside(b)'
      <4>1. b = a
        BY <1>one, <3>2 DEF Storing
      <4> QED
        BY <1>one, <3>2, <4>1
    <3> QED
      BY <3>1, <3>2
  <2>6. mu' \in {None} \cup {b \in Adds : pc'[b] \in {"load", "store"}}
    BY <1>4, <1>6 DEF IInv, TypeOK, Appending
  <2>7. /\ locked' \in BOOLEAN /\ astray' \in BOOLEAN
        /\ \A g \in Reads : \A i \in DOMAIN listing'[g] : listing'[g][i] \in Elements
        /\ \A r \in Requests : todo'[r] \subseteq Words \cup {"element"}
    BY <1>3, <1>4 DEF IInv, TypeOK
  <2> QED
    BY <1>4, <2>1, <2>2, <2>3, <2>4, <2>5, <2>6, <2>7 DEF TypeOK
<1>13. Slices'
  <2>0. view'[a].len > Seeds /\ view'[a].len >= Seeds
    BY <1>2, <1>7, <1>10
  <2>1. \A r \in Requests : view'[r].len >= Seeds
    <3>1. \A r \in Requests : view[r].len >= Seeds
      BY DEF IInv, Slices
    <3> QED
      BY <1>2, <2>0, <3>1
  <2>2. \A b \in Adds : pc'[b] = "store" => view'[b].len > Seeds
    <3>1. \A b \in Adds : pc[b] = "store" => view[b].len > Seeds
      BY DEF IInv, Slices
    <3> QED
      BY <1>9, <2>0, <3>1
  <2> QED
    BY <1>1, <1>4, <2>1, <2>2 DEF IInv, Slices, Elements
<1>14. Exclusive'
  BY <1>4, <1>6 DEF IInv, Exclusive
<1>15. Undisturbed'
  <2>1. SUFFICES ASSUME NEW b \in Appending \ overlapped
                 PROVE  /\ Appending = {b}
                        /\ "ptr" \notin todo'[b] => albums.ptr = view'[b].ptr
                        /\ "len" \notin todo'[b] => albums.len = view'[b].len
                        /\ "cap" \notin todo'[b] => albums.cap = view'[b].cap
    BY <1>4, <1>6 DEF Undisturbed
  <2>2. b = a /\ Appending = {b} /\ albums.ptr = view[a].ptr /\ albums.cap = view[a].cap
    BY <1>4, <1>6, <2>1 DEF IInv, Undisturbed
  <2> QED
    BY <1>3, <2>2
<1>16. ASSUME ~astray PROVE SeedsIn' /\ Stored' /\ AnsweredStay' /\ SeedsListed'
  <2>0. SeedsIn /\ Stored /\ AnsweredStay /\ SeedsListed
    BY <1>16, Sound
  <2>1. ASSUME NEW b \in Adds, NEW k \in Nat, InPlace(b, k)
        PROVE  InPlace(b, k)'
    <3>1. Has(albums.ptr, k, b)'
      BY <1>1, <1>4, <1>7, <2>1 DEF InPlace, Has
    <3>2. view[a].len >= k /\ Has(view[a].ptr, k, b)
      BY <1>4, <1>6, <2>1 DEF InPlace, Sees
    <3>3. Sees(a, k, b)' /\ view'[a].len > k
      <4>1. k \in 1..view[a].len
        <5>1. DOMAIN arrays[view[a].ptr] = 1..Len(arrays[view[a].ptr])
          BY <1>7, <1>10, Positions DEF IInv, Slices
        <5> QED
          BY <1>7, <1>10, <3>2, <5>1 DEF Has
      <4>2. Has(view[a].ptr, k, b)'
        BY <1>2, <3>2, <4>1 DEF Has
      <4> QED
        BY <1>2, <1>7, <1>10, <3>2, <4>2 DEF Sees
    <3>4. ASSUME NEW c \in Appending, c # a PROVE Sees(c, k, b)' /\ (pc'[c] = "store" => view'[c].len > k)
      <4>1. c \in Adds /\ Sees(c, k, b) /\ (pc[c] = "store" => view[c].len > k) /\ view[c].ptr \in DOMAIN arrays
        BY <1>7, <2>1 DEF InPlace, Appending, Requests
      <4> QED
        BY <1>1, <1>9, <3>4, <4>1 DEF Sees, Has
    <3>5. ASSUME NEW g \in Reads, Sees(g, k, b) PROVE Sees(g, k, b)'
      <4>1. view[g].ptr \in DOMAIN arrays
        BY <1>7 DEF Requests
      <4> QED
        BY <1>1, <1>8, <3>5, <4>1 DEF Sees, Has
    <3> QED
      BY <1>4, <1>6, <1>8, <2>1, <3>1, <3>3, <3>4, <3>5 DEF InPlace
  <2>2. \A b \in Adds : (pc'[b] = "201") = (pc[b] = "201")
    BY <1>4, <1>5, <1>9
  <2>3. AnsweredStay'
    BY <1>4, <2>0, <2>1, <2>2 DEF AnsweredStay
  <2>4. SeedsIn' /\ SeedsListed'
    BY <1>4, <1>8, <2>0, Grown DEF SeedsListed
  <2>5. Stored'
    <3>1. \A b \in Appending \ overlapped : b = a
      BY <1>6 DEF IInv, Undisturbed
    <3> QED
      BY <1>3, <1>4, <1>6, <3>1 DEF Stored
  <2> QED
    BY <2>3, <2>4, <2>5
<1>17. Capped'
  BY <1>4, <1>one DEF Capped
<1>18. Steady'
  <2>1. SUFFICES ASSUME locked, NEW g \in Reads \ raced, todo[g] = {}
                 PROVE  /\ pc[g] = "load" =>
                              /\ Shown(view[g])' = before[g]
                              /\ view[g].len <= albums.len
                              /\ \A b \in Adds : pc'[b] = "store" => view'[b].len > view[g].len
                        /\ pc[g] = "200" => listing[g] = before[g]
    BY <1>4, <1>8 DEF Steady
  <2>2. /\ pc[g] = "load" =>
              /\ Shown(view[g]) = before[g]
              /\ view[g].len <= albums.len
              /\ \A b \in Adds : pc[b] = "store" => view[b].len > view[g].len
        /\ pc[g] = "200" => listing[g] = before[g]
    BY <2>1 DEF IInv, Steady
  <2>3. Shown(view[g])' = Shown(view[g])
    BY <1>1, <1>7, <1>8 DEF Shown, Requests
  <2>4. albums.len = view[a].len
    BY <1>4, <1>6, <2>1 DEF IInv, Exclusive, Undisturbed
  <2>5. g \in Requests
    BY DEF Requests
  <2> QED
    BY <1>2, <1>7, <1>9, <1>10, <2>2, <2>3, <2>4, <2>5
<1> QED
  BY <1>4, <1>11, <1>12, <1>13, <1>14, <1>15, <1>16, <1>17, <1>18 DEF IInv, Intact

\* A word of the header that an append stores shows at least what the word that
\* was there did.
LEMMA StoreWordPreserves ==
    ASSUME IInv, NEW a \in Adds, NEW word \in Words, StoreWord(a, word)
    PROVE  IInv'
<1>1. /\ pc[a] = "store" /\ word \in todo[a] /\ a \in Requests
      /\ todo' = [todo EXCEPT ![a] = @ \ {word}]
      /\ albums' = [albums EXCEPT ![word] = view[a][word]]
      /\ UNCHANGED <<arrays, locked, mu, pc, view, listing, astray, overlapped, due, raced, before>>
  BY Distinct DEF StoreWord, historyVars, listVars
<1>2. todo'[a] = todo[a] \ {word} /\ \A r \in Requests : r # a => todo'[r] = todo[r]
  BY <1>1 DEF IInv, ByRequest
<1>3. /\ albums.ptr \in DOMAIN arrays /\ albums.len \in Nat /\ albums.cap \in Nat
      /\ \A r \in Requests : view[r].ptr \in DOMAIN arrays /\ view[r].len \in Nat
  BY Headers DEF IInv
<1>4. albums \in [ptr : Nat, len : Nat, cap : Nat] /\ view[a] \in [ptr : Nat, len : Nat, cap : Nat]
  BY <1>1 DEF IInv, ByRequest
<1>5. /\ albums'.ptr = IF word = "ptr" THEN view[a].ptr ELSE albums.ptr
      /\ albums'.len = IF word = "len" THEN view[a].len ELSE albums.len
      /\ albums'.cap = IF word = "cap" THEN view[a].cap ELSE albums.cap
  BY <1>1, <1>4 DEF Words
<1>6. albums' \in [ptr : Nat, len : Nat, cap : Nat]
  BY <1>1, <1>4 DEF Words
<1>7. Appending' = Appending /\ a \in Appending
  BY <1>1 DEF Appending
<1>8. \A g \in Reads : todo'[g] = todo[g]
  BY <1>2, Distinct DEF Requests
<1>9. ByRequest'
  <2>1. todo' \in [Requests -> SUBSET (Words \cup {"element"})]
    BY <1>1 DEF IInv, ByRequest
  <2> QED
    BY <1>1, <1>6, <2>1 DEF IInv, ByRequest
<1>10. TypeOK'
  <2>1. albums' \in [ptr : DOMAIN arrays, len : Nat, cap : Nat]
    <3>1. albums'.ptr \in DOMAIN arrays
      BY <1>1, <1>3, <1>5
    <3> QED
      BY <1>6, <3>1, Header
  <2>2. \A r \in Requests : todo'[r] \subseteq Words \cup {"element"}
    BY <1>9 DEF ByRequest
  <2> QED
    BY <1>1, <2>1, <2>2 DEF IInv, TypeOK, Inside
<1>11. Slices'
  <2>1. albums'.len >= Seeds
    BY <1>1, <1>5 DEF IInv, Slices
  <2> QED
    BY <1>1, <2>1 DEF IInv, Slices, Elements
<1>12. Exclusive'
  BY <1>1, <1>7 DEF IInv, Exclusive
<1>13. Undisturbed'
  <2>1. SUFFICES ASSUME NEW b \in Appending \ overlapped
                 PROVE  /\ Appending = {b}
                        /\ "ptr" \notin todo'[b] => albums'.ptr = view[b].ptr
                        /\ "len" \notin todo'[b] => albums'.len = view[b].len
                        /\ "cap" \notin todo'[b] => albums'.cap = view[b].cap
    BY <1>1, <1>7 DEF Undisturbed
  <2>2. /\ b = a /\ Appending = {b}
        /\ "ptr" \notin todo[a] => albums.ptr = view[a].ptr
        /\ "len" \notin todo[a] => albums.len = view[a].len
        /\ "cap" \notin todo[a] => albums.cap = view[a].cap
    BY <1>1, <1>7, <2>1 DEF IInv, Undisturbed
  <2> QED
    BY <1>2, <1>5, <2>2
<1>14. ASSUME ~astray PROVE SeedsIn' /\ Stored' /\ AnsweredStay' /\ SeedsListed'
  <2>0. SeedsIn /\ Stored /\ AnsweredStay /\ SeedsListed
    BY <1>14, Sound
  <2>1. ASSUME NEW b \in Adds, NEW k \in Nat, InPlace(b, k)
        PROVE  InPlace(b, k)'
    <3>1. view[a].len > k /\ view[a].len >= k /\ Has(view[a].ptr, k, b) /\ albums.len >= k /\ Has(albums.ptr, k, b)
      BY <1>1, <1>7, <2>1 DEF InPlace, Sees
    <3>2. albums'.len >= k /\ Has(albums.ptr, k, b)'
      BY <1>1, <1>5, <3>1 DEF Has
    <3>3. Sees(a, k, b)'
      BY <1>1, <3>1 DEF Sees, Has
    <3>4. \A r \in Requests : r # a => Sees(r, k, b)' = Sees(r, k, b)
      BY <1>1, <1>2 DEF Sees, Has
    <3> QED
      BY <1>1, <1>7, <2>1, <3>2, <3>3, <3>4, Distinct DEF InPlace, Appending, Requests
  <2>2. AnsweredStay'
    BY <1>1, <2>0, <2>1 DEF AnsweredStay
  <2>3. SeedsIn' /\ SeedsListed'
    BY <1>1, <2>0 DEF SeedsIn, SeedsListed
  <2>4. Stored'
    <3>1. \A b \in Adds : "element" \notin todo'[b] => "element" \notin todo[b]
      BY <1>2, Distinct DEF Words
    <3> QED
      BY <1>1, <1>7, <2>0, <3>1 DEF Stored, Has
  <2> QED
    BY <2>2, <2>3, <2>4
<1>15. Capped'
  BY <1>1, <1>5 DEF IInv, Capped, Storing
<1>16. Steady'
  <2>1. SUFFICES ASSUME locked, NEW g \in Reads \ raced
                 PROVE  /\ pc[g] = "load" => todo[g] = {}
                        /\ pc[g] = "load" =>
                              /\ Shown(view[g])' = before[g]
                              /\ view[g].len <= albums'.len
                              /\ \A b \in Adds : pc[b] = "store" => view[b].len > view[g].len
                        /\ pc[g] = "200" => listing[g] = before[g]
    BY <1>1, <1>8 DEF Steady
  <2>2. pc[g] = "load" => todo[g] = {}
    BY <1>1, <2>1 DEF IInv, Steady
  <2>3. /\ pc[g] = "load" =>
              /\ Shown(view[g]) = before[g]
              /\ view[g].len <= albums.len
              /\ \A b \in Adds : pc[b] = "store" => view[b].len > view[g].len
        /\ pc[g] = "200" => listing[g] = before[g]
    BY <2>1, <2>2 DEF IInv, Steady
  <2>4. Shown(view[g])' = Shown(view[g])
    BY <1>1 DEF Shown
  <2>5. g \in Requests
    BY DEF Requests
  <2>6. pc[g] = "load" => view[g].len <= albums'.len
    BY <1>1, <1>3, <1>5, <2>3, <2>5
  <2> QED
    BY <2>2, <2>3, <2>4, <2>6
<1> QED
  BY <1>1, <1>9, <1>10, <1>11, <1>12, <1>13, <1>14, <1>15, <1>16 DEF IInv, Intact

\* A store inside an array or outside it changes at most one place of one array.
LEMMA OnePlace ==
    ASSUME IInv, NEW a \in Adds, StoreElement(a)
    PROVE  /\ arrays' \in Seq(Seq(Elements)) /\ Len(arrays') = Len(arrays)
           /\ DOMAIN arrays' = DOMAIN arrays
           /\ \A q \in DOMAIN arrays : /\ DOMAIN arrays'[q] = DOMAIN arrays[q]
                                       /\ Len(arrays'[q]) = Len(arrays[q])
           /\ \A q \in DOMAIN arrays' : \A j \in DOMAIN arrays'[q] : arrays'[q][j] \in Elements
           /\ Inside(a) =>
                 /\ arrays'[view[a].ptr][view[a].len] = a
                 /\ \A q \in DOMAIN arrays : \A j \in DOMAIN arrays[q] :
                       q # view[a].ptr \/ j # view[a].len => arrays'[q][j] = arrays[q][j]
<1>1. arrays \in Seq(Seq(Elements)) /\ view[a].ptr \in DOMAIN arrays
  BY Distinct, Headers DEF IInv, Slices
<1>2. a \in Elements /\ Garbage \in Elements
  BY DEF Elements
<1>3. /\ arrays' \in Seq(Seq(Elements)) /\ Len(arrays') = Len(arrays)
      /\ DOMAIN arrays' = DOMAIN arrays
      /\ \A q \in DOMAIN arrays : /\ DOMAIN arrays'[q] = DOMAIN arrays[q]
                                  /\ Len(arrays'[q]) = Len(arrays[q])
      /\ Inside(a) =>
            /\ arrays'[view[a].ptr][view[a].len] = a
            /\ \A q \in DOMAIN arrays : \A j \in DOMAIN arrays[q] :
                  q # view[a].ptr \/ j # view[a].len => arrays'[q][j] = arrays[q][j]
  <2>1. CASE Inside(a)
    <3>1. arrays' = [arrays EXCEPT ![view[a].ptr][view[a].len] = a] /\ view[a].len \in DOMAIN arrays[view[a].ptr]
      BY <2>1 DEF StoreElement, Inside
    <3> QED
      BY <1>1, <1>2, <3>1, ElementStored
  <2>2. CASE ~ Inside(a) /\ arrays' = arrays
    BY <1>1, <2>2
  <2>3. ASSUME ~ Inside(a), NEW p \in DOMAIN arrays, NEW i \in DOMAIN arrays[p],
               arrays' = [arrays EXCEPT ![p][i] = Garbage]
        PROVE  /\ arrays' \in Seq(Seq(Elements)) /\ Len(arrays') = Len(arrays)
               /\ DOMAIN arrays' = DOMAIN arrays
               /\ \A q \in DOMAIN arrays : /\ DOMAIN arrays'[q] = DOMAIN arrays[q]
                                           /\ Len(arrays'[q]) = Len(arrays[q])
    BY <1>1, <1>2, <2>3, ElementStored
  <2> QED
    BY <2>1, <2>2, <2>3 DEF StoreElement
<1>4. \A q \in DOMAIN arrays' : \A j \in DOMAIN arrays'[q] : arrays'[q][j] \in Elements
  <2>1. \A q \in DOMAIN arrays' : arrays'[q] \in Seq(Elements)
    BY <1>3, ElementOfSeq, LenProperties
  <2> QED
    BY <2>1, ElementOfSeq, LenProperties
<1> QED
  BY <1>3, <1>4

\* The element is stored behind everything that a header may have to show, or
\* what is in place is given up.
LEMMA StoreElementPreserves ==
    ASSUME IInv, NEW a \in Adds, StoreElement(a)
    PROVE  IInv'
<1> DEFINE p == view[a].ptr
           n == view[a].len
<1>1. /\ pc[a] = "store" /\ "element" \in todo[a] /\ a \in Requests
      /\ todo' = [todo EXCEPT ![a] = @ \ {"element"}]
      /\ astray' = (astray \/ ~Inside(a))
      /\ UNCHANGED <<albums, locked, mu, pc, view, listing, overlapped, due, raced, before>>
  BY Distinct DEF StoreElement, listVars
<1>2. todo'[a] = todo[a] \ {"element"} /\ \A r \in Requests : r # a => todo'[r] = todo[r]
  BY <1>1 DEF IInv, ByRequest
<1>3. /\ albums.ptr \in DOMAIN arrays /\ albums.len \in Nat
      /\ \A r \in Requests : view[r].ptr \in DOMAIN arrays /\ view[r].len \in Nat
  BY Headers DEF IInv
<1>4. p \in DOMAIN arrays /\ n > Seeds /\ n \in Nat /\ Seeds \in Nat
  BY <1>1, <1>3, SeedsAssumption DEF IInv, Slices
<1>5. /\ arrays' \in Seq(Seq(Elements)) /\ Len(arrays') = Len(arrays)
      /\ DOMAIN arrays' = DOMAIN arrays
      /\ \A q \in DOMAIN arrays : /\ DOMAIN arrays'[q] = DOMAIN arrays[q]
                                  /\ Len(arrays'[q]) = Len(arrays[q])
      /\ \A q \in DOMAIN arrays' : \A i \in DOMAIN arrays'[q] : arrays'[q][i] \in Elements
      /\ Inside(a) =>
            /\ arrays'[p][n] = a
            /\ \A q \in DOMAIN arrays : \A j \in DOMAIN arrays[q] :
                  q # p \/ j # n => arrays'[q][j] = arrays[q][j]
  BY OnePlace
<1> HIDE DEF p, n
<1>6. Appending' = Appending /\ a \in Appending
  BY <1>1 DEF Appending
<1>7. \A g \in Reads : todo'[g] = todo[g]
  BY <1>2, Distinct DEF Requests
<1>8. ByRequest'
  BY <1>1 DEF IInv, ByRequest
<1>9. TypeOK'
  <2>1. {albums'} \cup {view'[q] : q \in Requests} \subseteq [ptr : DOMAIN arrays', len : Nat, cap : Nat]
    BY <1>1, <1>5 DEF IInv, TypeOK
  <2>2. \A q \in Requests : todo'[q] \subseteq Words \cup {"element"}
    BY <1>8 DEF ByRequest
  <2>3. locked => ~astray' /\ \A b \in Adds : pc[b] = "store" => Inside(b)'
    <3>1. locked => ~astray /\ \A b \in Adds : pc[b] = "store" => Inside(b)
      BY DEF IInv, TypeOK
    <3>2. \A b \in Adds : Inside(b) => Inside(b)'
      BY <1>1, <1>3, <1>5, Distinct DEF Inside
    <3> QED
      BY <1>1, <3>1, <3>2
  <2>4. astray' \in BOOLEAN
    BY <1>1
  <2> QED
    BY <1>1, <1>5, <2>1, <2>2, <2>3, <2>4 DEF IInv, TypeOK
<1>10. Slices'
  BY <1>1, <1>5 DEF IInv, Slices
<1>11. Exclusive'
  BY <1>1, <1>6 DEF IInv, Exclusive
<1>12. Undisturbed'
  <2>1. \A b \in Adds, word \in {"ptr", "len", "cap"} : word \notin todo'[b] => word \notin todo[b]
    BY <1>2, Distinct
  <2> QED
    BY <1>1, <1>6, <2>1 DEF IInv, Undisturbed, Appending
<1>13. Capped'
  BY <1>1, <1>3, <1>5, Distinct DEF IInv, Capped, Storing
<1>14. ASSUME ~astray' PROVE SeedsIn' /\ Stored' /\ AnsweredStay' /\ SeedsListed'
  <2>0. SeedsIn /\ Stored /\ AnsweredStay /\ SeedsListed /\ Inside(a)
    BY <1>1, <1>14, Sound
  <2>1. ASSUME NEW b \in Adds, NEW k \in Nat, InPlace(b, k)
        PROVE  InPlace(b, k)'
    <3>1. n > k
      BY <1>1, <1>6, <2>1 DEF InPlace, n
    <3>2. \A q \in DOMAIN arrays : Has(q, k, b) => Has(q, k, b)'
      BY <1>4, <1>5, <2>0, <3>1 DEF Has
    <3>3. Has(albums.ptr, k, b)'
      BY <1>1, <1>3, <2>1, <3>2 DEF InPlace, Has
    <3>4. ASSUME NEW r \in Requests, Sees(r, k, b)
          PROVE  Sees(r, k, b)'
      <4>1. view'[r] = view[r] /\ pc'[r] = pc[r] /\ view[r].ptr \in DOMAIN arrays
        BY <1>1, <1>3
      <4>2. Has(view[r].ptr, k, b) => Has(view[r].ptr, k, b)'
        BY <3>2, <4>1 DEF Has
      <4>3. /\ "len" \notin todo'[r] \/ pc[r] = "store" => "len" \notin todo[r] \/ pc[r] = "store"
            /\ "ptr" \notin todo'[r] \/ pc[r] = "store" => "ptr" \notin todo[r] \/ pc[r] = "store"
        BY <1>2
      <4> QED
        BY <3>4, <4>1, <4>2, <4>3 DEF Sees
    <3> QED
      BY <1>1, <1>6, <2>1, <3>3, <3>4 DEF InPlace, Appending, Requests
  <2>2. AnsweredStay'
    BY <1>1, <2>0, <2>1 DEF AnsweredStay
  <2>3. SeedsIn'
    <3>1. SUFFICES ASSUME NEW q \in DOMAIN arrays, NEW i \in 1..Seeds PROVE arrays'[q][i] = Seed
      BY <1>5 DEF SeedsIn
    <3>2. arrays[q][i] = Seed /\ Len(arrays[q]) >= Seeds
      BY <2>0 DEF IInv, Slices, SeedsIn
    <3>3. i \in DOMAIN arrays[q] /\ i # n
      <4>1. DOMAIN arrays[q] = 1..Len(arrays[q]) /\ Len(arrays[q]) \in Nat
        BY Positions DEF IInv, Slices
      <4> QED
        BY <1>4, <3>2, <4>1
    <3> QED
      BY <1>5, <2>0, <3>2, <3>3
  <2>4. Stored'
    <3>1. \A b \in Appending \ overlapped : b = a
      BY <1>6 DEF IInv, Undisturbed
    <3>2. Has(view[a].ptr, view[a].len, a)'
      BY <1>1, <1>4, <1>5, <2>0 DEF Has, Inside, p, n
    <3> QED
      BY <1>1, <1>6, <3>1, <3>2 DEF Stored
  <2>5. SeedsListed'
    BY <1>1, <2>0 DEF SeedsListed
  <2> QED
    BY <2>2, <2>3, <2>4, <2>5
<1>15. Steady'
  <2>1. SUFFICES ASSUME locked, NEW g \in Reads \ raced
                 PROVE  /\ pc[g] = "load" => todo[g] = {}
                        /\ pc[g] = "load" =>
                              /\ Shown(view[g])' = before[g]
                              /\ view[g].len <= albums.len
                              /\ \A b \in Adds : pc[b] = "store" => view[b].len > view[g].len
                        /\ pc[g] = "200" => listing[g] = before[g]
    BY <1>1, <1>7 DEF Steady
  <2>2. pc[g] = "load" => todo[g] = {}
    BY <1>1, <2>1 DEF IInv, Steady
  <2>3. /\ pc[g] = "load" =>
              /\ Shown(view[g]) = before[g]
              /\ view[g].len <= albums.len
              /\ \A b \in Adds : pc[b] = "store" => view[b].len > view[g].len
        /\ pc[g] = "200" => listing[g] = before[g]
    BY <2>1, <2>2 DEF IInv, Steady
  <2>4. ASSUME pc[g] = "load" PROVE Shown(view[g])' = Shown(view[g])
    <3>0. Inside(a)
      BY <1>1, <2>1 DEF IInv, TypeOK
    <3>1. view[g].ptr \in DOMAIN arrays /\ view[g].len \in Nat /\ n > view[g].len
      BY <1>1, <1>3, <2>3, <2>4 DEF Requests, n
    <3>2. \A i \in 1..view[g].len : i # n
      BY <1>4, <3>1
    <3>3. DOMAIN arrays'[view[g].ptr] = DOMAIN arrays[view[g].ptr]
      BY <1>5, <3>1
    <3>4. \A i \in 1..view[g].len : i \in DOMAIN arrays[view[g].ptr] =>
             arrays'[view[g].ptr][i] = arrays[view[g].ptr][i]
      BY <1>5, <3>0, <3>1, <3>2
    <3> QED
      BY <1>1, <3>3, <3>4 DEF Shown
  <2> QED
    BY <2>2, <2>3, <2>4
<1> QED
  BY <1>8, <1>9, <1>10, <1>11, <1>12, <1>13, <1>14, <1>15 DEF IInv, Intact

\* An append that none overlapped has put its album where everybody looks.
LEMMA ReplyPreserves ==
    ASSUME IInv, NEW a \in Adds, Reply(a)
    PROVE  IInv'
<1>1. /\ pc[a] = "store" /\ todo[a] = {} /\ a \in Requests
      /\ pc' = [pc EXCEPT ![a] = "201"]
      /\ view' = [view EXCEPT ![a] = NoView]
      /\ Unlock(a)
      /\ UNCHANGED <<locked, arrays, albums, todo, listing, astray, overlapped, due, raced, before>>
  BY Distinct DEF Reply, historyVars, listVars
<1>2. pc'[a] = "201" /\ \A r \in Requests : r # a => pc'[r] = pc[r]
  BY <1>1, Counters DEF IInv
<1>3. view'[a] = NoView /\ \A r \in Requests : r # a => view'[r] = view[r]
  BY <1>1 DEF IInv, ByRequest
<1>4. Appending' = Appending \ {a} /\ a \in Appending
  BY <1>1, <1>2 DEF Appending, Requests
<1>5. /\ \A g \in Reads : pc'[g] = pc[g] /\ view'[g] = view[g]
      /\ \A b \in Adds : pc'[b] = "store" => b # a /\ pc[b] = "store" /\ view'[b] = view[b]
  BY <1>2, <1>3, Distinct DEF Requests
<1>6. mu' = None /\ (locked => Appending = {a})
  BY <1>1, <1>4 DEF IInv, Exclusive, Unlock
<1>7. Seeds \in Nat /\ 1 \in DOMAIN arrays
  BY SeedsAssumption, Positions DEF IInv, Slices
<1>8. /\ NoView \in [ptr : DOMAIN arrays, len : Nat, cap : Nat]
      /\ NoView \in [ptr : Nat, len : Nat, cap : Nat] /\ NoView.len >= Seeds
  BY <1>7 DEF NoView
<1>9. ByRequest'
  <2>1. view' \in [Requests -> [ptr : Nat, len : Nat, cap : Nat]]
    BY <1>1, <1>8 DEF IInv, ByRequest
  <2> QED
    BY <1>1, <2>1 DEF IInv, ByRequest
<1>10. TypeOK'
  <2>1. {albums} \cup {view'[q] : q \in Requests} \subseteq [ptr : DOMAIN arrays, len : Nat, cap : Nat]
    BY <1>3, <1>8 DEF IInv, TypeOK
  <2>2. pc' \in [Requests -> {"start", "load", "store", "200", "201", "400"}]
    BY <1>1 DEF IInv, TypeOK
  <2>3. locked => ~astray /\ \A b \in Adds : pc'[b] = "store" => Inside(b)'
    BY <1>1, <1>5 DEF IInv, TypeOK, Inside
  <2> QED
    BY <1>1, <1>6, <2>1, <2>2, <2>3 DEF IInv, TypeOK
<1>11. Slices'
  <2>1. \A q \in Requests : view'[q].len >= Seeds
    BY <1>3, <1>8 DEF IInv, Slices
  <2> QED
    BY <1>1, <1>5, <2>1 DEF IInv, Slices, Elements
<1>12. Exclusive'
  BY <1>1, <1>4, <1>6 DEF IInv, Exclusive
<1>13. Undisturbed'
  BY <1>1, <1>4 DEF IInv, Undisturbed
<1>14. ASSUME ~astray PROVE SeedsIn' /\ Stored' /\ AnsweredStay' /\ SeedsListed'
  <2>0. SeedsIn /\ Stored /\ AnsweredStay /\ SeedsListed
    BY <1>14, Sound
  <2>1. ASSUME NEW b \in Adds, NEW k \in Nat, InPlace(b, k)
        PROVE  InPlace(b, k)'
    <3>1. \A r \in Requests : r # a => Sees(r, k, b)' = Sees(r, k, b)
      BY <1>1, <1>2, <1>3 DEF Sees, Has
    <3>2. \A c \in Appending' : /\ Sees(c, k, b)' = Sees(c, k, b)
                                /\ pc'[c] = pc[c] /\ view'[c] = view[c] /\ c \in Appending
      BY <1>2, <1>3, <1>4, <3>1 DEF Appending, Requests
    <3>3. \A g \in Reads : Sees(g, k, b)' = Sees(g, k, b)
      BY <3>1, Distinct DEF Requests
    <3> QED
      BY <1>1, <1>5, <2>1, <3>2, <3>3 DEF InPlace, Has
  <2>2. ASSUME a \notin overlapped PROVE \E k \in Nat : InPlace(a, k)'
    <3>1. /\ Appending = {a} /\ albums.ptr = view[a].ptr /\ albums.len = view[a].len
          /\ Has(view[a].ptr, view[a].len, a)
      BY <1>1, <1>4, <2>0, <2>2 DEF IInv, Undisturbed, Stored
    <3>2. view[a].len \in Nat
      BY <1>1, Headers DEF IInv
    <3>3. \A g \in Reads : a \notin due[g]
      BY <1>1, <2>0 DEF AnsweredStay
    <3>4. \A k \in {view[a].len} : InPlace(a, k)'
      BY <1>1, <1>4, <3>1, <3>2, <3>3 DEF InPlace, Has
    <3> QED
      BY <3>2, <3>4
  <2>3. ASSUME NEW b \in Adds \ overlapped, pc'[b] = "201" PROVE \E k \in Nat : InPlace(b, k)'
    <3>1. CASE b = a
      BY <2>2, <3>1
    <3>2. CASE b # a
      <4>1. pc[b] = "201"
        BY <1>2, <2>3, <3>2, Distinct
      <4> QED
        BY <2>0, <2>1, <2>3, <4>1 DEF AnsweredStay
    <3> QED
      BY <3>1, <3>2
  <2>4. \A b \in Adds : pc[b] = "201" => pc'[b] = "201"
    BY <1>1, <1>2, Distinct
  <2>5. AnsweredStay'
    BY <1>1, <2>0, <2>3, <2>4 DEF AnsweredStay
  <2>6. SeedsIn' /\ SeedsListed'
    BY <1>1, <1>5, <2>0 DEF SeedsIn, SeedsListed
  <2>7. Stored'
    BY <1>1, <1>4, <1>5, <2>0 DEF Stored, Has
  <2> QED
    BY <2>5, <2>6, <2>7
<1>15. Capped'
  <2>1. SUFFICES ASSUME locked PROVE Storing' = {} /\ albums.cap = Len(arrays[albums.ptr])
    BY <1>1 DEF Capped
  <2>2. Appending = {a} /\ albums.ptr = view[a].ptr /\ albums.cap = view[a].cap
    BY <1>1, <1>4, <1>6, <2>1 DEF IInv, Exclusive, Undisturbed
  <2>3. Storing' = {}
    BY <1>5, <2>2 DEF Storing, Appending
  <2> QED
    BY <1>1, <1>4, <2>1, <2>2, <2>3 DEF IInv, Capped, Storing, Appending
<1>16. Steady'
  <2>1. SUFFICES ASSUME locked, NEW g \in Reads \ raced
                 PROVE  /\ pc[g] = "load" => todo[g] = {}
                        /\ pc[g] = "load" =>
                              /\ Shown(view[g])' = before[g]
                              /\ view[g].len <= albums.len
                              /\ \A b \in Adds : pc'[b] = "store" => view'[b].len > view[g].len
                        /\ pc[g] = "200" => listing[g] = before[g]
    BY <1>1, <1>5 DEF Steady
  <2>2. pc[g] = "load" => todo[g] = {}
    BY <1>1, <2>1 DEF IInv, Steady
  <2>3. /\ pc[g] = "load" =>
              /\ Shown(view[g]) = before[g]
              /\ view[g].len <= albums.len
              /\ \A b \in Adds : pc[b] = "store" => view[b].len > view[g].len
        /\ pc[g] = "200" => listing[g] = before[g]
    BY <2>1, <2>2 DEF IInv, Steady
  <2>4. Shown(view[g])' = Shown(view[g])
    BY <1>1, <1>5 DEF Shown
  <2> QED
    BY <1>5, <2>2, <2>3, <2>4
<1> QED
  BY <1>1, <1>9, <1>10, <1>11, <1>12, <1>13, <1>14, <1>15, <1>16 DEF IInv, Intact

-----------------------------------------------------------------------------
(* The steps of getAlbums and getAlbumByID *)

\* A GET that begins has loaded nothing yet.
LEMMA BeginPreserves ==
    ASSUME IInv, NEW g \in Reads, Begin(g)
    PROVE  IInv'
<1>1. /\ pc[g] = "start" /\ g \in Requests
      /\ pc' = [pc EXCEPT ![g] = "load"]
      /\ todo' = [todo EXCEPT ![g] = {"ptr", "len"}]
      /\ due' = [due EXCEPT ![g] = {a \in Adds : pc[a] = "201" /\ (locked \/ a \notin overlapped)}]
      /\ before' = IF locked THEN [before EXCEPT ![g] = Shown(albums)] ELSE before
      /\ raced' = raced \cup IF locked /\ \E a \in Adds : pc[a] = "store" THEN {g} ELSE {}
      /\ UNCHANGED <<locked, mu, arrays, albums, view, listing, astray, overlapped>>
  BY DEF Begin, Requests
<1>2. pc'[g] = "load" /\ \A r \in Requests : r # g => pc'[r] = pc[r]
  BY <1>1, Counters DEF IInv
<1>3. todo'[g] = {"ptr", "len"} /\ \A r \in Requests : r # g => todo'[r] = todo[r]
  BY <1>1 DEF IInv, ByRequest
<1>4. /\ due'[g] = {a \in Adds : pc[a] = "201" /\ (locked \/ a \notin overlapped)}
      /\ locked => before'[g] = Shown(albums)
      /\ \A f \in Reads : f # g => due'[f] = due[f] /\ before'[f] = before[f]
  BY <1>1 DEF IInv, ByRequest
<1>5. \A a \in Adds : pc'[a] = pc[a] /\ todo'[a] = todo[a]
  BY <1>2, <1>3, Distinct
<1>6. Appending' = Appending
  BY <1>5 DEF Appending
<1>7. ByRequest'
  <2>1. todo' \in [Requests -> SUBSET (Words \cup {"element"})]
    BY <1>1 DEF IInv, ByRequest, Words
  <2>2. due' \in [Reads -> SUBSET Adds] /\ before' = [f \in Reads |-> before'[f]]
    BY <1>1 DEF IInv, ByRequest
  <2> QED
    BY <1>1, <2>1, <2>2 DEF IInv, ByRequest
<1>8. TypeOK'
  <2>1. pc' \in [Requests -> {"start", "load", "store", "200", "201", "400"}]
    BY <1>1 DEF IInv, TypeOK
  <2>2. \A q \in Requests : todo'[q] \subseteq Words \cup {"element"}
    BY <1>7 DEF ByRequest
  <2> QED
    BY <1>1, <1>5, <2>1, <2>2 DEF IInv, TypeOK, Inside
<1>9. Slices'
  BY <1>1, <1>5 DEF IInv, Slices, Elements
<1>10. Exclusive'
  BY <1>1, <1>6 DEF IInv, Exclusive
<1>11. Undisturbed'
  BY <1>1, <1>5, <1>6 DEF IInv, Undisturbed, Appending
<1>12. ASSUME ~astray PROVE SeedsIn' /\ Stored' /\ AnsweredStay' /\ SeedsListed'
  <2>0. SeedsIn /\ Stored /\ AnsweredStay /\ SeedsListed
    BY <1>12, Sound
  <2>1. ASSUME NEW b \in Adds, NEW k \in Nat, InPlace(b, k)
        PROVE  InPlace(b, k)'
    <3>1. Sees(g, k, b)'
      BY <1>1, <1>2, <1>3, Distinct DEF Sees
    <3>2. \A r \in Requests : r # g => Sees(r, k, b)' = Sees(r, k, b)
      BY <1>1, <1>2, <1>3 DEF Sees, Has
    <3>3. \A c \in Appending : Sees(c, k, b)' = Sees(c, k, b) /\ pc'[c] = pc[c]
      BY <1>5, <3>2, Distinct DEF Appending
    <3>4. \A f \in Reads : f # g => Sees(f, k, b)' = Sees(f, k, b) /\ pc'[f] = pc[f]
      BY <1>2, <3>2 DEF Requests
    <3> QED
      BY <1>1, <1>2, <1>4, <1>6, <2>1, <3>1, <3>3, <3>4 DEF InPlace, Has
  <2>2. \A f \in Reads : due'[f] \subseteq {a \in Adds \ overlapped : pc[a] = "201"}
    <3>1. due'[g] \subseteq {a \in Adds \ overlapped : pc[a] = "201"}
      BY <1>4 DEF IInv, Exclusive
    <3> QED
      BY <1>4, <2>0, <3>1 DEF AnsweredStay
  <2>3. AnsweredStay'
    BY <1>1, <1>5, <2>0, <2>1, <2>2 DEF AnsweredStay
  <2>4. SeedsIn' /\ SeedsListed'
    BY <1>1, <1>2, <2>0 DEF SeedsIn, SeedsListed, Requests
  <2>5. Stored'
    BY <1>1, <1>5, <1>6, <2>0 DEF Stored, Has, Appending
  <2> QED
    BY <2>3, <2>4, <2>5
<1>13. Capped'
  BY <1>1, <1>5 DEF IInv, Capped, Storing
<1>14. Steady'
  <2>1. Shown(albums)' = Shown(albums)
    BY <1>1 DEF Shown
  <2>2. \A f \in Reads : Shown(view[f])' = Shown(view[f])
    BY <1>1 DEF Shown
  <2>3. ASSUME NEW f \in Reads \ raced', f # g
        PROVE  f \in Reads \ raced /\ pc'[f] = pc[f] /\ todo'[f] = todo[f] /\ before'[f] = before[f]
    BY <1>1, <1>2, <1>3, <1>4, <2>3 DEF Requests
  <2>4. locked => g \in raced' \/ \A a \in Adds : pc[a] # "store"
    BY <1>1
  <2>6. SUFFICES ASSUME locked, NEW f \in Reads \ raced'
                 PROVE  /\ pc'[f] = "load" /\ todo'[f] # {} =>
                              /\ \A a \in Adds : pc[a] # "store"
                              /\ Shown(albums) = before'[f]
                              /\ "ptr" \notin todo'[f] => view[f].ptr = albums.ptr
                              /\ "len" \notin todo'[f] => view[f].len = albums.len
                        /\ pc'[f] = "load" /\ todo'[f] = {} =>
                              /\ Shown(view[f]) = before'[f]
                              /\ view[f].len <= albums.len
                              /\ \A a \in Adds : pc[a] = "store" => view[a].len > view[f].len
                        /\ pc'[f] = "200" => listing[f] = before'[f]
    BY <1>1, <1>5, <2>1, <2>2 DEF Steady
  <2>7. CASE f = g
    BY <1>2, <1>3, <1>4, <2>4, <2>6, <2>7
  <2>8. CASE f # g
    BY <2>3, <2>6, <2>8 DEF IInv, Steady
  <2> QED
    BY <2>7, <2>8
<1> QED
  BY <1>1, <1>7, <1>8, <1>9, <1>10, <1>11, <1>12, <1>13, <1>14 DEF IInv, Intact

\* What the loaded header shows is listed.
LEMMA EncodePreserves ==
    ASSUME IInv, NEW g \in Reads, Encode(g)
    PROVE  IInv'
<1>1. /\ pc[g] = "load" /\ todo[g] = {} /\ g \in Requests
      /\ pc' = [pc EXCEPT ![g] = "200"]
      /\ listing' = [listing EXCEPT ![g] = Shown(view[g])]
      /\ view' = [view EXCEPT ![g] = NoView]
      /\ UNCHANGED <<locked, mu, arrays, albums, todo, astray, overlapped, due, raced, before>>
  BY DEF Encode, Requests, historyVars, listVars
<1>2. pc'[g] = "200" /\ \A r \in Requests : r # g => pc'[r] = pc[r]
  BY <1>1, Counters DEF IInv
<1>3. view'[g] = NoView /\ \A r \in Requests : r # g => view'[r] = view[r]
  BY <1>1 DEF IInv, ByRequest
<1>4. listing'[g] = Shown(view[g]) /\ \A f \in Reads : f # g => listing'[f] = listing[f]
  BY <1>1 DEF IInv, ByRequest
<1>5. \A a \in Adds : pc'[a] = pc[a] /\ view'[a] = view[a]
  BY <1>2, <1>3, Distinct
<1>6. Appending' = Appending
  BY <1>5 DEF Appending
<1>7. Seeds \in Nat /\ 1 \in DOMAIN arrays /\ view[g].ptr \in DOMAIN arrays /\ view[g].len \in Nat
  BY <1>1, SeedsAssumption, Headers, Positions DEF IInv, Slices
<1>8. /\ NoView \in [ptr : DOMAIN arrays, len : Nat, cap : Nat]
      /\ NoView \in [ptr : Nat, len : Nat, cap : Nat] /\ NoView.len >= Seeds
  BY <1>7 DEF NoView
<1>9. DOMAIN listing'[g] = 1..view[g].len
  BY <1>4 DEF Shown
<1>10. \A i \in 1..view[g].len :
          listing'[g][i] = IF i \in DOMAIN arrays[view[g].ptr] THEN arrays[view[g].ptr][i] ELSE Garbage
  BY <1>4 DEF Shown
<1>11. ByRequest'
  <2>1. view' \in [Requests -> [ptr : Nat, len : Nat, cap : Nat]] /\ listing' = [f \in Reads |-> listing'[f]]
    BY <1>1, <1>8 DEF IInv, ByRequest
  <2> QED
    BY <1>1, <2>1 DEF IInv, ByRequest
<1>12. TypeOK'
  <2>1. {albums} \cup {view'[q] : q \in Requests} \subseteq [ptr : DOMAIN arrays, len : Nat, cap : Nat]
    BY <1>3, <1>8 DEF IInv, TypeOK
  <2>2. pc' \in [Requests -> {"start", "load", "store", "200", "201", "400"}]
    BY <1>1 DEF IInv, TypeOK
  <2>3. \A f \in Reads : \A i \in DOMAIN listing'[f] : listing'[f][i] \in Elements
    <3>1. \A i \in DOMAIN listing'[g] : listing'[g][i] \in Elements
      BY <1>7, <1>9, <1>10 DEF IInv, TypeOK, Elements
    <3> QED
      BY <1>4, <3>1 DEF IInv, TypeOK
  <2> QED
    BY <1>1, <1>5, <2>1, <2>2, <2>3 DEF IInv, TypeOK, Inside
<1>13. Slices'
  <2>1. \A q \in Requests : view'[q].len >= Seeds
    BY <1>3, <1>8 DEF IInv, Slices
  <2> QED
    BY <1>1, <1>5, <2>1 DEF IInv, Slices, Elements
<1>14. Exclusive'
  BY <1>1, <1>6 DEF IInv, Exclusive
<1>15. Undisturbed'
  BY <1>1, <1>5, <1>6 DEF IInv, Undisturbed, Appending
<1>16. ASSUME ~astray PROVE SeedsIn' /\ Stored' /\ AnsweredStay' /\ SeedsListed'
  <2>0. SeedsIn /\ Stored /\ AnsweredStay /\ SeedsListed
    BY <1>16, Sound
  <2>1. ASSUME NEW b \in Adds, NEW k \in Nat, InPlace(b, k)
        PROVE  InPlace(b, k)'
    <3>1. ASSUME b \in due[g] PROVE k \in DOMAIN listing'[g] /\ listing'[g][k] = b
      <4>1. view[g].len >= k /\ k \in DOMAIN arrays[view[g].ptr] /\ arrays[view[g].ptr][k] = b
        BY <1>1, <2>1, <3>1 DEF InPlace, Sees, Has
      <4>2. k \in 1..view[g].len
        <5>1. DOMAIN arrays[view[g].ptr] = 1..Len(arrays[view[g].ptr]) /\ Len(arrays[view[g].ptr]) \in Nat
          BY <1>7, Positions DEF IInv, Slices
        <5> QED
          BY <1>7, <4>1, <5>1
      <4> QED
        BY <1>9, <1>10, <4>1, <4>2
    <3>2. \A r \in Requests : r # g => Sees(r, k, b)' = Sees(r, k, b)
      BY <1>1, <1>2, <1>3 DEF Sees, Has
    <3>3. \A c \in Appending : Sees(c, k, b)' = Sees(c, k, b) /\ pc'[c] = pc[c] /\ view'[c] = view[c]
      BY <1>5, <3>2, Distinct DEF Appending
    <3>4. \A f \in Reads : f # g => Sees(f, k, b)' = Sees(f, k, b) /\ pc'[f] = pc[f] /\ listing'[f] = listing[f]
      BY <1>2, <1>4, <3>2 DEF Requests
    <3> QED
      BY <1>1, <1>2, <1>6, <2>1, <3>1, <3>3, <3>4 DEF InPlace, Has
  <2>2. AnsweredStay'
    BY <1>1, <1>5, <2>0, <2>1 DEF AnsweredStay
  <2>3. ASSUME NEW i \in 1..Seeds PROVE i \in DOMAIN listing'[g] /\ listing'[g][i] = Seed
    <3>1. Len(arrays[view[g].ptr]) >= Seeds /\ arrays[view[g].ptr][i] = Seed /\ view[g].len >= Seeds
      BY <1>1, <1>7, <2>0 DEF IInv, Slices, SeedsIn
    <3>2. DOMAIN arrays[view[g].ptr] = 1..Len(arrays[view[g].ptr]) /\ Len(arrays[view[g].ptr]) \in Nat
      BY <1>7, Positions DEF IInv, Slices
    <3>3. i \in 1..view[g].len /\ i \in DOMAIN arrays[view[g].ptr]
      BY <1>7, <3>1, <3>2
    <3> QED
      BY <1>9, <1>10, <3>1, <3>3
  <2>4. SeedsIn' /\ SeedsListed'
    BY <1>1, <1>2, <1>4, <2>0, <2>3 DEF SeedsIn, SeedsListed, Requests
  <2>5. Stored'
    BY <1>1, <1>5, <1>6, <2>0 DEF Stored, Has, Appending
  <2> QED
    BY <2>2, <2>4, <2>5
<1>17. Capped'
  BY <1>1, <1>5 DEF IInv, Capped, Storing
<1>18. Steady'
  <2>1. SUFFICES ASSUME locked, NEW f \in Reads \ raced
                 PROVE  /\ pc'[f] = "load" /\ todo[f] # {} =>
                              /\ \A a \in Adds : pc[a] # "store"
                              /\ Shown(albums)' = before[f]
                              /\ "ptr" \notin todo[f] => view'[f].ptr = albums.ptr
                              /\ "len" \notin todo[f] => view'[f].len = albums.len
                        /\ pc'[f] = "load" /\ todo[f] = {} =>
                              /\ Shown(view[f])' = before[f]
                              /\ view'[f].len <= albums.len
                              /\ \A a \in Adds : pc[a] = "store" => view[a].len > view'[f].len
                        /\ pc'[f] = "200" => listing'[f] = before[f]
    BY <1>1, <1>5 DEF Steady
  <2>2. CASE f = g
    BY <1>1, <1>2, <1>4, <2>1, <2>2 DEF IInv, Steady
  <2>3. CASE f # g
    <3>1. pc'[f] = pc[f] /\ view'[f] = view[f] /\ listing'[f] = listing[f]
      BY <1>2, <1>3, <1>4, <2>3 DEF Requests
    <3>2. Shown(albums)' = Shown(albums) /\ Shown(view[f])' = Shown(view[f])
      BY <1>1, <3>1 DEF Shown
    <3> QED
      BY <2>1, <3>1, <3>2 DEF IInv, Steady
  <2> QED
    BY <2>2, <2>3
<1> QED
  BY <1>1, <1>11, <1>12, <1>13, <1>14, <1>15, <1>16, <1>17, <1>18 DEF IInv, Intact

-----------------------------------------------------------------------------
(* The theorems *)

\* At first there are the seeds, and nobody at work.
LEMMA InitHolds ==
    ASSUME Init
    PROVE  IInv
<1> DEFINE s == [i \in 1..Seeds |-> Seed]
<1>1. Seeds \in Nat \ {0}
  BY SeedsAssumption
<1>2. s \in Seq(Elements) /\ Len(s) = Seeds /\ DOMAIN s = 1..Seeds /\ \A i \in 1..Seeds : s[i] = Seed
  <2>1. s \in [1..Seeds -> Elements]
    BY DEF Elements
  <2>2. s \in Seq(Elements)
    BY <1>1, <2>1, SeqDef
  <2>3. DOMAIN s = 1..Seeds /\ DOMAIN s = 1..Len(s) /\ Len(s) \in Nat
    BY <2>1, <2>2, LenProperties
  <2>4. Len(s) = Seeds
    BY <1>1, <2>3, SameLength
  <2> QED
    BY <2>2, <2>3, <2>4
<1>3. arrays = <<s>>
  BY DEF Init
<1> HIDE DEF s
<1>4. arrays \in Seq(Seq(Elements)) /\ Len(arrays) = 1 /\ DOMAIN arrays = {1} /\ arrays[1] = s
  BY <1>2, <1>3
<1>5. /\ locked \in BOOLEAN /\ mu = None /\ albums = NoView
      /\ pc = [q \in Requests |-> "start"]
      /\ view = [q \in Requests |-> NoView]
      /\ todo = [q \in Requests |-> {}]
      /\ listing = [g \in Reads |-> <<>>]
      /\ astray = FALSE /\ overlapped = {} /\ raced = {}
      /\ due = [g \in Reads |-> {}]
      /\ before = [g \in Reads |-> <<>>]
  BY DEF Init
<1>6. NoView \in [ptr : Nat, len : Nat, cap : Nat] /\ NoView \in [ptr : {1}, len : Nat, cap : Nat] /\ NoView.len = Seeds
  BY <1>1 DEF NoView
<1>7. Appending = {}
  BY <1>5 DEF Appending, Requests
<1>8. \A q \in Requests : pc[q] = "start" /\ view[q] = NoView /\ todo[q] = {}
  BY <1>5
<1>9. Adds \subseteq Requests /\ Reads \subseteq Requests
  BY DEF Requests
<1>10. ByRequest
  BY <1>5, <1>6 DEF ByRequest
<1>11. TypeOK
  <2>1. \A p \in DOMAIN arrays : \A i \in DOMAIN arrays[p] : arrays[p][i] \in Elements
    BY <1>2, <1>4 DEF Elements
  <2>2. {albums} \cup {view[q] : q \in Requests} \subseteq [ptr : DOMAIN arrays, len : Nat, cap : Nat]
    BY <1>4, <1>5, <1>6
  <2>3. pc \in [Requests -> {"start", "load", "store", "200", "201", "400"}]
    BY <1>5
  <2>4. \A g \in Reads : \A i \in DOMAIN listing[g] : listing[g][i] \in Elements
    BY <1>5
  <2> QED
    BY <1>5, <1>8, <1>9, <2>1, <2>2, <2>3, <2>4 DEF TypeOK
<1>12. Slices
  BY <1>1, <1>2, <1>4, <1>5, <1>6, <1>8, <1>9 DEF Slices
<1>13. Exclusive
  BY <1>5, <1>7 DEF Exclusive
<1>14. Undisturbed
  BY <1>7 DEF Undisturbed
<1>15. Capped
  BY <1>2, <1>4, <1>5, <1>8, <1>9 DEF Capped, Storing, NoView
<1>16. Intact
  <2>1. SeedsIn
    BY <1>2, <1>4 DEF SeedsIn
  <2>2. AnsweredStay
    BY <1>5, <1>8, <1>9 DEF AnsweredStay
  <2>3. SeedsListed
    BY <1>8, <1>9 DEF SeedsListed
  <2>4. Stored
    BY <1>7 DEF Stored
  <2> QED
    BY <2>1, <2>2, <2>3, <2>4 DEF Intact
<1>17. Steady
  BY <1>8, <1>9 DEF Steady
<1> QED
  BY <1>10, <1>11, <1>12, <1>13, <1>14, <1>15, <1>16, <1>17 DEF IInv

\* Every step keeps the invariant.
LEMMA NextPreserves ==
    ASSUME IInv, [Next]_vars
    PROVE  IInv'
<1>1. CASE UNCHANGED vars
  <2>1. /\ UNCHANGED <<locked, mu, arrays, albums, pc, view, todo, listing>>
        /\ UNCHANGED <<astray, overlapped, due, raced, before>>
    BY <1>1 DEF vars, requestVars, historyVars, listVars
  <2>2. TypeOK' /\ ByRequest' /\ Slices'
    BY <2>1 DEF IInv, TypeOK, ByRequest, Slices, Elements, Inside
  <2>3. Exclusive' /\ Undisturbed' /\ Capped'
    BY <2>1 DEF IInv, Exclusive, Undisturbed, Capped, Appending, Storing
  <2>4. ~astray => Intact'
    <3>1. ASSUME ~astray PROVE AnsweredStay'
      BY <2>1, <3>1, Sound DEF AnsweredStay, InPlace, Sees, Has, Appending
    <3>2. ASSUME ~astray PROVE SeedsIn' /\ Stored' /\ SeedsListed'
      BY <2>1, <3>2, Sound DEF SeedsIn, Stored, SeedsListed, Has, Appending
    <3> QED
      BY <3>1, <3>2 DEF Intact
  <2>5. Steady'
    BY <2>1 DEF IInv, Steady, Shown
  <2> QED
    BY <2>1, <2>2, <2>3, <2>4, <2>5 DEF IInv
<1>2. CASE \E a \in Adds : Bind(a) \/ Grow(a) \/ StoreElement(a) \/ Reply(a)
  BY <1>2, BindPreserves, GrowPreserves, StoreElementPreserves, ReplyPreserves
<1>3. CASE \E a \in Adds, word \in Words : StoreWord(a, word)
  BY <1>3, StoreWordPreserves
<1>4. CASE \E g \in Reads : Begin(g) \/ Encode(g)
  BY <1>4, BeginPreserves, EncodePreserves
<1>5. CASE \E q \in Requests, word \in Words : Load(q, word)
  BY <1>5, LoadPreserves
<1> QED
  BY <1>1, <1>2, <1>3, <1>4, <1>5 DEF Next

\* The inductive invariant holds of every behaviour, with the mutex and without.
THEOREM Invariant == Spec => []IInv
<1>1. Init => IInv
  BY InitHolds
<1>2. IInv /\ [Next]_vars => IInv'
  BY NextPreserves
<1> QED
  BY <1>1, <1>2, PTL DEF Spec

\* Headers lead to arrays, an append under the mutex stores within its array, and
\* who holds the mutex is still at work: no return leaves it locked.
THEOREM TypeCorrect == Spec => []TypeOK
<1>1. IInv => TypeOK
  BY DEF IInv
<1> QED
  BY <1>1, Invariant, PTL

\* However loads and stores interleave, and whatever arrays and capacities torn
\* headers lead to, GET /albums lists the seeds and every album that was answered
\* 201 before it began, if no append overlapped its own and, without the mutex,
\* none has stored outside its array.
THEOREM AnsweredAreListed == Spec => []ListsAnswered
<1>1. IInv => ListsAnswered
  <2>1. SUFFICES ASSUME IInv, ~astray, NEW g \in Reads, pc[g] = "200", NEW a \in due[g]
                 PROVE  \E i \in DOMAIN listing[g] : listing[g][i] = a
    BY Sound DEF SeedsListed, ListsAnswered
  <2>2. a \in Adds \ overlapped /\ pc[a] = "201"
    BY <2>1, Sound DEF AnsweredStay
  <2>3. PICK k \in Nat : InPlace(a, k)
    BY <2>1, <2>2, Sound DEF AnsweredStay
  <2> QED
    BY <2>1, <2>3 DEF InPlace
<1> QED
  BY <1>1, Invariant, PTL

\* With postAlbums under the mutex, a GET that raced no append lists exactly what
\* the slice held when it began, though it never takes the mutex itself.
THEOREM ExactLists == Spec => []ListsExactly
<1>1. IInv => ListsExactly
  BY DEF IInv, Steady, ListsExactly
<1> QED
  BY <1>1, Invariant, PTL

-----------------------------------------------------------------------------
(* The list under the mutex *)

\* The header of what the slice holds: while an append stores, the one it will
\* store less the place for its album.
Held ==
    IF Storing = {} THEN albums
    ELSE LET a == CHOOSE a \in Storing : TRUE
         IN  [ptr |-> view[a].ptr, len |-> view[a].len - 1]
List == Shown(Held)

\* With the mutex, the list that the slice holds is only ever appended to: each
\* answer 201 adds the album that was posted, whatever array it went to and in
\* whatever order the words of the header were stored; no other step changes it.
AnswerAppends ==
    [][locked => /\ \A a \in Adds : pc[a] # "201" /\ pc'[a] = "201" => List' = Append(List, a)
                 /\ (\A a \in Adds : pc'[a] = "201" => pc[a] = "201") => List' = List]_vars

\* A GET that no append races lists, by ExactLists, what the slice holds when it
\* begins.
ReadsHeld ==
    [][\A g \in Reads : locked /\ pc[g] = "start" /\ pc'[g] # "start" /\ g \notin raced' =>
          before'[g] = List]_vars

\* What is held is in its array, and is what the header says while nobody stores.
Fits == locked /\ Storing = {} => albums.len <= Len(arrays[albums.ptr])

\* With the mutex one append is under way: who stores is the one that stores.
LEMMA OneStores ==
    ASSUME Exclusive, locked, NEW a \in Adds, pc[a] = "store"
    PROVE  /\ Storing = {a} /\ Appending = {a} /\ overlapped = {}
           /\ Held = [ptr |-> view[a].ptr, len |-> view[a].len - 1]
<1>1. Appending = {a} /\ overlapped = {}
  BY DEF Exclusive, Appending
<1>2. Storing = {a}
  BY <1>1 DEF Storing, Appending
<1>3. (CHOOSE b \in Storing : TRUE) = a
  BY <1>2
<1> QED
  BY <1>1, <1>2, <1>3 DEF Held

\* Without a step of an append's own, neither the list nor its place changes.
LEMMA ListStays ==
    ASSUME IInv, UNCHANGED <<arrays, albums, locked>>,
           \A a \in Adds : (pc'[a] = "store") = (pc[a] = "store"),
           \A a \in Adds : pc[a] = "store" => view'[a] = view[a]
    PROVE  List' = List /\ (Fits => Fits')
<1>1. Storing' = Storing
  BY DEF Storing
<1>2. (CHOOSE a \in Storing : TRUE)' = CHOOSE a \in Storing : TRUE
  BY <1>1
<1>3. Storing # {} => (CHOOSE a \in Storing : TRUE) \in Storing
  OBVIOUS
<1>4. Held' = Held
  BY <1>1, <1>2, <1>3 DEF Held, Storing
<1> QED
  BY <1>1, <1>4 DEF List, Shown, Fits

\* What append copies, or finds room behind, is the list.
LEMMA GrowKeepsList ==
    ASSUME IInv, Fits, locked, NEW a \in Adds, Grow(a)
    PROVE  List' = List /\ Fits'
<1>1. /\ pc[a] = "load" /\ todo[a] = {} /\ pc' = [pc EXCEPT ![a] = "store"] /\ UNCHANGED <<albums, locked>>
      /\ a \in Requests
  BY Distinct DEF Grow
<1>2. pc'[a] = "store" /\ \A r \in Requests : r # a => pc'[r] = pc[r]
  BY <1>1, Counters DEF IInv
<1>3. a \in Appending /\ Appending = {a} /\ albums.ptr = view[a].ptr /\ albums.len = view[a].len
  BY <1>1 DEF IInv, Exclusive, Undisturbed, Appending
<1>4. Storing = {} /\ Held = albums
  BY <1>1, <1>3 DEF Storing, Appending, Held
<1>5. Exclusive'
  BY GrowPreserves DEF IInv
<1>6. Storing' = {a} /\ Held' = [ptr |-> view'[a].ptr, len |-> view'[a].len - 1]
  <2>1. Storing' = {a}
    BY <1>2, <1>3, <1>4, Distinct DEF Storing
  <2>2. (CHOOSE b \in Storing : TRUE)' = a
    BY <2>1
  <2> QED
    BY <2>1, <2>2 DEF Held
<1>7. /\ view'[a].len = view[a].len + 1
      /\ \A i \in 1..view[a].len : i \in DOMAIN arrays[view[a].ptr] =>
            /\ i \in DOMAIN arrays'[view'[a].ptr]
            /\ arrays'[view'[a].ptr][i] = arrays[view[a].ptr][i]
  BY Grown
<1>8. /\ view[a].ptr \in DOMAIN arrays /\ view[a].len \in Nat
      /\ DOMAIN arrays[view[a].ptr] = 1..Len(arrays[view[a].ptr]) /\ Len(arrays[view[a].ptr]) \in Nat
  <2>1. view[a].ptr \in DOMAIN arrays /\ view[a].len \in Nat
    BY <1>1, Headers DEF IInv
  <2> QED
    BY <2>1, Positions DEF IInv, Slices
<1>9. view[a].len <= Len(arrays[view[a].ptr])
  BY <1>3, <1>4 DEF Fits
<1>10. Held'.ptr = view'[a].ptr /\ Held'.len = view[a].len
  BY <1>6, <1>7, <1>8
<1>11. \A i \in 1..view[a].len : i \in DOMAIN arrays[view[a].ptr]
  BY <1>8, <1>9
<1>12. List = [i \in 1..view[a].len |-> arrays[view[a].ptr][i]]
  BY <1>3, <1>4, <1>11 DEF List, Shown
<1>13. List' = [i \in 1..view[a].len |-> arrays[view[a].ptr][i]]
  BY <1>7, <1>10, <1>11 DEF List, Shown
<1> QED
  BY <1>6, <1>12, <1>13 DEF Fits

\* A store writes behind the list, or the header, which nobody asks for it.
LEMMA StoreKeepsList ==
    ASSUME IInv, locked, NEW a \in Adds, StoreElement(a) \/ \E word \in Words : StoreWord(a, word)
    PROVE  List' = List /\ Fits'
<1>1. /\ pc[a] = "store" /\ UNCHANGED <<locked, pc, view>> /\ a \in Requests
  BY Distinct DEF StoreElement, StoreWord
<1>2. Storing = {a} /\ Held = [ptr |-> view[a].ptr, len |-> view[a].len - 1]
  BY <1>1, OneStores DEF IInv
<1>3. Storing' = {a} /\ Held' = Held
  <2>1. Storing' = {a}
    BY <1>1, <1>2 DEF Storing
  <2>2. (CHOOSE b \in Storing : TRUE)' = a
    BY <2>1
  <2> QED
    BY <1>1, <1>2, <2>1, <2>2 DEF Held
<1>4. view[a].ptr \in DOMAIN arrays /\ view[a].len \in Nat /\ view[a].len \in DOMAIN arrays[view[a].ptr]
  BY <1>1, Headers DEF IInv, TypeOK, Inside
<1>5. /\ DOMAIN arrays'[view[a].ptr] = DOMAIN arrays[view[a].ptr]
      /\ \A i \in DOMAIN arrays[view[a].ptr] :
            i # view[a].len => arrays'[view[a].ptr][i] = arrays[view[a].ptr][i]
  <2>1. CASE StoreElement(a)
    <3>1. Inside(a)
      BY <1>4 DEF Inside
    <3> QED
      BY <1>4, <2>1, <3>1, OnePlace
  <2>2. CASE \E word \in Words : StoreWord(a, word)
    BY <2>2 DEF StoreWord
  <2> QED
    BY <2>1, <2>2
<1>6. \A i \in 1..(view[a].len - 1) : i # view[a].len
  BY <1>4
<1>7. Held.ptr = view[a].ptr /\ Held.len = view[a].len - 1
  BY <1>2
<1>8. List' = List
  BY <1>3, <1>5, <1>6, <1>7 DEF List, Shown
<1> QED
  BY <1>3, <1>8 DEF Fits

\* When the append is answered the header shows the list and its album.
LEMMA ReplyAppends ==
    ASSUME IInv, locked, NEW a \in Adds, Reply(a)
    PROVE  List' = Append(List, a) /\ Fits'
<1> DEFINE p == view[a].ptr
           n == view[a].len
<1>1. /\ pc[a] = "store" /\ todo[a] = {} /\ pc' = [pc EXCEPT ![a] = "201"] /\ a \in Requests
      /\ UNCHANGED <<arrays, albums, locked>>
  BY Distinct DEF Reply
<1>2. Storing = {a} /\ Appending = {a} /\ overlapped = {} /\ Held = [ptr |-> p, len |-> n - 1]
  BY <1>1, OneStores DEF IInv
<1>3. pc'[a] = "201" /\ \A r \in Requests : r # a => pc'[r] = pc[r]
  BY <1>1, Counters DEF IInv
<1>4. Storing' = {} /\ Held' = albums
  <2>1. Storing' = {}
    BY <1>2, <1>3, Distinct DEF Storing
  <2> QED
    BY <1>1, <2>1 DEF Held
<1>5. albums.ptr = p /\ albums.len = n /\ arrays[p][n] = a
  <2>1. ~astray
    BY DEF IInv, TypeOK
  <2> QED
    BY <1>1, <1>2, <2>1, Sound DEF IInv, Undisturbed, Stored, Has
<1>6. /\ p \in DOMAIN arrays /\ n \in Nat /\ n \in DOMAIN arrays[p]
  BY <1>1, Headers DEF IInv, TypeOK, Inside
<1>7. /\ DOMAIN arrays[p] = 1..Len(arrays[p]) /\ Len(arrays[p]) \in Nat
      /\ \A i \in DOMAIN arrays[p] : arrays[p][i] \in Elements
  BY <1>6, Positions DEF IInv, Slices
<1> HIDE DEF p, n
<1>8. \A i \in 1..n : i \in DOMAIN arrays[p]
  BY <1>6, <1>7
<1>9. List' = [i \in 1..n |-> arrays[p][i]]
  BY <1>1, <1>4, <1>5, <1>8 DEF List, Shown
<1>10. List = [i \in 1..(n - 1) |-> arrays[p][i]]
  <2>1. \A i \in 1..(n - 1) : i \in 1..n
    BY <1>6
  <2>2. Held.ptr = p /\ Held.len = n - 1
    BY <1>2
  <2> QED
    BY <1>8, <2>1, <2>2 DEF List, Shown
<1>11. n - 1 \in Nat /\ n = (n - 1) + 1
  BY <1>6, <1>7
<1>12. List \in Seq(Elements) /\ Len(List) = n - 1
  <2>1. List \in [1..(n - 1) -> Elements]
    <3>1. \A i \in 1..(n - 1) : arrays[p][i] \in Elements
      BY <1>7, <1>8, <1>11
    <3> QED
      BY <1>10, <3>1
  <2>2. List \in Seq(Elements)
    BY <1>11, <2>1, SeqDef
  <2>3. DOMAIN List = 1..(n - 1) /\ DOMAIN List = 1..Len(List) /\ Len(List) \in Nat
    BY <2>1, <2>2, LenProperties
  <2> QED
    BY <1>11, <2>2, <2>3, SameLength
<1>13. List' \in Seq(Elements) /\ Len(List') = n
  <2>1. List' \in [1..n -> Elements]
    BY <1>7, <1>8, <1>9
  <2>2. List' \in Seq(Elements)
    BY <1>6, <2>1, SeqDef
  <2>3. DOMAIN List' = 1..n /\ DOMAIN List' = 1..Len(List') /\ Len(List') \in Nat
    BY <2>1, <2>2, LenProperties
  <2> QED
    BY <1>6, <2>2, <2>3, SameLength
<1>14. a \in Elements
  BY DEF Elements
<1>15. /\ Append(List, a) \in Seq(Elements) /\ Len(Append(List, a)) = n
       /\ \A i \in 1..(n - 1) : Append(List, a)[i] = List[i]
       /\ Append(List, a)[n] = a
  BY <1>11, <1>12, <1>14, AppendProperties
<1>16. \A i \in 1..n : List'[i] = Append(List, a)[i]
  <2>1. SUFFICES ASSUME NEW i \in 1..n PROVE List'[i] = Append(List, a)[i]
    OBVIOUS
  <2>2. i = n \/ i \in 1..(n - 1)
    BY <1>6
  <2> QED
    BY <1>5, <1>9, <1>10, <1>15, <2>2
<1>17. List' = Append(List, a)
  BY <1>13, <1>15, <1>16, SeqEqual
<1> QED
  BY <1>1, <1>4, <1>5, <1>6, <1>7, <1>17 DEF Fits

\* Only an answer changes the list.
LEMMA StepOfList ==
    ASSUME IInv, Fits, [Next]_vars
    PROVE  /\ Fits'
           /\ locked => \/ List' = List /\ \A a \in Adds : pc'[a] = "201" => pc[a] = "201"
                        \/ \E a \in Adds : Reply(a) /\ List' = Append(List, a)
<1>1. CASE ~locked
  <2>1. locked' = locked
    BY DEF Next, Bind, Grow, Reply, StoreWord, StoreElement, Begin, Encode, Load, vars
  <2> QED
    BY <1>1, <2>1 DEF Fits
<1>2. CASE locked
  <2>1. ASSUME NEW q \in Requests, NEW s, pc' = [pc EXCEPT ![q] = s], s \notin {"store", "201"}, pc[q] # "store"
        PROVE  \A a \in Adds : /\ (pc'[a] = "store") = (pc[a] = "store")
                               /\ pc'[a] = "201" => pc[a] = "201"
                               /\ pc[a] = "store" => a # q
    BY <2>1, Counters, Distinct DEF IInv
  <2>2. ASSUME NEW a \in Adds, Bind(a) PROVE List' = List /\ Fits' /\ \A b \in Adds : pc'[b] = "201" => pc[b] = "201"
    <3>1. PICK s \in {"400", "load"} : pc' = [pc EXCEPT ![a] = s]
      BY <2>2 DEF Bind
    <3>2. pc[a] # "store" /\ UNCHANGED <<arrays, albums, locked, view>> /\ a \in Requests
      BY <2>2, Distinct DEF Bind
    <3> QED
      BY <2>1, <3>1, <3>2, ListStays
  <2>3. ASSUME NEW g \in Reads, Begin(g) \/ Encode(g)
        PROVE  List' = List /\ Fits' /\ \A b \in Adds : pc'[b] = "201" => pc[b] = "201"
    <3>1. PICK s \in {"load", "200"} : pc' = [pc EXCEPT ![g] = s]
      BY <2>3 DEF Begin, Encode
    <3>2. pc[g] # "store" /\ UNCHANGED <<arrays, albums, locked>> /\ g \in Requests
      BY <2>3 DEF Begin, Encode, Requests
    <3>3. \A a \in Adds : view'[a] = view[a]
      BY <2>3, Distinct DEF Begin, Encode, IInv, ByRequest
    <3> QED
      BY <2>1, <3>1, <3>2, <3>3, ListStays
  <2>4. ASSUME NEW q \in Requests, NEW word \in Words, Load(q, word)
        PROVE  List' = List /\ Fits' /\ pc' = pc
    <3>1. /\ pc[q] = "load" /\ UNCHANGED <<arrays, albums, locked, pc>>
          /\ \A r \in Requests : r # q => view'[r] = view[r]
      BY <2>4, LoadedWord
    <3>2. \A a \in Adds : pc[a] = "store" => view'[a] = view[a]
      BY <3>1, Distinct
    <3> QED
      BY <3>1, <3>2, ListStays
  <2>5. ASSUME NEW a \in Adds, Grow(a) PROVE List' = List /\ Fits' /\ \A b \in Adds : pc'[b] = "201" => pc[b] = "201"
    <3>1. pc' = [pc EXCEPT ![a] = "store"] /\ a \in Requests
      BY <2>5, Distinct DEF Grow
    <3>2. \A b \in Adds : pc'[b] = "201" => pc[b] = "201"
      BY <3>1, Counters, Distinct DEF IInv
    <3> QED
      BY <1>2, <2>5, <3>2, GrowKeepsList
  <2>6. ASSUME NEW a \in Adds, StoreElement(a) \/ \E word \in Words : StoreWord(a, word)
        PROVE  List' = List /\ Fits' /\ pc' = pc
    BY <1>2, <2>6, StoreKeepsList DEF StoreElement, StoreWord
  <2>7. ASSUME NEW a \in Adds, Reply(a) PROVE Fits' /\ \E b \in Adds : Reply(b) /\ List' = Append(List, b)
    BY <1>2, <2>7, ReplyAppends
  <2>8. CASE UNCHANGED vars
    BY <2>8, ListStays DEF vars, requestVars
  <2> QED
    BY <2>2, <2>3, <2>4, <2>5, <2>6, <2>7, <2>8 DEF Next
<1> QED
  BY <1>1, <1>2

\* At first the header shows what the array holds.
LEMMA FitsAlways == Spec => []Fits
<1>1. Init => Fits
  <2>1. SUFFICES ASSUME Init PROVE Fits
    OBVIOUS
  <2>2. arrays \in Seq(Seq(Elements)) /\ Len(arrays[1]) >= Seeds
    BY <2>1, InitHolds, Positions DEF IInv, Slices
  <2> QED
    BY <2>1, <2>2 DEF Init, NoView, Fits
<1>2. IInv /\ Fits /\ [Next]_vars => Fits'
  BY StepOfList
<1> QED
  BY <1>1, <1>2, Invariant, PTL DEF Spec

\* With the mutex the slice is a list: postAlbums appends its album to it when it
\* is answered, no other step changes it, though the header and the array are
\* stored in parts and arrays are left behind.
THEOREM SliceIsList == Spec => AnswerAppends
<1>1. IInv /\ Fits /\ [Next]_vars =>
         [locked => /\ \A a \in Adds : pc[a] # "201" /\ pc'[a] = "201" => List' = Append(List, a)
                    /\ (\A a \in Adds : pc'[a] = "201" => pc[a] = "201") => List' = List]_vars
  <2>1. SUFFICES ASSUME IInv, Fits, Next, locked
                 PROVE  /\ \A a \in Adds : pc[a] # "201" /\ pc'[a] = "201" => List' = Append(List, a)
                        /\ (\A a \in Adds : pc'[a] = "201" => pc[a] = "201") => List' = List
    OBVIOUS
  <2>2. CASE List' = List /\ \A a \in Adds : pc'[a] = "201" => pc[a] = "201"
    BY <2>2
  <2>3. ASSUME NEW a \in Adds, Reply(a), List' = Append(List, a)
        PROVE  /\ \A b \in Adds : pc[b] # "201" /\ pc'[b] = "201" => List' = Append(List, b)
               /\ ~ \A b \in Adds : pc'[b] = "201" => pc[b] = "201"
    <3>1. pc[a] = "store" /\ pc' = [pc EXCEPT ![a] = "201"] /\ a \in Requests
      BY <2>3, Distinct DEF Reply
    <3>2. pc'[a] = "201" /\ \A r \in Requests : r # a => pc'[r] = pc[r]
      BY <2>1, <3>1, Counters DEF IInv
    <3> QED
      BY <2>3, <3>1, <3>2, Distinct
  <2> QED
    BY <2>1, <2>2, <2>3, StepOfList
<1> QED
  BY <1>1, Invariant, FitsAlways, PTL DEF Spec, AnswerAppends

\* What a GET will list, if no append races it, is the list when it begins.
THEOREM UnracedReadsList == Spec => ReadsHeld
<1>1. IInv /\ [Next]_vars =>
         [\A g \in Reads : locked /\ pc[g] = "start" /\ pc'[g] # "start" /\ g \notin raced' =>
             before'[g] = List]_vars
  <2>1. SUFFICES ASSUME IInv, Next, NEW g \in Reads, locked, pc[g] = "start", pc'[g] # "start", g \notin raced'
                 PROVE  before'[g] = List
    OBVIOUS
  <2>2. ASSUME NEW q \in Requests, NEW s, pc' = [pc EXCEPT ![q] = s] PROVE q = g
    BY <2>1, <2>2, Counters DEF IInv, Requests
  <2>3. Begin(g)
    <3>1. \A a \in Adds : ~ (Bind(a) \/ Grow(a) \/ Reply(a))
      BY <2>2, Distinct DEF Bind, Grow, Reply
    <3>2. \A a \in Adds : ~ StoreElement(a) /\ \A word \in Words : ~ StoreWord(a, word)
      BY <2>1 DEF StoreElement, StoreWord
    <3>3. \A q \in Requests, word \in Words : ~ Load(q, word)
      BY <2>1 DEF Load
    <3>4. PICK f \in Reads : Begin(f) \/ Encode(f)
      BY <2>1, <3>1, <3>2, <3>3 DEF Next
    <3>5. f = g /\ ~ Encode(g)
      BY <2>1, <2>2, <3>4 DEF Begin, Encode, Requests
    <3> QED
      BY <3>4, <3>5
  <2>4. before'[g] = Shown(albums) /\ Storing = {}
    BY <2>1, <2>3 DEF Begin, IInv, ByRequest, Storing
  <2> QED
    BY <2>4 DEF List, Held
<1> QED
  BY <1>1, Invariant, PTL DEF Spec, ReadsHeld
=============================================================================
