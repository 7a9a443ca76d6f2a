----------------------------- MODULE SharedSlice -----------------------------
(***************************************************************************)
(* The albums of the tutorials and of the mid-term service: a Go slice     *)
(* that POST /albums appends to and that GET /albums and GET /albums/:id   *)
(* read, all concurrently.  The mid-term service and Homework3 append      *)
(* under a mutex (variable locked), Homework1 and Homework2 do not; nobody *)
(* reads under it.                                                         *)
(*                                                                         *)
(* A slice is a header, the address of an array, a length and a capacity,  *)
(* and the array.  Append puts the album in the array if the capacity says *)
(* there is room; otherwise it copies the array to a larger one.  An       *)
(* unsynchronised access may see and make the stores in any order, word by *)
(* word.  A header of which half is old and half is new may promise more   *)
(* room than its array has; append then stores behind the array.           *)
(***************************************************************************)
EXTENDS Naturals, Sequences, FiniteSets

CONSTANTS
    Adds,       \* POST requests, and the albums they bring
    Reads,      \* GET requests
    Seed,       \* the albums the slice starts with
    Seeds,      \* how many: 3
    Zero,       \* an element of an array that nothing was stored in
    Garbage,    \* what lies behind the end of an array
    None

ASSUME SeedsAssumption == Seeds \in Nat \ {0}
ASSUME NamesAssumption ==
    /\ Cardinality({Seed, Zero, Garbage, None}) = 4
    /\ {Seed, Zero, Garbage, None} \cap (Adds \cup Reads) = {} /\ Adds \cap Reads = {}

VARIABLES
    locked,     \* whether postAlbums takes the mutex
    mu,         \* the request that holds it
    arrays,     \* the arrays made so far; an address is a position in it
    albums,     \* the header of the slice
    pc,         \* of each request
    view,       \* its header: as loaded, or as append will store it
    todo,       \* the words it has still to load, or to store
    listing,    \* what a GET returns
    astray,     \* history: whether an append stored outside its array
    overlapped, \* history: the adds whose append ran at the same time as another
    due,        \* history: the adds each GET has to list
    raced,      \* history, with the mutex: the GETs that loaded during an append
    before      \* history, with the mutex: the list when each GET began

requestVars == <<pc, view, todo>>
listVars == <<overlapped, due, raced, before>>
historyVars == <<astray, listVars>>
vars == <<locked, mu, arrays, albums, requestVars, listing, historyVars>>

Requests == Adds \cup Reads
NoView == [ptr |-> 1, len |-> Seeds, cap |-> Seeds]
Words == {"ptr", "len", "cap"}
Elements == Adds \cup {Seed, Zero, Garbage}

Init ==
    /\ locked \in BOOLEAN /\ mu = None
    /\ arrays = <<[i \in 1..Seeds |-> Seed]>>
    /\ albums = NoView
    /\ pc = [q \in Requests |-> "start"]
    /\ view = [q \in Requests |-> NoView]
    /\ todo = [q \in Requests |-> {}]
    /\ listing = [g \in Reads |-> <<>>]
    /\ astray = FALSE /\ overlapped = {} /\ raced = {}
    /\ due = [g \in Reads |-> {}]
    /\ before = [g \in Reads |-> <<>>]

\* The elements that a header shows.
Shown(h) ==
    [i \in 1..h.len |-> IF i \in DOMAIN arrays[h.ptr] THEN arrays[h.ptr][i] ELSE Garbage]

\* A word of the shared header is loaded into the request's own.
Load(q, word) ==
    /\ pc[q] = "load" /\ word \in todo[q]
    /\ view' = [view EXCEPT ![q][word] = albums[word]]
    /\ todo' = [todo EXCEPT ![q] = @ \ {word}]
    /\ UNCHANGED <<locked, mu, arrays, albums, pc, listing, historyVars>>

-----------------------------------------------------------------------------
(* postAlbums *)

Unlock(a) == mu' = IF locked THEN None ELSE mu

\* Between its first load and its last store.
Appending == {a \in Adds : pc[a] \in {"load", "store"}}

\* Mutants: the answer 400 leaves the mutex locked; the mutex does not block.
BindWithoutUnlock(a) ==
    /\ pc[a] = "start"
    /\ locked => mu = None
    /\ mu' = IF locked THEN a ELSE mu
    /\ \/ pc' = [pc EXCEPT ![a] = "400"] /\ UNCHANGED <<todo, overlapped>>
       \/ /\ pc' = [pc EXCEPT ![a] = "load"]
          /\ todo' = [todo EXCEPT ![a] = Words]
          /\ overlapped' = overlapped \cup IF Appending = {} THEN {} ELSE Appending \cup {a}
    /\ UNCHANGED <<locked, arrays, albums, view, listing, astray, due, raced, before>>
BindAtOnce(a) ==
    /\ pc[a] = "start"
    /\ pc' = [pc EXCEPT ![a] = "load"]
    /\ mu' = IF locked THEN a ELSE mu
    /\ todo' = [todo EXCEPT ![a] = Words]
    /\ overlapped' = overlapped \cup IF Appending = {} THEN {} ELSE Appending \cup {a}
    /\ UNCHANGED <<locked, arrays, albums, view, listing, astray, due, raced, before>>

\* The mutex is taken and BindJSON reads the body; a bad one is answered 400.
Bind(a) ==
    /\ pc[a] = "start"
    /\ locked => mu = None
    /\ \/ /\ pc' = [pc EXCEPT ![a] = "400"]
          /\ Unlock(a)
          /\ UNCHANGED <<todo, overlapped>>
       \/ /\ pc' = [pc EXCEPT ![a] = "load"]
          /\ mu' = IF locked THEN a ELSE mu
          /\ todo' = [todo EXCEPT ![a] = Words]
          /\ overlapped' = overlapped \cup IF Appending = {} THEN {} ELSE Appending \cup {a}
    /\ UNCHANGED <<locked, arrays, albums, view, listing, astray, due, raced, before>>

\* Twice the capacity, or more where the length asks for it.
NewCap(h) == IF h.len + 1 > 2 * h.cap THEN h.len + 1 ELSE 2 * h.cap

\* append: room, as the header has it, or a copy of the array.
Grow(a) ==
    /\ pc[a] = "load" /\ todo[a] = {}
    /\ LET h == view[a]
       IN  IF h.len + 1 <= h.cap
           THEN /\ view' = [view EXCEPT ![a].len = h.len + 1]
                /\ todo' = [todo EXCEPT ![a] = {"len", "element"}]
                /\ UNCHANGED arrays
           ELSE /\ view' = [view EXCEPT ![a] = [ptr |-> Len(arrays) + 1, len |-> h.len + 1,
                                                cap |-> NewCap(h)]]
                /\ todo' = [todo EXCEPT ![a] = Words \cup {"element"}]
                /\ arrays' = Append(arrays, [i \in 1..NewCap(h) |->
                                                IF i <= h.len THEN Shown(h)[i] ELSE Zero])
    /\ pc' = [pc EXCEPT ![a] = "store"]
    /\ raced' = raced \cup {g \in Reads : locked /\ todo[g] # {}}
    /\ UNCHANGED <<locked, mu, albums, listing, astray, overlapped, due, before>>

\* Whether the place for the new element is one of its array's.
Inside(a) == view[a].len \in DOMAIN arrays[view[a].ptr]

\* A word of the new header is stored.
StoreWord(a, word) ==
    /\ pc[a] = "store" /\ word \in todo[a]
    /\ todo' = [todo EXCEPT ![a] = @ \ {word}]
    /\ albums' = [albums EXCEPT ![word] = view[a][word]]
    /\ UNCHANGED <<locked, mu, arrays, pc, view, listing, historyVars>>

\* The new element is stored; outside its array it hits something else, or
\* nothing that anybody looks at.
StoreElement(a) ==
    /\ pc[a] = "store" /\ "element" \in todo[a]
    /\ todo' = [todo EXCEPT ![a] = @ \ {"element"}]
    /\ IF Inside(a)
       THEN arrays' = [arrays EXCEPT ![view[a].ptr][view[a].len] = a]
       ELSE \/ UNCHANGED arrays
            \/ \E p \in DOMAIN arrays : \E i \in DOMAIN arrays[p] :
                  arrays' = [arrays EXCEPT ![p][i] = Garbage]
    /\ astray' = (astray \/ ~Inside(a))
    /\ UNCHANGED <<locked, mu, albums, pc, view, listing, listVars>>

\* 201, then the deferred Unlock.
Reply(a) ==
    /\ pc[a] = "store" /\ todo[a] = {}
    /\ pc' = [pc EXCEPT ![a] = "201"]
    /\ view' = [view EXCEPT ![a] = NoView]
    /\ Unlock(a)
    /\ UNCHANGED <<locked, arrays, albums, todo, listing, historyVars>>

-----------------------------------------------------------------------------
(* getAlbums, getAlbumByID: no reader asks for the capacity *)

Begin(g) ==
    /\ pc[g] = "start"
    /\ pc' = [pc EXCEPT ![g] = "load"]
    /\ todo' = [todo EXCEPT ![g] = {"ptr", "len"}]
    /\ due' = [due EXCEPT ![g] = {a \in Adds : pc[a] = "201" /\ (locked \/ a \notin overlapped)}]
    /\ before' = IF locked THEN [before EXCEPT ![g] = Shown(albums)] ELSE before
    /\ raced' = raced \cup IF locked /\ \E a \in Adds : pc[a] = "store" THEN {g} ELSE {}
    /\ UNCHANGED <<locked, mu, arrays, albums, view, listing, astray, overlapped>>

\* The elements are encoded, or searched, long after the header was loaded.
Encode(g) ==
    /\ pc[g] = "load" /\ todo[g] = {}
    /\ pc' = [pc EXCEPT ![g] = "200"]
    /\ listing' = [listing EXCEPT ![g] = Shown(view[g])]
    /\ view' = [view EXCEPT ![g] = NoView]
    /\ UNCHANGED <<locked, mu, arrays, albums, todo, historyVars>>

-----------------------------------------------------------------------------
Next ==
    \/ \E a \in Adds : Bind(a) \/ Grow(a) \/ StoreElement(a) \/ Reply(a)
    \/ \E a \in Adds, word \in Words : StoreWord(a, word)
    \/ \E g \in Reads : Begin(g) \/ Encode(g)
    \/ \E q \in Requests, word \in Words : Load(q, word)

Spec == Init /\ [][Next]_vars

-----------------------------------------------------------------------------
(* Correctness *)

\* Headers lead to arrays, with the mutex an append stores within its array,
\* and whoever holds the mutex is still at work.
TypeOK ==
    /\ locked \in BOOLEAN /\ astray \in BOOLEAN
    /\ mu \in {None} \cup {a \in Adds : pc[a] \in {"load", "store"}}
    /\ \A p \in DOMAIN arrays : \A i \in DOMAIN arrays[p] : arrays[p][i] \in Elements
    /\ {albums} \cup {view[q] : q \in Requests} \subseteq [ptr : DOMAIN arrays, len : Nat, cap : Nat]
    /\ pc \in [Requests -> {"start", "load", "store", "200", "201", "400"}]
    /\ \A q \in Requests : todo[q] \subseteq Words \cup {"element"}
    /\ locked => ~astray /\ \A a \in Adds : pc[a] = "store" => Inside(a)
    /\ \A g \in Reads : \A i \in DOMAIN listing[g] : listing[g][i] \in Elements

\* A GET lists the albums the slice started with and every one whose POST was
\* answered before it began, though it may load half of a header.  Without the
\* mutex this holds of a POST that overlapped no other one, even if later ones
\* overlap and overwrite each other, but only until some append has stored
\* outside its array, be it one that overlapped no other.
ListsAnswered ==
    \A g \in Reads : pc[g] = "200" /\ ~astray =>
        /\ \A i \in 1..Seeds : i \in DOMAIN listing[g] /\ listing[g][i] = Seed
        /\ \A a \in due[g] : \E i \in DOMAIN listing[g] : listing[g][i] = a

\* With the mutex, a GET that did not load the header during an append lists
\* what the slice held, though later appends store into the same array.
ListsExactly ==
    \A g \in Reads : locked /\ pc[g] = "200" /\ g \notin raced => listing[g] = before[g]
=============================================================================
