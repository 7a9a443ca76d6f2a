------------------------- MODULE ShoppingCartsProofs -------------------------
(***************************************************************************)
(* Proofs about ShoppingCarts, for any customers, products, adds and       *)
(* faults, with MySQL, and with DynamoDB as far as it can hold (Careful).  *)
(* They end with the refinement: the store implements its contract.        *)
(***************************************************************************)
EXTENDS ShoppingCarts, TLAPS

\* DynamoDB numbers and replaces carts without a condition: it needs clients that
\* add one item at a time to a cart, and a task that is not restarted.
Careful ==
    "dynamodb" \in DbTypes => "dynamodb" \in Serial /\ "restart" \notin FaultsOf["dynamodb"]

\* Every step, whatever it does, keeps the variables' types.
LEMMA TypePreserved == TypeOK /\ [Next]_vars => TypeOK'
<1> SUFFICES ASSUME TypeOK, [Next]_vars PROVE TypeOK'
    OBVIOUS
<1> USE ParameterAssumption DEF TypeOK, createVars, addVars
<1>1. NoCart \in Cart /\ \A c \in Creates : [owner |-> c, items |-> Empty] \in Cart
    BY DEF NoCart, Cart, Empty
<1>2. \A cart \in Cart, a \in Adds : With(cart, a) \in Cart
    BY DEF With, Cart
<1>3. \A a \in Adds : IdOf(a) \in Ids
    BY DEF IdOf
<1>4. ASSUME NEW c \in Creates, InsertCart(c) PROVE TypeOK'
    BY <1>1, <1>4 DEF InsertCart
<1>5. ASSUME NEW c \in Creates, DrawID(c) PROVE TypeOK'
    BY <1>5 DEF DrawID
<1>6. ASSUME NEW c \in Creates, PutCart(c) PROVE TypeOK'
    BY <1>1, <1>6 DEF PutCart
<1>7. ASSUME NEW a \in Adds, CheckCart(a) PROVE TypeOK'
    BY <1>7 DEF CheckCart
<1>8. ASSUME NEW a \in Adds, UpsertItem(a) PROVE TypeOK'
    BY <1>2, <1>3, <1>8 DEF UpsertItem
<1>9. ASSUME NEW a \in Adds, GetForAdd(a) PROVE TypeOK'
    BY <1>3, <1>9 DEF GetForAdd
<1>10. ASSUME NEW a \in Adds, PutWithItem(a) PROVE TypeOK'
    BY <1>2, <1>3, <1>10 DEF PutWithItem
<1>11. ASSUME NEW i \in Ids, Sync(i) PROVE TypeOK'
    BY <1>11 DEF Sync
<1>12. ASSUME Tick PROVE TypeOK'
    BY <1>12 DEF Tick
<1>13. ASSUME Restart PROVE TypeOK'
  <2>1. clock' \in 0..MaxTime
    BY <1>13 DEF Restart
  <2>2. nextID' \in Nat
    BY <1>13, <2>1 DEF Restart, NewDynamoStore, NewMySQLStore
  <2> QED
    BY <1>13, <2>1, <2>2 DEF Restart
<1>14. ASSUME UNCHANGED vars PROVE TypeOK'
    BY <1>14 DEF vars
<1> QED
    BY <1>4, <1>5, <1>6, <1>7, <1>8, <1>9, <1>10, <1>11, <1>12, <1>13, <1>14 DEF Next

\* The task's variables always have their types, whatever fails.
THEOREM TypeCorrect == Spec => []TypeOK
<1>1. Init => TypeOK
    BY ParameterAssumption DEF Init, TypeOK, NoCart, Cart, Empty, Ids
<1> QED
    BY <1>1, TypePreserved, PTL DEF Spec

-----------------------------------------------------------------------------
(* The inductive invariant *)

\* Carts are numbered from 1, each number once, and nothing is stored above.
CartsNumbered ==
    /\ \A c \in Creates : IF cpc[c] = "start" THEN id[c] = 0 ELSE id[c] > 0 /\ id[c] <= nextID
    /\ \A c, d \in Creates : id[c] = id[d] /\ id[c] # 0 => c = d
    /\ \A i \in Ids : i = 0 \/ i > nextID => table[i] = NoCart

\* A cart is stored under its owner's id, from the answer on at the latest, and
\* its items were added to it.
CartsOwned ==
    /\ \A i \in Ids : \/ table[i] = NoCart
                      \/ table[i].owner \in Creates /\ id[table[i].owner] = i
    /\ \A c \in Creates : cpc[c] = "put" => db = "dynamodb" /\ table[id[c]] = NoCart
    /\ CartKept
    /\ \A i \in Ids, p \in Products : table[i].items[p] # None =>
          /\ table[i].items[p] \in Adds /\ CartOf[table[i].items[p]] = table[i].owner
          /\ ProductOf[table[i].items[p]] = p

\* Items are added to carts that are there, and a cart that is about to be
\* written back is the one that was read.
AddsOrdered ==
    /\ \A a \in Adds : apc[a] # "start" => cpc[CartOf[a]] = "201"
    /\ \A a \in Adds : apc[a] = "put" => db = "dynamodb" /\ read[a] = table[IdOf(a)]
    /\ \A a, b \in Adds :
          db = "dynamodb" /\ Adding(a) /\ Adding(b) /\ CartOf[a] = CartOf[b] => a = b
    /\ AddsKept

IInv == TypeOK /\ CartsNumbered /\ CartsOwned /\ AddsOrdered

\* The cart an item is being added to is its customer's, and nobody else's.
LEMMA CartOfAdd ==
    ASSUME IInv, NEW a \in Adds, apc[a] # "start"
    PROVE  /\ IdOf(a) \in Ids /\ IdOf(a) # 0 /\ CartOf[a] \in Creates
           /\ table[IdOf(a)].owner = CartOf[a] /\ table[IdOf(a)] # NoCart
           /\ \A c \in Creates : id[c] = IdOf(a) => c = CartOf[a]
<1>1. CartOf[a] \in Creates /\ cpc[CartOf[a]] = "201"
    BY ParameterAssumption DEF IInv, AddsOrdered
<1>2. IdOf(a) \in Ids /\ IdOf(a) # 0
    BY <1>1 DEF IInv, TypeOK, CartsNumbered, IdOf
<1>3. table[IdOf(a)].owner = CartOf[a] /\ CartOf[a] # None
    BY <1>1, NoneAssumption DEF IInv, CartsOwned, CartKept, IdOf
<1> QED
    BY <1>1, <1>2, <1>3 DEF IInv, CartsNumbered, IdOf, NoCart

\* Ids are numbers.
LEMMA IdsAreNumbers == Ids \subseteq Nat /\ 0 \in Ids
BY ParameterAssumption DEF Ids

-----------------------------------------------------------------------------
(* Creating carts *)

\* A cart that is stored under an id nobody else has, where nothing is.
CartStored(c, i) ==
    /\ i \in Ids \ {0} /\ table[i] = NoCart /\ id[c] \in {0, i}
    /\ \A d \in Creates : d # c => id[d] # i
    /\ cpc[c] # "201"
    /\ table' = [table EXCEPT ![i] = [owner |-> c, items |-> Empty]]
    /\ id' = [id EXCEPT ![c] = i]
    /\ cpc' = [cpc EXCEPT ![c] = cpc'[c]]
    /\ UNCHANGED <<db, addVars>>

\* It touches no other customer's cart.
LEMMA OthersUntouched ==
    ASSUME IInv, NEW c \in Creates, NEW i, CartStored(c, i)
    PROVE  /\ \A d \in Creates : d # c => table'[id'[d]] = table[id[d]]
           /\ table'[id'[c]] = [owner |-> c, items |-> Empty]
BY DEF IInv, TypeOK, CartStored

\* It is its owner's, and the other carts remain their owners'.
LEMMA StoredOwned ==
    ASSUME IInv, NEW c \in Creates, NEW i, CartStored(c, i)
    PROVE  /\ \A j \in Ids : \/ table'[j] = NoCart
                             \/ table'[j].owner \in Creates /\ id'[table'[j].owner] = j
           /\ \A j \in Ids, p \in Products : table'[j].items[p] # None =>
                 /\ table'[j].items[p] \in Adds /\ CartOf[table'[j].items[p]] = table'[j].owner
                 /\ ProductOf[table'[j].items[p]] = p
<1> USE DEF IInv, TypeOK, CartStored
<1>1. /\ table'[i] = [owner |-> c, items |-> Empty] /\ id'[c] = i
      /\ \A j \in Ids : j # i => table'[j] = table[j]
      /\ \A d \in Creates : d # c => id'[d] = id[d]
    OBVIOUS
<1>2. ASSUME NEW j \in Ids, table'[j] # NoCart
      PROVE  table'[j].owner \in Creates /\ id'[table'[j].owner] = j
  <2>1. CASE j = i
    BY <1>1, <2>1
  <2>2. CASE j # i
    <3>1. table'[j] = table[j] /\ table[j].owner \in Creates /\ id[table[j].owner] = j
      BY <1>1, <1>2, <2>2 DEF CartsOwned
    <3>2. j # 0
      BY <1>2, <3>1 DEF CartsNumbered
    <3>3. table[j].owner # c
      BY <2>2, <3>1, <3>2
    <3> QED
      BY <1>1, <3>1, <3>3
  <2> QED
    BY <2>1, <2>2
<1>3. ASSUME NEW j \in Ids, NEW p \in Products, table'[j].items[p] # None
      PROVE  /\ table'[j].items[p] \in Adds /\ CartOf[table'[j].items[p]] = table'[j].owner
             /\ ProductOf[table'[j].items[p]] = p
  <2>1. j # i
    BY <1>1, <1>3 DEF Empty
  <2> QED
    BY <1>1, <1>3, <2>1 DEF CartsOwned
<1> QED
    BY <1>2, <1>3

\* Adds go on in the carts they are about.
LEMMA StoredOrdered ==
    ASSUME IInv, NEW c \in Creates, NEW i, CartStored(c, i)
    PROVE  AddsOrdered'
<1> USE ParameterAssumption DEF TypeOK
<1>1. UNCHANGED <<db, apc, read>>
    BY DEF CartStored, addVars
<1>2. ASSUME NEW a \in Adds, apc[a] # "start"
      PROVE  /\ cpc'[CartOf[a]] = "201" /\ CartOf[a] # c
             /\ id'[CartOf[a]] = id[CartOf[a]]
             /\ table'[id'[CartOf[a]]] = table[id[CartOf[a]]]
  <2>1. cpc[CartOf[a]] = "201" /\ CartOf[a] \in Creates
    BY <1>2 DEF IInv, AddsOrdered
  <2>2. CartOf[a] # c
    BY <2>1 DEF CartStored
  <2> QED
    BY <2>1, <2>2, OthersUntouched DEF IInv, CartStored
<1>3. \A a \in Adds : Adding(a)' = Adding(a)
    BY <1>1 DEF Adding
<1>4. AddsKept'
    BY <1>1, <1>2 DEF IInv, AddsOrdered, AddsKept, IdOf
<1> QED
    BY <1>1, <1>2, <1>3, <1>4 DEF IInv, AddsOrdered, IdOf

\* MySQL gives the cart the next number and stores it in one statement, or does
\* neither.
LEMMA InsertCartPreserves ==
    ASSUME IInv, TypeOK', NEW c \in Creates, InsertCart(c)
    PROVE  IInv'
<1> DEFINE n == nextID + 1
<1> USE DEF TypeOK
<1>1. /\ db = "mysql" /\ cpc[c] = "start" /\ n \in Ids
      /\ nextID' = n /\ id' = [id EXCEPT ![c] = n]
      /\ UNCHANGED <<db, clock, replica, addVars>>
    BY DEF InsertCart
<1>2. n \in Nat /\ n > 0 /\ id[c] = 0 /\ table[n] = NoCart /\ \A d \in Creates : id[d] < n
  <2>1. nextID \in Nat /\ \A d \in Creates : id[d] \in Nat
    BY IdsAreNumbers DEF IInv
  <2>2. \A d \in Creates : id[d] = 0 \/ id[d] <= nextID
    BY DEF IInv, CartsNumbered
  <2> QED
    BY <1>1, <2>1, <2>2 DEF IInv, CartsNumbered
<1>a. \A d \in Creates : id[d] \in Nat
    BY IdsAreNumbers DEF IInv
<1>b. \A i \in Ids : i \in Nat
    BY IdsAreNumbers
<1>3. CASE /\ table' = [table EXCEPT ![n] = [owner |-> c, items |-> Empty]]
           /\ cpc'[c] \in {"201", "500"} /\ cpc' = [cpc EXCEPT ![c] = cpc'[c]]
  <2>1. CartStored(c, n)
    BY <1>1, <1>2, <1>3 DEF CartStored, IInv
  <2>2. CartsNumbered'
    BY <1>a, <1>b, <1>1, <1>2, <1>3 DEF IInv, CartsNumbered
  <2>3. \A d \in Creates : cpc'[d] = "put" => d # c /\ cpc[d] = "put"
    BY <1>1, <1>3 DEF IInv
  <2>4. CartKept'
    BY <1>1, <1>3, <2>1, OthersUntouched DEF IInv, CartsOwned, CartKept
  <2>5. CartsOwned'
    BY <1>1, <2>1, <2>3, <2>4, StoredOwned, OthersUntouched DEF IInv, CartsOwned
  <2> QED
    BY <2>1, <2>2, <2>5, StoredOrdered DEF IInv
<1>4. CASE table' = table /\ cpc' = [cpc EXCEPT ![c] = "500"]
  <2>1. \A d \in Creates : d # c => id'[d] = id[d] /\ cpc'[d] = cpc[d]
    BY <1>1, <1>4 DEF IInv
  <2>2. CartsNumbered'
    BY <1>a, <1>b, <1>1, <1>2, <1>4, <2>1 DEF IInv, CartsNumbered
  <2>3. \A j \in Ids : table[j] # NoCart => table[j].owner # c
    BY <1>2 DEF IInv, CartsOwned, CartsNumbered
  <2>4. CartKept'
    BY <1>1, <1>4, <2>1 DEF IInv, CartsOwned, CartKept
  <2>5. CartsOwned'
    BY <1>1, <1>4, <2>1, <2>3, <2>4 DEF IInv, CartsOwned
  <2>6. \A a \in Adds : apc[a] # "start" => CartOf[a] # c /\ CartOf[a] \in Creates
    BY <1>1, ParameterAssumption DEF IInv, AddsOrdered
  <2>7. AddsOrdered'
    BY <1>1, <1>4, <2>1, <2>6 DEF IInv, AddsOrdered, AddsKept, IdOf, Adding, addVars
  <2> QED
    BY <2>2, <2>5, <2>7 DEF IInv
<1>5. \E outcome \in Outcomes :
        /\ table' = IF Applied(outcome)
                    THEN [table EXCEPT ![n] = [owner |-> c, items |-> Empty]] ELSE table
        /\ cpc' = [cpc EXCEPT ![c] = IF outcome = "ok" THEN "201" ELSE "500"]
    BY DEF InsertCart
<1> QED
    BY <1>3, <1>4, <1>5 DEF Applied, IInv

\* DynamoDB's task draws the number first ...
LEMMA DrawIDPreserves ==
    ASSUME IInv, TypeOK', NEW c \in Creates, DrawID(c)
    PROVE  IInv'
<1> DEFINE n == nextID + 1
<1> USE DEF TypeOK
<1>1. /\ db = "dynamodb" /\ cpc[c] = "start" /\ n \in Ids
      /\ nextID' = n /\ id' = [id EXCEPT ![c] = n] /\ cpc' = [cpc EXCEPT ![c] = "put"]
      /\ UNCHANGED <<db, clock, table, replica, addVars>>
    BY DEF DrawID
<1>2. n \in Nat /\ n > 0 /\ id[c] = 0 /\ table[n] = NoCart /\ \A d \in Creates : id[d] < n
  <2>1. nextID \in Nat /\ \A d \in Creates : id[d] \in Nat
    BY IdsAreNumbers DEF IInv
  <2>2. \A d \in Creates : id[d] = 0 \/ id[d] <= nextID
    BY DEF IInv, CartsNumbered
  <2> QED
    BY <1>1, <2>1, <2>2 DEF IInv, CartsNumbered
<1>3. \A d \in Creates : d # c => id'[d] = id[d] /\ cpc'[d] = cpc[d]
    BY <1>1 DEF IInv
<1>4. CartsNumbered'
  <2>1. \A d \in Creates : id[d] \in Nat
    BY IdsAreNumbers DEF IInv
  <2>2. \A i \in Ids : i \in Nat
    BY IdsAreNumbers
  <2> QED
    BY <1>1, <1>2, <1>3, <2>1, <2>2 DEF IInv, CartsNumbered
<1>5. CartKept'
    BY <1>1, <1>3 DEF IInv, CartsOwned, CartKept
<1>6. CartsOwned'
  <2>1. \A j \in Ids : table[j] # NoCart => table[j].owner # c
    BY <1>2 DEF IInv, CartsOwned, CartsNumbered
  <2> QED
    BY <1>1, <1>2, <1>3, <1>5, <2>1 DEF IInv, CartsOwned
<1>7. AddsOrdered'
  <2>1. \A a \in Adds : apc[a] # "start" => CartOf[a] # c /\ CartOf[a] \in Creates
    BY <1>1, ParameterAssumption DEF IInv, AddsOrdered
  <2> QED
    BY <1>1, <1>3, <2>1 DEF IInv, AddsOrdered, AddsKept, IdOf, Adding, addVars
<1> QED
    BY <1>4, <1>6, <1>7 DEF IInv

\* ... and then puts the cart, where nothing is.
LEMMA PutCartPreserves ==
    ASSUME IInv, TypeOK', NEW c \in Creates, PutCart(c)
    PROVE  IInv'
<1> USE DEF TypeOK
<1>1. /\ cpc[c] = "put" /\ UNCHANGED <<db, clock, replica, nextID, id, addVars>>
    BY DEF PutCart
<1>2. /\ db = "dynamodb" /\ table[id[c]] = NoCart /\ id[c] \in Ids /\ id[c] # 0 /\ id[c] <= nextID
      /\ \A d \in Creates : d # c => id[d] # id[c]
    BY <1>1 DEF IInv, CartsOwned, CartsNumbered
<1>3. CASE /\ table' = [table EXCEPT ![id[c]] = [owner |-> c, items |-> Empty]]
           /\ cpc'[c] \in {"201", "500"} /\ cpc' = [cpc EXCEPT ![c] = cpc'[c]]
  <2>1. id' = [id EXCEPT ![c] = id[c]]
    BY <1>1 DEF IInv
  <2>2. CartStored(c, id[c])
    BY <1>1, <1>2, <1>3, <2>1 DEF CartStored, IInv
  <2>3. \A d \in Creates : d # c => cpc'[d] = cpc[d]
    BY <1>3 DEF IInv
  <2>4. CartsNumbered'
    <3>1. \A i \in Ids : i > nextID => i # id[c]
      BY <1>2, IdsAreNumbers DEF IInv
    <3> QED
      BY <1>1, <1>2, <1>3, <2>3, <3>1 DEF IInv, CartsNumbered
  <2>5. CartKept'
    <3>1. /\ \A d \in Creates : d # c => table'[id'[d]] = table[id[d]]
          /\ table'[id'[c]] = [owner |-> c, items |-> Empty]
      BY <2>2, OthersUntouched
    <3>2. table'[id'[c]].owner = c
      BY <3>1
    <3> QED
      BY <2>3, <3>1, <3>2 DEF IInv, CartsOwned, CartKept
  <2>6. CartsOwned'
    <3>1. \A d \in Creates : cpc'[d] = "put" => d # c /\ cpc[d] = "put"
      BY <1>3, <2>3
    <3>2. \A d \in Creates : cpc'[d] = "put" => db' = "dynamodb" /\ table'[id'[d]] = NoCart
      BY <1>1, <1>2, <2>2, <3>1, OthersUntouched DEF IInv, CartsOwned
    <3> QED
      BY <2>2, <2>5, <3>2, StoredOwned DEF CartsOwned
  <2> QED
    BY <2>2, <2>4, <2>6, StoredOrdered DEF IInv
<1>4. CASE table' = table /\ cpc' = [cpc EXCEPT ![c] = "500"]
  <2>1. \A d \in Creates : d # c => cpc'[d] = cpc[d]
    BY <1>4 DEF IInv
  <2>2. CartsNumbered'
    BY <1>1, <1>4, <2>1 DEF IInv, CartsNumbered
  <2>3. CartKept'
    BY <1>1, <1>4, <2>1 DEF IInv, CartsOwned, CartKept
  <2>4. CartsOwned'
    BY <1>1, <1>4, <2>1, <2>3 DEF IInv, CartsOwned
  <2>5. \A a \in Adds : apc[a] # "start" => CartOf[a] # c /\ CartOf[a] \in Creates
    BY <1>1, ParameterAssumption DEF IInv, AddsOrdered
  <2>6. AddsOrdered'
    BY <1>1, <1>4, <2>1, <2>5 DEF IInv, AddsOrdered, AddsKept, IdOf, Adding, addVars
  <2> QED
    BY <2>2, <2>4, <2>6 DEF IInv
<1>5. \E outcome \in Outcomes :
        /\ table' = IF Applied(outcome)
                    THEN [table EXCEPT ![id[c]] = [owner |-> c, items |-> Empty]] ELSE table
        /\ cpc' = [cpc EXCEPT ![c] = IF outcome = "ok" THEN "201" ELSE "500"]
    BY DEF PutCart
<1> QED
    BY <1>3, <1>4, <1>5 DEF Applied, IInv

-----------------------------------------------------------------------------
(* Adding items *)

\* What a write of an item does, to the cart it is about and to no other.
ItemStored(a) ==
    /\ apc[a] # "start"
    /\ table' = [table EXCEPT ![IdOf(a)] = With(table[IdOf(a)], a)]
    /\ UNCHANGED <<db, createVars>>

\* The cart keeps its owner and its other items, the other carts everything.
LEMMA OneItemChanged ==
    ASSUME IInv, NEW a \in Adds, ItemStored(a)
    PROVE  /\ \A i \in Ids : i # IdOf(a) => table'[i] = table[i]
           /\ table'[IdOf(a)].owner = CartOf[a] /\ table'[IdOf(a)] # NoCart
           /\ table'[IdOf(a)].items = [table[IdOf(a)].items EXCEPT ![ProductOf[a]] = a]
           /\ table[IdOf(a)].items \in [Products -> Adds \cup {None}] /\ ProductOf[a] \in Products
<1>1. /\ IdOf(a) \in Ids /\ table[IdOf(a)].owner = CartOf[a] /\ CartOf[a] # None
      /\ table[IdOf(a)] \in Cart
    BY CartOfAdd, NoneAssumption DEF ItemStored, IInv, TypeOK
<1>2. table'[IdOf(a)] = With(table[IdOf(a)], a) /\ \A i \in Ids : i # IdOf(a) => table'[i] = table[i]
    BY <1>1 DEF ItemStored, IInv, TypeOK
<1>3. /\ With(table[IdOf(a)], a).owner = table[IdOf(a)].owner
      /\ With(table[IdOf(a)], a).items = [table[IdOf(a)].items EXCEPT ![ProductOf[a]] = a]
    BY <1>1 DEF With, Cart
<1>4. ProductOf[a] \in Products /\ table[IdOf(a)].items \in [Products -> Adds \cup {None}]
    BY <1>1, ParameterAssumption DEF Cart
<1> QED
    BY <1>1, <1>2, <1>3, <1>4 DEF NoCart

\* Carts remain where they are and whose they are.
LEMMA ItemKeepsCarts ==
    ASSUME IInv, NEW a \in Adds, ItemStored(a)
    PROVE  /\ CartsNumbered' /\ CartsOwned'
           /\ \A i \in Ids, p \in Products : table[i].items[p] # None => table'[i].items[p] # None
<1> USE DEF TypeOK
<1> DEFINE k == IdOf(a)
<1>1. /\ \A i \in Ids : i # k => table'[i] = table[i]
      /\ table'[k].owner = CartOf[a] /\ table[k].owner = CartOf[a]
      /\ table'[k].items = [table[k].items EXCEPT ![ProductOf[a]] = a]
      /\ table[k].items \in [Products -> Adds \cup {None}] /\ ProductOf[a] \in Products
      /\ k \in Ids /\ table[k] # NoCart
      /\ UNCHANGED <<db, nextID, cpc, id>>
    BY OneItemChanged, CartOfAdd DEF ItemStored, createVars
<1>2. CartsNumbered'
    BY <1>1 DEF IInv, CartsNumbered
<1>3. \A c \in Creates : cpc[c] = "put" => id[c] # k
    BY <1>1 DEF IInv, CartsOwned
<1>4. CartKept'
  <2>1. \A i \in Ids : table'[i].owner = table[i].owner
    BY <1>1
  <2> QED
    BY <1>1, <2>1 DEF IInv, CartsOwned, CartKept
<1>5. ASSUME NEW i \in Ids, NEW p \in Products, table'[i].items[p] # None
      PROVE  /\ table'[i].items[p] \in Adds /\ CartOf[table'[i].items[p]] = table'[i].owner
             /\ ProductOf[table'[i].items[p]] = p
  <2>1. CASE i = k /\ p = ProductOf[a]
    BY <1>1, <2>1
  <2>2. CASE i = k /\ p # ProductOf[a]
    BY <1>1, <1>5, <2>2 DEF IInv, CartsOwned
  <2>3. CASE i # k
    BY <1>1, <1>5, <2>3 DEF IInv, CartsOwned
  <2> QED
    BY <2>1, <2>2, <2>3
<1>6. CartsOwned'
  <2>1. \A i \in Ids : \/ table'[i] = NoCart
                       \/ table'[i].owner \in Creates /\ id'[table'[i].owner] = i
    BY <1>1 DEF IInv, CartsOwned
  <2>2. \A c \in Creates : cpc'[c] = "put" => db' = "dynamodb" /\ table'[id'[c]] = NoCart
    BY <1>1, <1>3 DEF IInv, CartsOwned
  <2> QED
    BY <1>4, <1>5, <2>1, <2>2 DEF CartsOwned
<1>7. \A i \in Ids, p \in Products : table[i].items[p] # None => table'[i].items[p] # None
  <2>1. a # None
    BY NoneAssumption
  <2> QED
    BY <1>1, <2>1
<1> QED
    BY <1>2, <1>6, <1>7

\* The item is there, and so are those that were answered before.
LEMMA ItemsKept ==
    ASSUME IInv, NEW a \in Adds, ItemStored(a), NEW b \in Adds, apc[b] = "204" \/ b = a
    PROVE  LET item == table'[id[CartOf[b]]].items[ProductOf[b]]
           IN  item # None /\ CartOf[item] = CartOf[b] /\ ProductOf[item] = ProductOf[b]
<1> DEFINE k == IdOf(b)
           item == table'[k].items[ProductOf[b]]
<1>1. k \in Ids /\ ProductOf[b] \in Products /\ apc[b] # "start"
    BY CartOfAdd, ParameterAssumption DEF ItemStored
<1>2. item # None
  <2>1. CASE b = a
    BY <1>1, <2>1, OneItemChanged, NoneAssumption
  <2>2. CASE b # a
    <3>1. table[k].items[ProductOf[b]] # None
      BY <2>2 DEF IInv, AddsOrdered, AddsKept
    <3> QED
      BY <1>1, <3>1, ItemKeepsCarts
  <2> QED
    BY <2>1, <2>2
<1>3. CartOf[item] = table'[k].owner /\ ProductOf[item] = ProductOf[b]
  <2>1. CartsOwned'
    BY ItemKeepsCarts
  <2> QED
    BY <1>1, <1>2, <2>1 DEF CartsOwned
<1>4. table'[k].owner = CartOf[b]
  <2>1. cpc[CartOf[b]] = "201" /\ CartOf[b] \in Creates
    BY <1>1, ParameterAssumption DEF IInv, AddsOrdered
  <2>2. CartKept'
    BY ItemKeepsCarts DEF CartsOwned
  <2> QED
    BY <2>1, <2>2 DEF CartKept, ItemStored, createVars, IdOf
<1> QED
    BY <1>2, <1>3, <1>4 DEF IdOf

\* The lookup before an add changes no cart; with DynamoDB it waits for the
\* customer's other adds.
LEMMA CheckCartPreserves ==
    ASSUME Careful, IInv, TypeOK', NEW a \in Adds, CheckCart(a)
    PROVE  IInv'
<1> USE DEF TypeOK
<1>1. PICK r \in {"404", "add", "500"} : apc' = [apc EXCEPT ![a] = r]
    BY DEF CheckCart
<1>2. /\ apc[a] = "start" /\ cpc[CartOf[a]] = "201"
      /\ db \in Serial => \A b \in Adds : CartOf[b] = CartOf[a] => ~Adding(b)
      /\ UNCHANGED <<db, clock, table, replica, createVars, read>>
    BY DEF CheckCart
<1>3. CartsNumbered' /\ CartsOwned'
    BY <1>2 DEF IInv, CartsNumbered, CartsOwned, CartKept, createVars
<1>4. \A b \in Adds : b # a => apc'[b] = apc[b]
    BY <1>1 DEF IInv
<1>5. ASSUME NEW b \in Adds, NEW d \in Adds, db = "dynamodb", Adding(b)', Adding(d)',
             CartOf[b] = CartOf[d]
      PROVE  b = d
  <2>1. \A x \in Adds : CartOf[x] = CartOf[a] => ~Adding(x)
    BY <1>2, <1>5 DEF Careful, IInv
  <2> QED
    BY <1>4, <1>5, <2>1 DEF Adding, IInv, AddsOrdered
<1>6. AddsOrdered'
  <2>1. AddsKept'
    BY <1>1, <1>2, <1>4 DEF IInv, AddsOrdered, AddsKept, IdOf, createVars
  <2>2. \A b \in Adds : apc'[b] = "put" => db' = "dynamodb" /\ read'[b] = table'[IdOf(b)']
    BY <1>1, <1>2, <1>4 DEF IInv, AddsOrdered, IdOf, createVars
  <2>3. \A b \in Adds : apc'[b] # "start" => cpc'[CartOf[b]] = "201"
    BY <1>2, <1>4 DEF IInv, AddsOrdered, createVars
  <2> QED
    BY <1>2, <1>5, <2>1, <2>2, <2>3 DEF AddsOrdered
<1> QED
    BY <1>3, <1>6 DEF IInv

\* An add that ends without changing the cart leaves everything else as it is.
LEMMA AddFails ==
    ASSUME IInv, TypeOK', NEW a \in Adds, apc[a] # "start", apc' = [apc EXCEPT ![a] = "500"],
           UNCHANGED <<db, clock, table, replica, createVars, read>>
    PROVE  IInv'
<1> USE DEF TypeOK
<1>1. \A b \in Adds : b # a => apc'[b] = apc[b]
    BY DEF IInv
<1>2. apc'[a] = "500"
    BY DEF IInv
<1>3. CartsNumbered' /\ CartsOwned'
    BY DEF IInv, CartsNumbered, CartsOwned, CartKept, createVars
<1>4. AddsKept'
    BY <1>1, <1>2 DEF IInv, AddsOrdered, AddsKept, IdOf, createVars
<1>5. AddsOrdered'
    BY <1>1, <1>2, <1>4 DEF IInv, AddsOrdered, Adding, IdOf, createVars
<1> QED
    BY <1>3, <1>5 DEF IInv

\* MySQL changes the item in one transaction.
LEMMA UpsertItemPreserves ==
    ASSUME IInv, TypeOK', NEW a \in Adds, UpsertItem(a)
    PROVE  IInv'
<1> USE DEF TypeOK
<1>1. db = "mysql" /\ apc[a] = "add" /\ UNCHANGED <<db, clock, replica, createVars, read>>
    BY DEF UpsertItem
<1>2. CASE /\ table' = [table EXCEPT ![IdOf(a)] = With(table[IdOf(a)], a)]
           /\ apc'[a] \in {"204", "500"} /\ apc' = [apc EXCEPT ![a] = apc'[a]]
  <2>1. ItemStored(a)
    BY <1>1, <1>2 DEF ItemStored
  <2>2. \A b \in Adds : b # a => apc'[b] = apc[b]
    BY <1>2 DEF IInv
  <2>3. AddsKept'
    BY <1>1, <2>1, <2>2, ItemsKept DEF AddsKept, IdOf, createVars
  <2>4. AddsOrdered'
    BY <1>1, <1>2, <2>2, <2>3 DEF IInv, AddsOrdered, Adding, createVars
  <2> QED
    BY <2>1, <2>4, ItemKeepsCarts DEF IInv
<1>3. CASE table' = table /\ apc' = [apc EXCEPT ![a] = "500"]
    BY <1>1, <1>3, AddFails
<1>4. \E outcome \in Outcomes :
        /\ table' = IF Applied(outcome) THEN [table EXCEPT ![IdOf(a)] = With(@, a)] ELSE table
        /\ apc' = [apc EXCEPT ![a] = IF outcome = "ok" THEN "204" ELSE "500"]
    BY DEF UpsertItem
<1> QED
    BY <1>2, <1>3, <1>4 DEF Applied, IInv

\* DynamoDB's add reads the cart as it is ...
LEMMA GetForAddPreserves ==
    ASSUME IInv, TypeOK', NEW a \in Adds, GetForAdd(a)
    PROVE  IInv'
<1> USE DEF TypeOK
<1>1. db = "dynamodb" /\ apc[a] = "add" /\ UNCHANGED <<db, clock, table, replica, createVars>>
    BY DEF GetForAdd
<1>2. CASE apc' = [apc EXCEPT ![a] = "500"] /\ UNCHANGED read
    BY <1>1, <1>2, AddFails
<1>3. CASE read' = [read EXCEPT ![a] = table[IdOf(a)]] /\ apc' = [apc EXCEPT ![a] = "put"]
  <2>1. /\ \A b \in Adds : b # a => apc'[b] = apc[b] /\ read'[b] = read[b]
        /\ apc'[a] = "put" /\ read'[a] = table[IdOf(a)]
    BY <1>3 DEF IInv
  <2>2. CartsNumbered' /\ CartsOwned'
    BY <1>1 DEF IInv, CartsNumbered, CartsOwned, CartKept, createVars
  <2>3. AddsKept'
    BY <1>1, <2>1 DEF IInv, AddsOrdered, AddsKept, IdOf, createVars
  <2>4. AddsOrdered'
    BY <1>1, <2>1, <2>3 DEF IInv, AddsOrdered, Adding, IdOf, createVars
  <2> QED
    BY <2>2, <2>4 DEF IInv
<1> QED
    BY <1>2, <1>3 DEF GetForAdd

\* ... and writes back what it read, which nobody has changed.
LEMMA PutWithItemPreserves ==
    ASSUME IInv, TypeOK', NEW a \in Adds, PutWithItem(a)
    PROVE  IInv'
<1> USE DEF TypeOK
<1>1. /\ apc[a] = "put" /\ db = "dynamodb" /\ read[a] = table[IdOf(a)]
      /\ UNCHANGED <<db, clock, replica, createVars, read>>
    BY DEF PutWithItem, IInv, AddsOrdered
<1>2. CASE /\ table' = [table EXCEPT ![IdOf(a)] = With(table[IdOf(a)], a)]
           /\ apc'[a] \in {"204", "500"} /\ apc' = [apc EXCEPT ![a] = apc'[a]]
  <2>1. ItemStored(a)
    BY <1>1, <1>2 DEF ItemStored
  <2>2. \A b \in Adds : b # a => apc'[b] = apc[b]
    BY <1>2 DEF IInv
  <2>3. AddsKept'
    BY <1>1, <2>1, <2>2, ItemsKept DEF AddsKept, IdOf, createVars
  <2>4. ASSUME NEW b \in Adds, apc'[b] = "put" PROVE read'[b] = table'[IdOf(b)']
    <3>1. b # a /\ apc[b] = "put" /\ read[b] = table[IdOf(b)]
      BY <1>2, <2>2, <2>4 DEF IInv, AddsOrdered
    <3>2. CartOf[b] # CartOf[a]
      BY <1>1, <3>1 DEF IInv, AddsOrdered, Adding
    <3>3. IdOf(b) \in Ids /\ IdOf(b) # IdOf(a)
      BY <1>1, <3>1, <3>2, CartOfAdd
    <3>4. table'[IdOf(b)] = table[IdOf(b)]
      BY <2>1, <3>3, OneItemChanged
    <3> QED
      BY <1>1, <3>1, <3>4 DEF IdOf, createVars
  <2>5. AddsOrdered'
    BY <1>1, <1>2, <2>2, <2>3, <2>4 DEF IInv, AddsOrdered, Adding, createVars
  <2> QED
    BY <2>1, <2>5, ItemKeepsCarts DEF IInv
<1>3. CASE table' = table /\ apc' = [apc EXCEPT ![a] = "500"]
    BY <1>1, <1>3, AddFails
<1>4. \E outcome \in Outcomes :
        /\ table' = IF Applied(outcome) THEN [table EXCEPT ![IdOf(a)] = With(read[a], a)] ELSE table
        /\ apc' = [apc EXCEPT ![a] = IF outcome = "ok" THEN "204" ELSE "500"]
    BY DEF PutWithItem
<1> QED
    BY <1>1, <1>2, <1>3, <1>4 DEF Applied, IInv

-----------------------------------------------------------------------------
(* Every step *)

\* A task with MySQL that restarts goes on with the numbers of the table.
LEMMA RestartPreserves ==
    ASSUME Careful, IInv, TypeOK', Restart
    PROVE  IInv'
<1> USE DEF TypeOK
<1>1. /\ cpc' = [c \in Creates |-> IF cpc[c] = "put" THEN "dead" ELSE cpc[c]]
      /\ apc' = [a \in Adds |-> IF Adding(a) THEN "dead" ELSE apc[a]]
      /\ UNCHANGED <<db, table, replica, id, read>>
    BY DEF Restart
<1>2. db # "dynamodb" /\ nextID' = nextID
    BY DEF Restart, Careful, Faults, NewMySQLStore, IInv
<1>3. \A c \in Creates : cpc[c] # "put" /\ cpc'[c] = cpc[c]
    BY <1>1, <1>2 DEF IInv, CartsOwned
<1>4. \A a \in Adds : apc'[a] = apc[a] \/ (apc[a] = "add" /\ apc'[a] = "dead")
    BY <1>1, <1>2 DEF IInv, AddsOrdered, Adding
<1>5. CartsNumbered' /\ CartsOwned'
    BY <1>1, <1>2, <1>3 DEF IInv, CartsNumbered, CartsOwned, CartKept
<1>6. AddsKept'
    BY <1>1, <1>4 DEF IInv, AddsOrdered, AddsKept, IdOf
<1>7. AddsOrdered'
  <2>1. \A a \in Adds : apc'[a] # "start" => cpc'[CartOf[a]] = "201"
    BY <1>3, <1>4, ParameterAssumption DEF IInv, AddsOrdered
  <2>2. \A a \in Adds : apc'[a] # "put"
    BY <1>2, <1>4 DEF IInv, AddsOrdered
  <2> QED
    BY <1>1, <1>2, <1>6, <2>1, <2>2 DEF AddsOrdered
<1> QED
    BY <1>5, <1>7 DEF IInv

\* Every step preserves the invariant.
LEMMA NextPreserves == ASSUME Careful PROVE IInv /\ [Next]_vars => IInv'
<1> SUFFICES ASSUME IInv, [Next]_vars PROVE IInv'
    OBVIOUS
<1>1. TypeOK'
    BY TypePreserved DEF IInv
<1>2. ASSUME UNCHANGED <<db, table, createVars, addVars>> PROVE IInv'
    BY <1>1, <1>2 DEF IInv, CartsNumbered, CartsOwned, CartKept, AddsOrdered, AddsKept, Adding,
        IdOf, createVars, addVars
<1>3. CASE UNCHANGED vars
    BY <1>2, <1>3 DEF vars
<1>4. ASSUME (\E i \in Ids : Sync(i)) \/ Tick PROVE IInv'
    BY <1>2, <1>4 DEF Sync, Tick
<1>5. CASE Next
    BY <1>1, <1>4, <1>5, InsertCartPreserves, DrawIDPreserves, PutCartPreserves,
        CheckCartPreserves, UpsertItemPreserves, GetForAddPreserves, PutWithItemPreserves,
        RestartPreserves DEF Next
<1> QED
    BY <1>3, <1>5

\* The invariant of carts and items.
THEOREM Invariant == ASSUME Careful PROVE Spec => []IInv
<1>1. Init => IInv
  <2> SUFFICES ASSUME Init PROVE IInv
    OBVIOUS
  <2>1. TypeOK
    BY ParameterAssumption DEF Init, TypeOK, NoCart, Cart, Empty, Ids
  <2>2. CartsNumbered
    BY DEF Init, CartsNumbered
  <2>3. CartsOwned
    BY DEF Init, CartsOwned, CartKept, NoCart, Empty
  <2>4. AddsOrdered
    BY DEF Init, AddsOrdered, AddsKept, Adding
  <2> QED
    BY <2>1, <2>2, <2>3, <2>4 DEF IInv
<1> QED
    BY <1>1, NextPreserves, PTL DEF Spec

\* A customer who was answered with an id keeps that cart.
THEOREM CartsStay == ASSUME Careful PROVE Spec => []CartKept
<1>1. IInv => CartKept
    BY DEF IInv, CartsOwned
<1> QED
    BY <1>1, Invariant, PTL

\* An item that was answered 204 stays in its cart.
THEOREM ItemsStay == ASSUME Careful PROVE Spec => []AddsKept
<1>1. IInv => AddsKept
    BY DEF IInv, AddsOrdered
<1> QED
    BY <1>1, Invariant, PTL

-----------------------------------------------------------------------------
(* The store implements its contract *)

\* The contract's carts, as in the definition of Contract.
Carts == [c \in Creates |-> IF table[id[c]].owner = c THEN table[id[c]].items ELSE None]

\* A cart that appears under its owner's id is the contract's new cart.
LEMMA StoredIsCreated ==
    ASSUME IInv, NEW c \in Creates, NEW i, CartStored(c, i)
    PROVE  Contract!CreateCart(c)
<1> USE DEF TypeOK
<1>1. /\ \A d \in Creates : d # c => table'[id'[d]] = table[id[d]]
      /\ table'[id'[c]] = [owner |-> c, items |-> Empty]
    BY OthersUntouched
<1>2. table[id[c]].owner # c
  <2>1. table[id[c]] = NoCart
    BY DEF CartStored, IInv, CartsNumbered
  <2> QED
    BY <2>1, NoneAssumption DEF NoCart
<1>3. Carts[c] = None /\ Carts'[c] = Empty
    BY <1>1, <1>2 DEF Carts
<1>4. \A d \in Creates : d # c => Carts'[d] = Carts[d]
    BY <1>1 DEF Carts
<1>5. Carts' = [Carts EXCEPT ![c] = Empty]
    BY <1>3, <1>4 DEF Carts
<1> QED
    BY <1>3, <1>5 DEF Contract!CreateCart, Contract!Empty, Empty, Carts

\* An item that is written is the contract's added item.
LEMMA StoredIsAdded ==
    ASSUME IInv, NEW a \in Adds, ItemStored(a)
    PROVE  Contract!AddItem(a)
<1> USE DEF TypeOK
<1> DEFINE c == CartOf[a]
<1>1. /\ c \in Creates /\ IdOf(a) = id[c] /\ id[c] \in Ids
      /\ \A d \in Creates : d # c => id[d] # id[c]
      /\ table[id[c]].owner = c /\ UNCHANGED id
    BY CartOfAdd DEF ItemStored, IdOf, createVars
<1>2. /\ \A i \in Ids : i # id[c] => table'[i] = table[i]
      /\ table'[id[c]].owner = c
      /\ table'[id[c]].items = [table[id[c]].items EXCEPT ![ProductOf[a]] = a]
      /\ table[id[c]].items \in [Products -> Adds \cup {None}]
    BY <1>1, OneItemChanged
<1>3. Carts[c] = table[id[c]].items /\ Carts'[c] = [Carts[c] EXCEPT ![ProductOf[a]] = a]
    BY <1>1, <1>2 DEF Carts
<1>4. \A d \in Creates : d # c => Carts'[d] = Carts[d]
    BY <1>1, <1>2 DEF Carts, IInv
<1>5. Carts[c] # None
    BY <1>2, <1>3, NoneAssumption
<1>6. Carts' = [Carts EXCEPT ![c] = [Carts[c] EXCEPT ![ProductOf[a]] = a]]
    BY <1>3, <1>4 DEF Carts
<1> QED
    BY <1>5, <1>6 DEF Contract!AddItem, Carts

\* Every step of the store is a step of its contract, or changes no cart.
LEMMA StepImplements ==
    ASSUME IInv, Next
    PROVE  Contract!Next \/ UNCHANGED Carts
<1> USE DEF TypeOK
<1>1. ASSUME NEW c \in Creates, InsertCart(c) PROVE Contract!CreateCart(c) \/ UNCHANGED Carts
  <2> DEFINE n == nextID + 1
  <2>1. /\ cpc[c] = "start" /\ n \in Ids /\ n # 0 /\ id[c] = 0 /\ table[n] = NoCart
        /\ \A d \in Creates : id[d] # n
        /\ id' = [id EXCEPT ![c] = n] /\ UNCHANGED <<db, addVars>>
    <3>1. nextID \in Nat /\ \A d \in Creates : id[d] \in Nat
      BY IdsAreNumbers DEF IInv
    <3>2. \A d \in Creates : id[d] = 0 \/ id[d] <= nextID
      BY DEF IInv, CartsNumbered
    <3> QED
      BY <1>1, <3>1, <3>2 DEF IInv, CartsNumbered, InsertCart
  <2>2. \/ table' = [table EXCEPT ![n] = [owner |-> c, items |-> Empty]]
        \/ table' = table
    BY <1>1 DEF InsertCart
  <2>3. cpc' = [cpc EXCEPT ![c] = cpc'[c]]
    BY <1>1 DEF InsertCart, IInv
  <2>4. CASE table' = [table EXCEPT ![n] = [owner |-> c, items |-> Empty]]
    BY <2>1, <2>3, <2>4, StoredIsCreated DEF CartStored
  <2>5. CASE table' = table
    <3>1. table[0] = NoCart /\ NoCart.owner # c
      BY IdsAreNumbers, NoneAssumption DEF IInv, CartsNumbered, NoCart
    <3>2. \A d \in Creates : Carts'[d] = Carts[d]
      BY <2>1, <2>5, <3>1 DEF Carts, IInv
    <3> QED
      BY <3>2 DEF Carts
  <2> QED
    BY <2>2, <2>4, <2>5
<1>2. ASSUME NEW c \in Creates, DrawID(c) PROVE UNCHANGED Carts
  <2> DEFINE n == nextID + 1
  <2>1. /\ n \in Ids /\ table[n] = NoCart /\ table[id[c]] = NoCart /\ NoCart.owner # c
        /\ id' = [id EXCEPT ![c] = n] /\ UNCHANGED table
    <3>1. nextID \in Nat /\ n > nextID
      BY DEF IInv
    <3> QED
      BY <1>2, <3>1, IdsAreNumbers, NoneAssumption DEF DrawID, IInv, CartsNumbered, NoCart
  <2>2. \A d \in Creates : Carts'[d] = Carts[d]
    BY <2>1 DEF Carts, IInv
  <2> QED
    BY <2>2 DEF Carts
<1>3. ASSUME NEW c \in Creates, PutCart(c) PROVE Contract!CreateCart(c) \/ UNCHANGED Carts
  <2>1. /\ cpc[c] = "put" /\ UNCHANGED <<db, nextID, id, addVars>>
        /\ table[id[c]] = NoCart /\ id[c] \in Ids /\ id[c] # 0
        /\ \A d \in Creates : d # c => id[d] # id[c]
    BY <1>3 DEF PutCart, IInv, CartsOwned, CartsNumbered
  <2>2. id' = [id EXCEPT ![c] = id[c]] /\ cpc' = [cpc EXCEPT ![c] = cpc'[c]]
    BY <1>3 DEF PutCart, IInv
  <2>3. \/ table' = [table EXCEPT ![id[c]] = [owner |-> c, items |-> Empty]]
        \/ table' = table
    BY <1>3 DEF PutCart
  <2>4. CASE table' = [table EXCEPT ![id[c]] = [owner |-> c, items |-> Empty]]
    BY <2>1, <2>2, <2>4, StoredIsCreated DEF CartStored
  <2>5. CASE table' = table
    BY <2>1, <2>5 DEF Carts
  <2> QED
    BY <2>3, <2>4, <2>5
<1>4. ASSUME NEW a \in Adds, UpsertItem(a) \/ PutWithItem(a)
      PROVE  Contract!AddItem(a) \/ UNCHANGED Carts
  <2>1. /\ apc[a] # "start" /\ UNCHANGED <<db, createVars>>
        /\ \/ table' = [table EXCEPT ![IdOf(a)] = With(table[IdOf(a)], a)]
           \/ table' = table
    BY <1>4 DEF UpsertItem, PutWithItem, IInv, AddsOrdered
  <2>2. CASE table' = table
    BY <2>1, <2>2 DEF Carts, createVars
  <2>3. CASE table' = [table EXCEPT ![IdOf(a)] = With(table[IdOf(a)], a)]
    BY <2>1, <2>3, StoredIsAdded DEF ItemStored
  <2> QED
    BY <2>1, <2>2, <2>3
<1>5. ASSUME UNCHANGED <<table, id>> PROVE UNCHANGED Carts
    BY <1>5 DEF Carts
<1>6. ASSUME NEW a \in Adds, CheckCart(a) \/ GetForAdd(a) PROVE UNCHANGED <<table, id>>
    BY <1>6 DEF CheckCart, GetForAdd, createVars
<1>7. ASSUME (\E i \in Ids : Sync(i)) \/ Tick \/ Restart PROVE UNCHANGED <<table, id>>
    BY <1>7 DEF Sync, Tick, Restart, createVars
<1> QED
    BY <1>1, <1>2, <1>3, <1>4, <1>5, <1>6, <1>7 DEF Next, Contract!Next

\* Either store creates carts empty and once, and sets one product of one cart
\* at a time, whatever fails in it.
THEOREM ImplementsContract == ASSUME Careful PROVE Spec => ImplementsCartStore
<1>1. Init => Contract!Init
  <2> SUFFICES ASSUME Init PROVE Contract!Init
    OBVIOUS
  <2>1. \A c \in Creates : table[id[c]].owner # c
    BY IdsAreNumbers, NoneAssumption DEF Init, NoCart
  <2> QED
    BY <2>1 DEF Contract!Init
<1>2. IInv /\ [Next]_vars => [Contract!Next]_Carts
  <2>1. UNCHANGED vars => UNCHANGED Carts
    BY DEF vars, createVars, Carts
  <2> QED
    BY <2>1, StepImplements
<1> QED
    BY <1>1, <1>2, Invariant, PTL DEF Spec, ImplementsCartStore, Contract!Spec, Carts
=============================================================================
