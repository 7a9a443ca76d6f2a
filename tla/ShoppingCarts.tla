---------------------------- MODULE ShoppingCarts ----------------------------
(***************************************************************************)
(* The shopping cart API of homework8 with either of its stores, chosen by *)
(* DB_TYPE when the task starts: MySQL, where each operation is one        *)
(* statement or transaction, and DynamoDB, where a cart is one item that   *)
(* AddItem reads, changes and writes back, and where the task numbers the  *)
(* carts itself.                                                           *)
(*                                                                         *)
(* A POST /shopping-carts stands for its customer, a POST of an item also  *)
(* for the quantity it stores.  One task runs (desired_count = 1).  Faults *)
(* as in AlbumStore: a call fails ("error"), or takes effect but its       *)
(* caller sees an error or the five second timeout ("lost"), the check's   *)
(* read may be old ("stale"), the task may restart ("restart").            *)
(***************************************************************************)
EXTENDS Naturals

CONSTANTS
    DbTypes,            \* what DB_TYPE may be: "mysql", "dynamodb"
    Creates, Adds, Products,
    CartOf, ProductOf,  \* what each add is about
    Serial,             \* the stores whose clients add one item at a time to a cart
    FaultsOf,           \* what may go wrong with each store
    SeedModulus,        \* 1000000: the counter starts at the clock modulo this
    MaxTime,            \* the clock stops here
    None

ASSUME ParameterAssumption ==
    /\ DbTypes \subseteq {"mysql", "dynamodb"} /\ Serial \subseteq DbTypes
    /\ CartOf \in [Adds -> Creates] /\ ProductOf \in [Adds -> Products]
    /\ FaultsOf \in [DbTypes -> SUBSET {"error", "lost", "stale", "restart"}]
    /\ SeedModulus \in Nat \ {0} /\ MaxTime \in Nat
ASSUME NoneAssumption == None \notin Creates \cup Adds \cup [Products -> Adds \cup {None}]

VARIABLES
    db,                 \* DB_TYPE
    clock,
    nextID,             \* of the task; with MySQL, AUTO_INCREMENT
    table,              \* the cart stored under each id
    replica,            \* what an eventually consistent read may find
    cpc, id,            \* CreateCart of each request, and its id
    apc, read           \* addItem, and the cart that AddItem has read

createVars == <<nextID, cpc, id>>
addVars == <<apc, read>>
vars == <<db, clock, table, replica, createVars, addVars>>

Empty == [p \in Products |-> None]
NoCart == [owner |-> None, items |-> Empty]
Cart == [owner : Creates \cup {None}, items : [Products -> Adds \cup {None}]]
Ids == 0..(SeedModulus + MaxTime)

Faults == FaultsOf[db]
Outcomes == {"ok"} \cup (Faults \cap {"error", "lost"})
Applied(outcome) == outcome # "error"
With(cart, a) == [cart EXCEPT !.items[ProductOf[a]] = a]

Init ==
    /\ db \in DbTypes
    /\ clock = 0 /\ nextID = 0
    /\ table = [i \in Ids |-> NoCart] /\ replica = table
    /\ cpc = [c \in Creates |-> "start"] /\ id = [c \in Creates |-> 0]
    /\ apc = [a \in Adds |-> "start"] /\ read = [a \in Adds |-> NoCart]

-----------------------------------------------------------------------------
(* POST /shopping-carts *)

\* Mutant: answers 200 where clients expect 201.
InsertCartOK(c) ==
    /\ db = "mysql" /\ cpc[c] = "start" /\ nextID + 1 \in Ids
    /\ table' = [table EXCEPT ![nextID + 1] = [owner |-> c, items |-> Empty]]
    /\ cpc' = [cpc EXCEPT ![c] = "200"]
    /\ nextID' = nextID + 1
    /\ id' = [id EXCEPT ![c] = nextID + 1]
    /\ UNCHANGED <<db, clock, replica, addVars>>

\* MySQLStore.CreateCart: one INSERT.
InsertCart(c) ==
    /\ db = "mysql" /\ cpc[c] = "start" /\ nextID + 1 \in Ids
    /\ \E outcome \in Outcomes :
        /\ table' = IF Applied(outcome)
                    THEN [table EXCEPT ![nextID + 1] = [owner |-> c, items |-> Empty]] ELSE table
        /\ cpc' = [cpc EXCEPT ![c] = IF outcome = "ok" THEN "201" ELSE "500"]
    /\ nextID' = nextID + 1
    /\ id' = [id EXCEPT ![c] = nextID + 1]
    /\ UNCHANGED <<db, clock, replica, addVars>>

\* Mutant: loads the counter and does not advance it.
DrawSameID(c) ==
    /\ db = "dynamodb" /\ cpc[c] = "start" /\ nextID + 1 \in Ids
    /\ id' = [id EXCEPT ![c] = nextID + 1]
    /\ cpc' = [cpc EXCEPT ![c] = "put"]
    /\ UNCHANGED <<db, clock, nextID, table, replica, addVars>>

\* DynamoStore.CreateCart: nextID.Add(1) ...
DrawID(c) ==
    /\ db = "dynamodb" /\ cpc[c] = "start" /\ nextID + 1 \in Ids
    /\ nextID' = nextID + 1
    /\ id' = [id EXCEPT ![c] = nextID + 1]
    /\ cpc' = [cpc EXCEPT ![c] = "put"]
    /\ UNCHANGED <<db, clock, table, replica, addVars>>

\* ... then a PutItem without a condition.
PutCart(c) ==
    /\ cpc[c] = "put"
    /\ \E outcome \in Outcomes :
        /\ table' = IF Applied(outcome)
                    THEN [table EXCEPT ![id[c]] = [owner |-> c, items |-> Empty]] ELSE table
        /\ cpc' = [cpc EXCEPT ![c] = IF outcome = "ok" THEN "201" ELSE "500"]
    /\ UNCHANGED <<db, clock, replica, nextID, id, addVars>>

-----------------------------------------------------------------------------
(* POST /shopping-carts/:id/items, with the id a create was answered *)

IdOf(a) == id[CartOf[a]]
Adding(a) == apc[a] \in {"add", "put"}

\* GetCart of either store: a join in one SELECT, and a read of one item that is
\* only eventually consistent.
SelectCart(i) == {table[i]}
GetItem(i) == {table[i]} \cup IF "stale" \in Faults THEN {replica[i]} ELSE {}

\* GetCart first: a cart that is not found is a 404.
CheckCart(a) ==
    /\ apc[a] = "start" /\ cpc[CartOf[a]] = "201"
    /\ db \in Serial => \A b \in Adds : CartOf[b] = CartOf[a] => ~Adding(b)
    /\ \/ \E cart \in IF db = "mysql" THEN SelectCart(IdOf(a)) ELSE GetItem(IdOf(a)) :
            apc' = [apc EXCEPT ![a] = IF cart = NoCart THEN "404" ELSE "add"]
       \/ "error" \in Faults /\ apc' = [apc EXCEPT ![a] = "500"]
    /\ UNCHANGED <<db, clock, table, replica, createVars, read>>

\* MySQLStore.AddItem: one transaction around the upsert.
UpsertItem(a) ==
    /\ db = "mysql" /\ apc[a] = "add"
    /\ \E outcome \in Outcomes :
        /\ table' = IF Applied(outcome) THEN [table EXCEPT ![IdOf(a)] = With(@, a)] ELSE table
        /\ apc' = [apc EXCEPT ![a] = IF outcome = "ok" THEN "204" ELSE "500"]
    /\ UNCHANGED <<db, clock, replica, createVars, read>>

\* Mutant: the read is not a consistent one.
GetStaleForAdd(a) ==
    /\ db = "dynamodb" /\ apc[a] = "add"
    /\ \E cart \in {table[IdOf(a)], replica[IdOf(a)]} \ {NoCart} :
        read' = [read EXCEPT ![a] = cart]
    /\ apc' = [apc EXCEPT ![a] = "put"]
    /\ UNCHANGED <<db, clock, table, replica, createVars>>

\* DynamoStore.AddItem: a consistent read of the whole cart ...
GetForAdd(a) ==
    /\ db = "dynamodb" /\ apc[a] = "add"
    /\ \/ /\ table[IdOf(a)] # NoCart
          /\ read' = [read EXCEPT ![a] = table[IdOf(a)]]
          /\ apc' = [apc EXCEPT ![a] = "put"]
       \/ /\ table[IdOf(a)] = NoCart \/ "error" \in Faults
          /\ apc' = [apc EXCEPT ![a] = "500"]
          /\ UNCHANGED read
    /\ UNCHANGED <<db, clock, table, replica, createVars>>

\* ... and the whole cart written back.
PutWithItem(a) ==
    /\ apc[a] = "put"
    /\ \E outcome \in Outcomes :
        /\ table' = IF Applied(outcome) THEN [table EXCEPT ![IdOf(a)] = With(read[a], a)] ELSE table
        /\ apc' = [apc EXCEPT ![a] = IF outcome = "ok" THEN "204" ELSE "500"]
    /\ UNCHANGED <<db, clock, replica, createVars, read>>

-----------------------------------------------------------------------------
(* The environment *)

Sync(i) ==
    /\ db = "dynamodb" /\ "stale" \in Faults /\ replica[i] # table[i]
    /\ replica' = [replica EXCEPT ![i] = table[i]]
    /\ UNCHANGED <<db, clock, table, createVars, addVars>>

Tick ==
    /\ "restart" \in Faults /\ clock < MaxTime
    /\ clock' = clock + 1
    /\ UNCHANGED <<db, table, replica, createVars, addVars>>

\* The constructors: one seeds the counter from the clock, the other connects and
\* creates the tables that do not exist, which leaves those that do.
NewDynamoStore == nextID' = clock' % SeedModulus
NewMySQLStore == nextID' = nextID

\* A restart takes longer than the clock's unit, a millisecond.
Restart ==
    /\ "restart" \in Faults /\ clock < MaxTime
    /\ clock' = clock + 1
    /\ IF db = "dynamodb" THEN NewDynamoStore ELSE NewMySQLStore
    /\ cpc' = [c \in Creates |-> IF cpc[c] = "put" THEN "dead" ELSE cpc[c]]
    /\ apc' = [a \in Adds |-> IF Adding(a) THEN "dead" ELSE apc[a]]
    /\ UNCHANGED <<db, table, replica, id, read>>

Next ==
    \/ \E c \in Creates : InsertCart(c) \/ DrawID(c) \/ PutCart(c)
    \/ \E a \in Adds : CheckCart(a) \/ UpsertItem(a) \/ GetForAdd(a) \/ PutWithItem(a)
    \/ \E i \in Ids : Sync(i)
    \/ Tick \/ Restart

Spec == Init /\ [][Next]_vars

-----------------------------------------------------------------------------
(* Correctness *)

\* The table holds carts, and every handler is at a known point.
TypeOK ==
    /\ db \in DbTypes /\ clock \in 0..MaxTime /\ nextID \in Nat
    /\ table \in [Ids -> Cart] /\ replica \in [Ids -> Cart]
    /\ cpc \in [Creates -> {"start", "put", "201", "500", "dead"}]
    /\ id \in [Creates -> Ids]
    /\ apc \in [Adds -> {"start", "add", "put", "204", "404", "500", "dead"}]
    /\ read \in [Adds -> Cart]

\* A customer who was given a cart id keeps that cart: it is never replaced by
\* the cart of a later customer.
CartKept == \A c \in Creates : cpc[c] = "201" => table[id[c]].owner = c

\* A product whose add was answered 204 is in the cart from then on, with the
\* quantity of some add of it.
AddsKept ==
    \A a \in Adds : apc[a] = "204" =>
        LET item == table[IdOf(a)].items[ProductOf[a]]
        IN  item # None /\ CartOf[item] = CartOf[a] /\ ProductOf[item] = ProductOf[a]

Contract == INSTANCE CartStore WITH
    carts <- [c \in Creates |-> IF table[id[c]].owner = c THEN table[id[c]].items ELSE None]

\* The store implements its interface: every step of it, failures included,
\* creates one empty cart, sets one product of one cart, or changes nothing.
ImplementsCartStore == Contract!Spec
=============================================================================
