------------------------------ MODULE CartStore ------------------------------
(***************************************************************************)
(* The contract of homework8's CartStore interface: a cart is created once *)
(* and empty, and adding an item sets the quantity of one product.         *)
(***************************************************************************)
CONSTANTS Creates, Adds, Products, CartOf, ProductOf, None

VARIABLE carts      \* of each create: None, or the quantity of each product

Empty == [p \in Products |-> None]

Init == carts = [c \in Creates |-> None]

CreateCart(c) ==
    /\ carts[c] = None
    /\ carts' = [carts EXCEPT ![c] = Empty]

AddItem(a) ==
    /\ carts[CartOf[a]] # None
    /\ carts' = [carts EXCEPT ![CartOf[a]][ProductOf[a]] = a]

Next ==
    \/ \E c \in Creates : CreateCart(c)
    \/ \E a \in Adds : AddItem(a)

Spec == Init /\ [][Next]_carts
=============================================================================
