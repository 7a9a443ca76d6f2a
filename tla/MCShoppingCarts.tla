--------------------------- MODULE MCShoppingCarts ---------------------------
(***************************************************************************)
(* Instances of ShoppingCarts for TLC: two customers; the first one adds   *)
(* the first product twice and another once.  Either store, with what it   *)
(* withstands: MySQL everything; DynamoDB no restart, and one add at a     *)
(* time.                                                                   *)
(***************************************************************************)
EXTENDS ShoppingCarts

CONSTANTS c1, c2, a1, a2, a3, a4, p1, p2

MCCartOf == [a \in Adds |-> IF a = a4 THEN c2 ELSE c1]
MCProductOf == [a \in Adds |-> IF a = a3 THEN p2 ELSE p1]

Withstood == [d \in DbTypes |-> {"error", "lost"} \cup
                 IF d = "mysql" THEN {"restart"} ELSE {"stale"}]
Restarts == [d \in DbTypes |-> {"restart"}]
=============================================================================
