------------------------------ MODULE Inventory ------------------------------
(***************************************************************************)
(* What the order book and the stock column promise together, whatever the *)
(* number of concurrent checkouts: units enter the inventory when an       *)
(* administrator states a stock level, leave it when an order is created,  *)
(* and an order takes all of its units, from the stock of that very        *)
(* moment, in one indivisible step.  routers/orders.py states it as "all   *)
(* changes land in the database at once" and as the absence of the         *)
(* "oversell race condition".  Checkout.tla implements this specification. *)
(***************************************************************************)
EXTENDS Integers

CONSTANTS Products, Sessions

VARIABLES
    row, stock,     \* the products table
    supplied,       \* supplied[p]: units ever put on sale, net of corrections
    sold,           \* sold[p]: units taken by orders
    orders          \* the orders created so far

inventoryVars == <<row, stock, supplied, sold, orders>>

Items == [Products -> Nat]
Orders == [id : Nat, session : Sessions, items : Items]

Init ==
    /\ row \in [Products -> {"unborn", "live"}]
    /\ stock \in [Products -> Nat]
    /\ supplied = stock
    /\ sold = [p \in Products |-> 0]
    /\ orders = {}

\* One order: fresh id, every line covered by the stock, all lines at once.
\* (The new order and the new level are named through the next state, which
\* keeps every quantifier finite.)
Purchase ==
    \E o \in orders' :
        /\ o \in Orders
        /\ \A other \in orders : other.id # o.id
        /\ \E p \in Products : o.items[p] > 0
        /\ \A p \in Products :
              o.items[p] > 0 => row[p] = "live" /\ o.items[p] <= stock[p]
        /\ orders' = orders \cup {o}
        /\ stock' = [p \in Products |-> stock[p] - o.items[p]]
        /\ sold' = [p \in Products |-> sold[p] + o.items[p]]
        /\ UNCHANGED <<row, supplied>>

\* Stating a level n supplies the difference to what is in stock now.
Restock ==
    \E p \in Products : \E n \in {stock'[p]} :
        /\ n \in Nat
        /\ row[p] # "deleted"
        /\ row' = [row EXCEPT ![p] = "live"]
        /\ stock' = [stock EXCEPT ![p] = n]
        /\ supplied' = [supplied EXCEPT ![p] = @ + n - stock[p]]
        /\ UNCHANGED <<sold, orders>>

\* A product that was never ordered may disappear with its stock.
Withdraw ==
    \E p \in Products :
        /\ row[p] = "live" /\ sold[p] = 0
        /\ row' = [row EXCEPT ![p] = "deleted"]
        /\ stock' = [stock EXCEPT ![p] = 0]
        /\ supplied' = [supplied EXCEPT ![p] = 0]
        /\ UNCHANGED <<sold, orders>>

Next == Purchase \/ Restock \/ Withdraw

Spec == Init /\ [][Next]_inventoryVars
=============================================================================
