-------------------------------- MODULE Shop --------------------------------
(***************************************************************************)
(* The stores that the request handlers of the platform share: the         *)
(* products table of PostgreSQL (migrations/init.sql, app/models/          *)
(* product.py) and the cart hashes of Valkey (key "cart:<session>", field  *)
(* = product id, value = quantity).                                        *)
(***************************************************************************)
EXTENDS Integers

CONSTANTS
    Products,       \* product ids, allocated or still to be allocated
    Sessions        \* shopping sessions: the cart keys

VARIABLES
    row,            \* row[p]: is there a products row with id p?
    stock,          \* stock[p]: committed value of products.stock
    cart,           \* cart[s][p]: committed quantity, 0 = no such field
    expiring        \* the sessions whose cart key carries a TTL

shopVars == <<row, stock, cart, expiring>>

\* A serial id is "unborn" until its row is inserted and is never reused.
RowStates == {"unborn", "live", "deleted"}

\* A hash without fields does not exist in Valkey.
EmptyCart == [p \in Products |-> 0]

\* The fields of a cart hash, or the lines of an order.
Lines(c) == {p \in Products : c[p] > 0}

\* Mutant: the DEL is forgotten.
DeleteCartForgotten(s) == UNCHANGED <<cart, expiring>>

\* DEL cart:<s> removes the key together with its TTL.
DeleteCart(s) ==
    /\ cart' = [cart EXCEPT ![s] = EmptyCart]
    /\ expiring' = expiring \ {s}

\* The shop opens with some products on sale and some carts filled: a cart
\* line names a product that exists (add_to_cart checks it) and the cart was
\* given its TTL.
ShopInit(quantities, levels) ==
    /\ row \in [Products -> {"unborn", "live"}]
    /\ stock \in [Products -> levels \cup {0}]
    /\ \A p \in Products : row[p] = "unborn" => stock[p] = 0
    /\ cart \in [Sessions -> [Products -> quantities \cup {0}]]
    /\ \A s \in Sessions : \A p \in Lines(cart[s]) : row[p] = "live"
    /\ expiring = {s \in Sessions : cart[s] # EmptyCart}

ShopTypeOK ==
    /\ row \in [Products -> RowStates]
    /\ stock \in [Products -> Int]
    /\ cart \in [Sessions -> [Products -> Nat]]
    /\ expiring \in SUBSET Sessions
=============================================================================
