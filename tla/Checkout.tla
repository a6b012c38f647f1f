------------------------------ MODULE Checkout ------------------------------
(***************************************************************************)
(* POST /orders/checkout (app/routers/orders.py) run by any number of      *)
(* concurrent requests against the shared stores of Shop.tla, together     *)
(* with the administrator's writes of products.stock (routers/products.py) *)
(* and the row locks, deadlock detection and serial ids of PostgreSQL.     *)
(*                                                                         *)
(* A handler may lose the processor at every await, so every await that    *)
(* touches a shared store is a step of its own, and at every one of them   *)
(* an exception or the end of the process may stop the handler (Abort).    *)
(* The DELs of the product cache (orders.py:162-168) touch none of this    *)
(* state: they stutter here.                                               *)
(***************************************************************************)
EXTENDS Shop, FiniteSetsExt

CONSTANTS
    Requests,       \* checkout requests, each sent once
    NoRequest,      \* "nobody holds the row lock"
    NoProduct,      \* "the handler waits for no row"
    NoSession,      \* "the request has not started"
    Quantities,     \* quantities found in carts when the system starts
    StockLevels     \* stock levels an administrator states

ASSUME CheckoutAssumption ==
    /\ NoRequest \notin Requests
    /\ NoProduct \notin Products
    /\ NoSession \notin Sessions
    /\ Quantities \subseteq Nat
    /\ StockLevels \subseteq Nat

VARIABLES
    lock,           \* lock[p]: the request whose transaction holds row p
    pc,             \* pc[r]: where the handler stands
    session,        \* session[r]: data.session_id
    rawCart,        \* rawCart[r]: the result of HGETALL
    want,           \* want[r]: the product whose SELECT FOR UPDATE is pending
    items,          \* items[r]: order_items_to_create
    draft,          \* draft[r][p]: uncommitted product.stock
    orderId,        \* orderId[r]: order.id, 0 before the INSERT
    nextId,         \* the sequence behind orders.id
    orders,         \* committed orders with their order_items
    published,      \* ids of the order.created events handed to RabbitMQ
    supplied,       \* history: units put on sale, net of corrections
    sold            \* history: units taken by committed orders

handlerVars == <<pc, session, rawCart, want, items, draft, orderId>>
historyVars == <<supplied, sold>>
checkoutVars ==
    <<lock, handlerVars, nextId, orders, published, historyVars>>
vars == <<shopVars, checkoutVars>>

InTransaction == {"reserving", "inserted"}
Committed == {"committed", "cleared", "published", "confirmed"}
Ended == {"confirmed", "rejected", "failed"}
States == {"idle"} \cup InTransaction \cup Committed \cup Ended

CheckoutTypeOK ==
    /\ ShopTypeOK
    /\ lock \in [Products -> Requests \cup {NoRequest}]
    /\ pc \in [Requests -> States]
    /\ session \in [Requests -> Sessions \cup {NoSession}]
    /\ rawCart \in [Requests -> [Products -> Nat]]
    /\ want \in [Requests -> Products \cup {NoProduct}]
    /\ items \in [Requests -> [Products -> Nat]]
    /\ draft \in [Requests -> [Products -> Int]]
    /\ orderId \in [Requests -> Nat]
    /\ nextId \in Nat
    /\ orders \in SUBSET [id : Nat, session : Sessions,
                          items : [Products -> Nat]]
    /\ published \in SUBSET Nat
    /\ supplied \in [Products -> Int]
    /\ sold \in [Products -> Nat]

-----------------------------------------------------------------------------
CheckoutInit ==
    /\ ShopInit(Quantities, StockLevels)
    /\ lock = [p \in Products |-> NoRequest]
    /\ pc = [r \in Requests |-> "idle"]
    /\ session = [r \in Requests |-> NoSession]
    /\ rawCart = [r \in Requests |-> EmptyCart]
    /\ want = [r \in Requests |-> NoProduct]
    /\ items = [r \in Requests |-> EmptyCart]
    /\ draft = [r \in Requests |-> EmptyCart]
    /\ orderId = [r \in Requests |-> 0]
    /\ nextId = 1
    /\ orders = {}
    /\ published = {}
    /\ supplied = stock
    /\ sold = [p \in Products |-> 0]

-----------------------------------------------------------------------------
\* PostgreSQL.

\* Mutant: a SELECT without FOR UPDATE.
RowIsFreeUnlocked(p) == TRUE

\* SELECT ... FOR UPDATE and UPDATE wait while another transaction has the row.
RowIsFree(p) == lock[p] = NoRequest

\* Mutant: the transaction is left open.
ReleaseLocksNever(r) == UNCHANGED lock

\* The end of a transaction, by COMMIT or ROLLBACK, frees all of its rows.
ReleaseLocks(r) ==
    lock' = [p \in Products |-> IF lock[p] = r THEN NoRequest ELSE lock[p]]

\* r waits for a row whose holder waits for a row ... held by r itself.
InDeadlock(r) ==
    \E W \in SUBSET Requests :
        /\ r \in W
        /\ \A w \in W : want[w] # NoProduct
        /\ {lock[want[w]] : w \in W} = W

\* The handler leaves the transaction without effect and drops its locals.
RollBack(r, outcome) ==
    /\ ReleaseLocks(r)
    /\ pc' = [pc EXCEPT ![r] = outcome]
    /\ want' = [want EXCEPT ![r] = NoProduct]
    /\ items' = [items EXCEPT ![r] = EmptyCart]
    /\ draft' = [draft EXCEPT ![r] = EmptyCart]
    /\ orderId' = [orderId EXCEPT ![r] = 0]
    /\ UNCHANGED <<shopVars, session, rawCart, nextId, orders, published,
                   historyVars>>

-----------------------------------------------------------------------------
\* The handler, await by await.

\* Mutant: every line counts as one unit.
ContentsByLine(s) == [p \in Products |-> IF cart[s][p] > 0 THEN 1 ELSE 0]

\* What HGETALL returns, converted with int().
Contents(s) == cart[s]

\* HGETALL, outside of the transaction.  An empty result is a 400.
ReadCart(r) ==
    \E s \in Sessions :
        /\ pc[r] = "idle"
        /\ session' = [session EXCEPT ![r] = s]
        /\ rawCart' = [rawCart EXCEPT ![r] = Contents(s)]
        /\ pc' = [pc EXCEPT ![r] =
                    IF Lines(cart[s]) = {} THEN "rejected" ELSE "reserving"]
        /\ UNCHANGED <<shopVars, lock, want, items, draft, orderId, nextId,
                       orders, published, historyVars>>

\* The loop sends the SELECT FOR UPDATE of its next line; the fields of a
\* hash come in no particular order.
NextLine(r) ==
    /\ pc[r] = "reserving"
    /\ want[r] = NoProduct
    /\ \E p \in Lines(rawCart[r]) \ Lines(items[r]) :
          want' = [want EXCEPT ![r] = p]
    /\ UNCHANGED <<shopVars, lock, pc, session, rawCart, items, draft,
                   orderId, nextId, orders, published, historyVars>>

\* Mutant: the 409 is missing.
InStockUnchecked(p, quantity) == TRUE

InStock(p, quantity) == quantity <= stock[p]

\* The row is locked and read; the decrement is computed in Python from the
\* value read and stays in the transaction.
Reserve(r) ==
    \E p \in {want[r]} \cap Products :
        /\ pc[r] = "reserving"
        /\ row[p] = "live"
        /\ RowIsFree(p)
        /\ InStock(p, rawCart[r][p])
        /\ lock' = [lock EXCEPT ![p] = r]
        /\ draft' = [draft EXCEPT ![r][p] = stock[p] - rawCart[r][p]]
        /\ items' = [items EXCEPT ![r][p] = rawCart[r][p]]
        /\ want' = [want EXCEPT ![r] = NoProduct]
        /\ UNCHANGED <<shopVars, pc, session, rawCart, orderId, nextId,
                       orders, published, historyVars>>

\* 404: no such row.  409: the row is there but has too few units.
Reject(r) ==
    \E p \in {want[r]} \cap Products :
        /\ pc[r] = "reserving"
        /\ \/ row[p] # "live"
           \/ RowIsFree(p) /\ ~InStock(p, rawCart[r][p])
        /\ RollBack(r, "rejected")

\* Mutant: the id is computed from the orders table.
FreshIdFromTable == Max({o.id : o \in orders} \cup {0}) + 1

\* nextval() of the sequence.
FreshId == nextId

\* db.flush() after the loop: the sequence hands out order.id, and a
\* rollback does not give it back.
InsertOrder(r) ==
    /\ pc[r] = "reserving"
    /\ items[r] = rawCart[r]
    /\ want[r] = NoProduct
    /\ orderId' = [orderId EXCEPT ![r] = FreshId]
    /\ nextId' = nextId + 1
    /\ pc' = [pc EXCEPT ![r] = "inserted"]
    /\ UNCHANGED <<shopVars, lock, session, rawCart, want, items, draft,
                   orders, published, historyVars>>

\* Mutant: only one of the OrderItem rows is added.
NewOrderOneLine(r) ==
    LET line == CHOOSE p \in Lines(items[r]) : TRUE
    IN  [id |-> orderId[r], session |-> session[r],
         items |-> [p \in Products |-> IF p = line THEN items[r][p] ELSE 0]]

NewOrder(r) == [id |-> orderId[r], session |-> session[r], items |-> items[r]]

\* The block ends: decrements (absolute values), order and order items land
\* together, and the row locks are released.
Commit(r) ==
    /\ pc[r] = "inserted"
    /\ stock' = [p \in Products |->
                    IF p \in Lines(items[r]) THEN draft[r][p] ELSE stock[p]]
    /\ orders' = orders \cup {NewOrder(r)}
    /\ sold' = [p \in Products |-> sold[p] + items[r][p]]
    /\ ReleaseLocks(r)
    /\ draft' = [draft EXCEPT ![r] = EmptyCart]
    /\ pc' = [pc EXCEPT ![r] = "committed"]
    /\ UNCHANGED <<row, cart, expiring, session, rawCart, want, items,
                   orderId, nextId, published, supplied>>

\* DEL cart:<session>, whatever the cart holds by now.
ClearCart(r) ==
    /\ pc[r] = "committed"
    /\ DeleteCart(session[r])
    /\ pc' = [pc EXCEPT ![r] = "cleared"]
    /\ UNCHANGED <<row, stock, lock, session, rawCart, want, items, draft,
                   orderId, nextId, orders, published, historyVars>>

\* The publish comes after the commit and the DEL.
MayPublish(r) == pc[r] = "cleared"

\* publish(ORDERS_QUEUE, {"event": "order.created", ...}).
Publish(r) ==
    /\ MayPublish(r)
    /\ published' = published \cup {orderId[r]}
    /\ pc' = [pc EXCEPT ![r] = "published"]
    /\ UNCHANGED <<shopVars, lock, session, rawCart, want, items, draft,
                   orderId, nextId, orders, historyVars>>

\* Mutant: the answer does not wait for the publish.
MayRespondEarly(r) == pc[r] \in {"cleared", "published"}

\* The answer comes after the publish.
MayRespond(r) == pc[r] = "published"

\* The order is read back and returned: 201.
Respond(r) ==
    /\ MayRespond(r)
    /\ pc' = [pc EXCEPT ![r] = "confirmed"]
    /\ UNCHANGED <<shopVars, lock, session, rawCart, want, items, draft,
                   orderId, nextId, orders, published, historyVars>>

\* PostgreSQL aborts one statement of a cycle of waiting transactions.
DeadlockVictim(r) ==
    /\ InDeadlock(r)
    /\ RollBack(r, "failed")

\* A store that cannot be reached, an unknown user_id, a lost connection or
\* the end of the process.  Before the commit it rolls everything back; after
\* it the order stands and the rest of the handler is skipped.
Abort(r) ==
    \/ /\ pc[r] \in {"idle"} \cup InTransaction
       /\ RollBack(r, "failed")
    \/ /\ pc[r] \in Committed \ {"confirmed"}
       /\ pc' = [pc EXCEPT ![r] = "failed"]
       /\ UNCHANGED <<shopVars, lock, session, rawCart, want, items, draft,
                      orderId, nextId, orders, published, historyVars>>

HandlerStep(r) ==
    \/ ReadCart(r) \/ NextLine(r) \/ Reserve(r) \/ Reject(r)
    \/ InsertOrder(r) \/ Commit(r) \/ ClearCart(r) \/ Publish(r) \/ Respond(r)

-----------------------------------------------------------------------------
\* Other writers of the products table.

\* POST /products: a fresh serial id with its first stock.
CreateProduct(p, n) ==
    /\ row[p] = "unborn"
    /\ row' = [row EXCEPT ![p] = "live"]
    /\ stock' = [stock EXCEPT ![p] = n]
    /\ supplied' = [supplied EXCEPT ![p] = n]
    /\ UNCHANGED <<cart, expiring, lock, handlerVars, nextId, orders,
                   published, sold>>

\* PUT /products/{id} with a stock: its UPDATE writes the level that was
\* sent, whatever the level is by then, and waits for the row lock.  (With
\* the level that the session loaded it sends no UPDATE: no step.)
SetStock(p, n) ==
    /\ row[p] = "live"
    /\ RowIsFree(p)
    /\ n # stock[p]
    /\ stock' = [stock EXCEPT ![p] = n]
    /\ supplied' = [supplied EXCEPT ![p] = @ + n - stock[p]]
    /\ UNCHANGED <<row, cart, expiring, lock, handlerVars, nextId, orders,
                   published, sold>>

\* A row deleted in the database: no endpoint does it, but the handlers
\* provide for it (cart.py:171, the 404 of orders.py:108).  Rows that
\* order_items reference are protected by the foreign key.
DeleteProduct(p) ==
    /\ row[p] = "live"
    /\ RowIsFree(p)
    /\ \A o \in orders : o.items[p] = 0
    /\ row' = [row EXCEPT ![p] = "deleted"]
    /\ stock' = [stock EXCEPT ![p] = 0]
    /\ supplied' = [supplied EXCEPT ![p] = 0]
    /\ UNCHANGED <<cart, expiring, lock, handlerVars, nextId, orders,
                   published, sold>>

AdminStep ==
    \E p \in Products :
        \/ \E n \in StockLevels : CreateProduct(p, n) \/ SetStock(p, n)
        \/ DeleteProduct(p)

CheckoutNext ==
    \/ \E r \in Requests : HandlerStep(r) \/ DeadlockVictim(r) \/ Abort(r)
    \/ AdminStep

CheckoutSpec == CheckoutInit /\ [][CheckoutNext]_vars

\* The event loop resumes a handler whose await is over, and PostgreSQL's
\* deadlock detector runs whenever a wait lasts (deadlock_timeout).  Nothing
\* is owed by customers, administrators or failures.
CheckoutFairness ==
    /\ \A r \in Requests : WF_vars(pc[r] # "idle" /\ HandlerStep(r))
    /\ WF_vars(\E r \in Requests : DeadlockVictim(r))

FairCheckoutSpec == CheckoutSpec /\ CheckoutFairness

-----------------------------------------------------------------------------
(* Properties                                                              *)

\* The books balance: for every product the units in stock and the units on
\* committed orders together are exactly the units put on sale, and the stock
\* never goes below zero.  Two concurrent checkouts of the last unit, or a
\* decrement computed from a stale read, would break it (orders.py:93-96).
BooksBalance ==
    \A p \in Products : stock[p] >= 0 /\ stock[p] + sold[p] = supplied[p]

\* What the history variable "sold" says is what the orders table says: it
\* counts the units of p on all orders, each unit with its number on its order.
UnitsOf(o, p) == {o} \X (1 .. o.items[p])
UnitsOrdered(some, p) == UNION {UnitsOf(o, p) : o \in some}

SoldIsOnOrders ==
    \A p \in Products : sold[p] = Cardinality(UnitsOrdered(orders, p))

\* Everything a transaction has decided is still true when it commits: it
\* holds every row it has read, the draft is the present stock minus the
\* ordered quantity, and it can be covered (orders.py:90-125).
Holds(r) == {p \in Products : lock[p] = r}
DraftsAreCurrent ==
    \A r \in Requests :
        /\ pc[r] \notin InTransaction => Holds(r) = {}
        /\ pc[r] \in InTransaction =>
            /\ Holds(r) = Lines(items[r])
            /\ \A p \in Holds(r) :
                /\ row[p] = "live"
                /\ items[r][p] = rawCart[r][p]
                /\ draft[r][p] = stock[p] - items[r][p]
                /\ draft[r][p] >= 0
        /\ pc[r] = "inserted" => items[r] = rawCart[r]

\* Serial ids are never shared, not even between an order in flight and a
\* committed one, although transactions commit in another order than they
\* drew their ids and rollbacks leave gaps (orders.py:143-146).
OrderIdsAreUnique ==
    /\ \A o1, o2 \in orders : o1.id = o2.id => o1 = o2
    /\ \A r \in Requests :
        pc[r] = "inserted" =>
            /\ \A o \in orders : o.id # orderId[r]
            /\ \A q \in Requests \ {r} : orderId[q] # orderId[r]

\* An order.created event only ever names an order that is committed, so the
\* worker never processes an order that does not exist (orders.py:58-62).
EventsFollowCommits == \A id \in published : \E o \in orders : o.id = id

\* A customer who got the 201 has an order with exactly the lines of the cart
\* that the handler read, and its event has been published.
ConfirmedMeansOrdered ==
    \A r \in Requests :
        pc[r] = "confirmed" =>
            /\ [id |-> orderId[r], session |-> session[r],
                items |-> rawCart[r]] \in orders
            /\ orderId[r] \in published

\* Between the SELECT FOR UPDATE of a row and the end of that transaction
\* nobody else changes the row (orders.py:90-92).
LockedRowsAreStable ==
    [][\A p \in Products :
          lock[p] # NoRequest /\ lock'[p] = lock[p]
            => stock'[p] = stock[p] /\ row'[p] = row[p]]_vars

\* Every checkout that has begun comes to an end: waits for row locks are
\* finite and deadlocks between carts with common products are resolved.
EveryCheckoutEnds ==
    \A r \in Requests : (pc[r] # "idle") ~> (pc[r] \in Ended)

\* Seen from the products and orders tables, checkouts are indivisible
\* purchases from the stock of that moment.
Inventory == INSTANCE Inventory
ImplementsInventory == Inventory!Spec
=============================================================================
