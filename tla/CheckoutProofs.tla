--------------------------- MODULE CheckoutProofs ---------------------------
(***************************************************************************)
(* Theorems about Checkout.tla, for every set of products, sessions,       *)
(* requests, cart quantities and stock levels.                             *)
(***************************************************************************)
EXTENDS Checkout, FiniteSetTheorems, TLAPS

-----------------------------------------------------------------------------
(* Type correctness                                                        *)

\* Whoever is in or past the transaction has named a session.
SessionsAreKnown ==
    \A r \in Requests :
        pc[r] \in InTransaction \cup Committed => session[r] \in Sessions

Typed == CheckoutTypeOK /\ SessionsAreKnown

LEMMA EmptyCartType == EmptyCart \in [Products -> Nat]
BY DEF EmptyCart

LEMMA TypedInit == CheckoutInit => Typed
<1>. SUFFICES ASSUME CheckoutInit PROVE Typed
  OBVIOUS
<1>. USE CheckoutAssumption, EmptyCartType DEF CheckoutAssumption
<1>1. ShopTypeOK
  <2>1. row \in [Products -> RowStates]
    BY DEF CheckoutInit, ShopInit, RowStates
  <2>2. stock \in [Products -> Int]
    <3>1. stock \in [Products -> StockLevels \cup {0}]
      BY DEF CheckoutInit, ShopInit
    <3>2. StockLevels \cup {0} \subseteq Int
      OBVIOUS
    <3>. QED  BY <3>1, <3>2
  <2>3. cart \in [Sessions -> [Products -> Nat]]
    <3>1. cart \in [Sessions -> [Products -> Quantities \cup {0}]]
      BY DEF CheckoutInit, ShopInit
    <3>2. Quantities \cup {0} \subseteq Nat
      OBVIOUS
    <3>3. [Products -> Quantities \cup {0}] \subseteq [Products -> Nat]
      BY <3>2
    <3>. HIDE DEF CheckoutAssumption
    <3>. QED  BY <3>1, <3>3
  <2>4. expiring \in SUBSET Sessions
    BY DEF CheckoutInit, ShopInit
  <2>. QED  BY <2>1, <2>2, <2>3, <2>4 DEF ShopTypeOK
<1>2. CheckoutTypeOK
  BY <1>1 DEF CheckoutInit, ShopInit, CheckoutTypeOK, States, ShopTypeOK,
              EmptyCart
<1>3. SessionsAreKnown
  BY DEF CheckoutInit, ShopInit, SessionsAreKnown, InTransaction, Committed
<1>. QED  BY <1>2, <1>3 DEF Typed

\* A rollback restores well-typed locals.
LEMMA RollBackTyped ==
    ASSUME Typed, NEW r \in Requests, NEW outcome \in {"rejected", "failed"},
           RollBack(r, outcome)
    PROVE  Typed'
BY EmptyCartType
   DEF Typed, CheckoutTypeOK, ShopTypeOK, SessionsAreKnown, RollBack,
       ReleaseLocks, shopVars, historyVars, States, InTransaction, Committed,
       Ended

\* No step of any actor leaves the type of the state.
LEMMA TypedStep == Typed /\ [CheckoutNext]_vars => Typed'
<1>. SUFFICES ASSUME Typed, [CheckoutNext]_vars PROVE Typed'
  OBVIOUS
<1>. USE CheckoutAssumption, EmptyCartType DEF CheckoutAssumption
<1>. USE DEF Typed, CheckoutTypeOK, ShopTypeOK, SessionsAreKnown, shopVars,
         historyVars, handlerVars, States, InTransaction, Committed, Ended
<1>1. ASSUME NEW r \in Requests, ReadCart(r) PROVE Typed'
  BY <1>1 DEF ReadCart, Contents, Lines
<1>2. ASSUME NEW r \in Requests, NextLine(r) PROVE Typed'
  BY <1>2 DEF NextLine, Lines
<1>3. ASSUME NEW r \in Requests, Reserve(r) PROVE Typed'
  BY <1>3 DEF Reserve
<1>4. ASSUME NEW r \in Requests, Reject(r) PROVE Typed'
  BY <1>4, RollBackTyped DEF Reject
<1>5. ASSUME NEW r \in Requests, InsertOrder(r) PROVE Typed'
  BY <1>5 DEF InsertOrder, FreshId
<1>6. ASSUME NEW r \in Requests, Commit(r) PROVE Typed'
  BY <1>6 DEF Commit, ReleaseLocks, NewOrder, Lines
<1>7. ASSUME NEW r \in Requests, ClearCart(r) PROVE Typed'
  BY <1>7 DEF ClearCart, DeleteCart
<1>8. ASSUME NEW r \in Requests, Publish(r) PROVE Typed'
  BY <1>8 DEF Publish, MayPublish
<1>9. ASSUME NEW r \in Requests, Respond(r) PROVE Typed'
  BY <1>9 DEF Respond, MayRespond
<1>10. ASSUME NEW r \in Requests, DeadlockVictim(r) PROVE Typed'
  BY <1>10, RollBackTyped DEF DeadlockVictim
<1>11. ASSUME NEW r \in Requests, Abort(r) PROVE Typed'
  BY <1>11, RollBackTyped DEF Abort
<1>12. ASSUME NEW p \in Products, NEW n \in StockLevels, CreateProduct(p, n)
       PROVE  Typed'
  BY <1>12 DEF CreateProduct, RowStates
<1>13. ASSUME NEW p \in Products, NEW n \in StockLevels, SetStock(p, n)
       PROVE  Typed'
  BY <1>13 DEF SetStock
<1>14. ASSUME NEW p \in Products, DeleteProduct(p) PROVE Typed'
  BY <1>14 DEF DeleteProduct, RowStates
<1>15. CASE UNCHANGED vars
  BY <1>15 DEF vars, checkoutVars
<1>. QED
  BY <1>1, <1>2, <1>3, <1>4, <1>5, <1>6, <1>7, <1>8, <1>9, <1>10, <1>11,
     <1>12, <1>13, <1>14, <1>15
     DEF CheckoutNext, HandlerStep, AdminStep

\* In every reachable state of the checkout system, every variable of the
\* handlers (orders.py:64-186) and of the stores has its type.
THEOREM CheckoutTypeCorrect == CheckoutSpec => []CheckoutTypeOK
<1>1. Typed => CheckoutTypeOK
  BY DEF Typed
<1>. QED
  BY <1>1, TypedInit, TypedStep, PTL DEF CheckoutSpec

-----------------------------------------------------------------------------
(* The inductive invariant                                                 *)

\* A product is withdrawn only if no order names it; its sales are then zero.
SalesAreOnOrders ==
    \A p \in Products :
        sold[p] # 0 => \E o \in orders : o.items[p] # 0

\* A row that does not exist yet has nothing to sell.
UnbornRowsAreEmpty ==
    \A p \in Products : row[p] = "unborn" => stock[p] = 0 /\ supplied[p] = 0

\* The loop starts from nothing, never on an empty cart (the 400), and only
\* ever waits for the row of a line of the cart, in the loop and nowhere else.
LoopFollowsCart ==
    \A r \in Requests :
        /\ pc[r] = "idle" => items[r] = EmptyCart
        /\ pc[r] # "reserving" => want[r] = NoProduct
        /\ pc[r] \in InTransaction => Lines(rawCart[r]) # {}
        /\ pc[r] = "reserving" =>
              want[r] \in Lines(rawCart[r]) \cup {NoProduct}

\* Ids in use are below the sequence and belong to one request.
IdsAreAllocated ==
    /\ nextId > 0
    /\ \A o \in orders : o.id < nextId
    /\ \A r \in Requests :
        /\ orderId[r] < nextId
        /\ pc[r] = "inserted" => orderId[r] # 0
        /\ \A q \in Requests \ {r} :
              orderId[r] # 0 => orderId[q] # orderId[r]

\* From the commit on the order of a handler is in the table, and its id is
\* published before the handler answers.
CommittedMeansOrdered ==
    \A r \in Requests :
        /\ pc[r] \in Committed =>
            [id |-> orderId[r], session |-> session[r],
             items |-> rawCart[r]] \in orders
        /\ pc[r] \in {"published", "confirmed"} => orderId[r] \in published

Books == BooksBalance /\ SalesAreOnOrders /\ UnbornRowsAreEmpty

Ids == OrderIdsAreUnique /\ IdsAreAllocated

Events == EventsFollowCommits /\ CommittedMeansOrdered

CheckoutInvariant ==
    Typed /\ DraftsAreCurrent /\ LoopFollowsCart /\ Books /\ Ids /\ Events

\* Before the first request nothing is reserved, ordered or published.
LEMMA InvariantInit == CheckoutInit => CheckoutInvariant
<1>. SUFFICES ASSUME CheckoutInit PROVE CheckoutInvariant
  OBVIOUS
<1>. USE CheckoutAssumption DEF CheckoutAssumption
<1>1. Typed
  BY TypedInit
<1>2. DraftsAreCurrent /\ LoopFollowsCart
  BY DEF CheckoutInit, ShopInit, DraftsAreCurrent, LoopFollowsCart,
         InTransaction, Holds
<1>3. \A p \in Products : stock[p] \in Nat
  <2>1. stock \in [Products -> StockLevels \cup {0}]
    BY DEF CheckoutInit, ShopInit
  <2>2. StockLevels \cup {0} \subseteq Nat
    OBVIOUS
  <2>. QED  BY <2>1, <2>2
<1>4. Books
  BY <1>3 DEF CheckoutInit, ShopInit, Books, BooksBalance, SalesAreOnOrders,
              UnbornRowsAreEmpty
<1>5. Ids
  BY DEF CheckoutInit, ShopInit, Ids, OrderIdsAreUnique, IdsAreAllocated
<1>6. Events
  BY DEF CheckoutInit, ShopInit, Events, EventsFollowCommits,
         CommittedMeansOrdered, Committed
<1>. QED  BY <1>1, <1>2, <1>4, <1>5, <1>6 DEF CheckoutInvariant

\* Transactions: what they hold and have drafted stays true (orders.py:86-134).
LEMMA DraftsStep ==
    CheckoutInvariant /\ Typed' /\ [CheckoutNext]_vars
        => DraftsAreCurrent' /\ LoopFollowsCart'
<1>. SUFFICES ASSUME CheckoutInvariant, Typed', [CheckoutNext]_vars
              PROVE  DraftsAreCurrent' /\ LoopFollowsCart'
  OBVIOUS
<1>. USE CheckoutAssumption, EmptyCartType
<1>. USE DEF CheckoutAssumption, CheckoutInvariant, Typed, CheckoutTypeOK,
         ShopTypeOK, shopVars, historyVars, handlerVars, DraftsAreCurrent,
         LoopFollowsCart, Holds, Lines, InTransaction, Committed, Ended
<1>0. ASSUME NEW r \in Requests, NEW outcome \in {"rejected", "failed"},
             RollBack(r, outcome)
      PROVE  DraftsAreCurrent' /\ LoopFollowsCart'
  BY <1>0 DEF RollBack, ReleaseLocks, EmptyCart
<1>1. ASSUME NEW r \in Requests, ReadCart(r)
      PROVE  DraftsAreCurrent' /\ LoopFollowsCart'
  BY <1>1 DEF ReadCart, Contents, EmptyCart
<1>2. ASSUME NEW r \in Requests, NextLine(r)
      PROVE  DraftsAreCurrent' /\ LoopFollowsCart'
  BY <1>2 DEF NextLine
<1>3. ASSUME NEW r \in Requests, Reserve(r)
      PROVE  DraftsAreCurrent' /\ LoopFollowsCart'
  BY <1>3 DEF Reserve, RowIsFree, InStock
<1>4. ASSUME NEW r \in Requests, Reject(r)
      PROVE  DraftsAreCurrent' /\ LoopFollowsCart'
  BY <1>4, <1>0 DEF Reject
<1>5. ASSUME NEW r \in Requests, InsertOrder(r)
      PROVE  DraftsAreCurrent' /\ LoopFollowsCart'
  BY <1>5 DEF InsertOrder, FreshId
<1>6. ASSUME NEW r \in Requests, Commit(r)
      PROVE  DraftsAreCurrent' /\ LoopFollowsCart'
  BY <1>6 DEF Commit, ReleaseLocks
<1>7. ASSUME NEW r \in Requests, ClearCart(r)
      PROVE  DraftsAreCurrent' /\ LoopFollowsCart'
  BY <1>7 DEF ClearCart
<1>8. ASSUME NEW r \in Requests, Publish(r)
      PROVE  DraftsAreCurrent' /\ LoopFollowsCart'
  BY <1>8 DEF Publish, MayPublish
<1>9. ASSUME NEW r \in Requests, Respond(r)
      PROVE  DraftsAreCurrent' /\ LoopFollowsCart'
  BY <1>9 DEF Respond, MayRespond
<1>10. ASSUME NEW r \in Requests, DeadlockVictim(r)
       PROVE  DraftsAreCurrent' /\ LoopFollowsCart'
  BY <1>10, <1>0 DEF DeadlockVictim
<1>11. ASSUME NEW r \in Requests, Abort(r)
       PROVE  DraftsAreCurrent' /\ LoopFollowsCart'
  <2>1. CASE RollBack(r, "failed")
    BY <2>1, <1>0
  <2>2. CASE pc[r] \in Committed \ {"confirmed"} /\ ~RollBack(r, "failed")
    BY <1>11, <2>2 DEF Abort
  <2>. QED  BY <1>11, <2>1, <2>2 DEF Abort
<1>12. ASSUME NEW p \in Products, NEW n \in StockLevels, CreateProduct(p, n)
       PROVE  DraftsAreCurrent' /\ LoopFollowsCart'
  BY <1>12 DEF CreateProduct
<1>13. ASSUME NEW p \in Products, NEW n \in StockLevels, SetStock(p, n)
       PROVE  DraftsAreCurrent' /\ LoopFollowsCart'
  BY <1>13 DEF SetStock, RowIsFree
<1>14. ASSUME NEW p \in Products, DeleteProduct(p)
       PROVE  DraftsAreCurrent' /\ LoopFollowsCart'
  BY <1>14 DEF DeleteProduct, RowIsFree
<1>15. CASE UNCHANGED vars
  BY <1>15 DEF vars, checkoutVars
<1>. QED
  BY <1>1, <1>2, <1>3, <1>4, <1>5, <1>6, <1>7, <1>8, <1>9, <1>10, <1>11,
     <1>12, <1>13, <1>14, <1>15
     DEF CheckoutNext, HandlerStep, AdminStep

\* Before its commit and after it a handler leaves the tables as they are.
tables == <<row, stock, supplied, sold, orders>>

LEMMA TablesChangeByCommit ==
    ASSUME NEW r \in Requests,
           HandlerStep(r) \/ DeadlockVictim(r) \/ Abort(r), ~Commit(r)
    PROVE  UNCHANGED tables
BY DEF HandlerStep, ReadCart, Contents, NextLine, Reserve, Reject,
       InsertOrder, FreshId, ClearCart, Publish, MayPublish, Respond,
       MayRespond, DeadlockVictim, Abort, RollBack, DeleteCart, tables,
       shopVars, historyVars

\* The books: units move from the stock to orders, never into thin air.
LEMMA BooksStep ==
    CheckoutInvariant /\ Typed' /\ [CheckoutNext]_vars => Books'
<1>. SUFFICES ASSUME CheckoutInvariant, Typed', [CheckoutNext]_vars
              PROVE  Books'
  OBVIOUS
<1>. USE CheckoutAssumption DEF CheckoutAssumption, CheckoutInvariant, Typed,
         CheckoutTypeOK, ShopTypeOK, Books
<1>1. ASSUME NEW r \in Requests, Commit(r) PROVE Books'
  <2>. DEFINE o == NewOrder(r)
  <2>1. /\ items[r] \in [Products -> Nat]
        /\ o.items = items[r]
        /\ orders' = orders \cup {o}
    BY <1>1 DEF Commit, NewOrder
  <2>2. \A p \in Products :
           /\ sold'[p] = sold[p] + items[r][p]
           /\ stock'[p] = stock[p] - items[r][p]
           /\ stock'[p] >= 0
    BY <1>1, <2>1
       DEF Commit, DraftsAreCurrent, InTransaction, Holds, Lines, BooksBalance
  <2>3. row' = row /\ supplied' = supplied
    BY <1>1 DEF Commit
  <2>4. BooksBalance'
    BY <2>1, <2>2, <2>3 DEF BooksBalance
  <2>5. SalesAreOnOrders'
    <3>1. SUFFICES ASSUME NEW p \in Products, sold'[p] # 0
                   PROVE  \E q \in orders' : q.items[p] # 0
      BY DEF SalesAreOnOrders
    <3>2. CASE items[r][p] # 0
      BY <2>1, <3>2
    <3>3. CASE items[r][p] = 0
      BY <2>1, <2>2, <3>1, <3>3 DEF SalesAreOnOrders
    <3>. QED  BY <3>2, <3>3
  <2>6. UnbornRowsAreEmpty'
    <3>1. \A p \in Products : row[p] = "unborn" => items[r][p] = 0
      <4>1. \A p \in Lines(items[r]) : row[p] = "live"
        BY <1>1 DEF Commit, DraftsAreCurrent, InTransaction
      <4>2. \A p \in Products : items[r][p] # 0 => p \in Lines(items[r])
        BY <2>1 DEF Lines
      <4>. HIDE DEF CheckoutInvariant
      <4>. QED  BY <4>1, <4>2
    <3>. QED  BY <2>1, <2>2, <2>3, <3>1 DEF UnbornRowsAreEmpty
  <2>. QED  BY <2>4, <2>5, <2>6
<1>2. ASSUME NEW p \in Products, NEW n \in StockLevels, CreateProduct(p, n)
      PROVE  Books'
  BY <1>2 DEF CreateProduct, BooksBalance, SalesAreOnOrders,
              UnbornRowsAreEmpty
<1>3. ASSUME NEW p \in Products, NEW n \in StockLevels, SetStock(p, n)
      PROVE  Books'
  BY <1>3 DEF SetStock, BooksBalance, SalesAreOnOrders, UnbornRowsAreEmpty
<1>4. ASSUME NEW p \in Products, DeleteProduct(p) PROVE Books'
  BY <1>4 DEF DeleteProduct, BooksBalance, SalesAreOnOrders,
              UnbornRowsAreEmpty
<1>5. CASE UNCHANGED tables
  BY <1>5 DEF tables, BooksBalance, SalesAreOnOrders, UnbornRowsAreEmpty
<1>6. CASE UNCHANGED vars
  BY <1>6, <1>5 DEF vars, checkoutVars, shopVars, historyVars, tables
<1>. HIDE DEF CheckoutInvariant, Books
<1>. QED
  BY <1>1, <1>2, <1>3, <1>4, <1>5, <1>6, TablesChangeByCommit
     DEF CheckoutNext, AdminStep

\* Serial ids stay unique through commits in any order and through rollbacks.
LEMMA IdsStep ==
    CheckoutInvariant /\ Typed' /\ [CheckoutNext]_vars => Ids'
<1>. SUFFICES ASSUME CheckoutInvariant, Typed', [CheckoutNext]_vars
              PROVE  Ids'
  OBVIOUS
<1>. USE CheckoutAssumption DEF CheckoutAssumption, CheckoutInvariant, Typed,
         CheckoutTypeOK, ShopTypeOK, Ids, OrderIdsAreUnique, IdsAreAllocated,
         shopVars, historyVars, handlerVars
<1>0. ASSUME NEW r \in Requests, NEW outcome \in {"rejected", "failed"},
             RollBack(r, outcome)
      PROVE  Ids'
  BY <1>0 DEF RollBack
<1>1. ASSUME NEW r \in Requests, InsertOrder(r) PROVE Ids'
  BY <1>1 DEF InsertOrder, FreshId
<1>2. ASSUME NEW r \in Requests, Commit(r) PROVE Ids'
  BY <1>2 DEF Commit, NewOrder
<1>3. ASSUME NEW r \in Requests,
             \/ ReadCart(r) \/ NextLine(r) \/ Reserve(r)
             \/ ClearCart(r) \/ Publish(r) \/ Respond(r)
      PROVE  Ids'
  BY <1>3 DEF ReadCart, Contents, NextLine, Reserve, ClearCart, Publish,
              MayPublish, Respond, MayRespond
<1>4. ASSUME NEW r \in Requests, Reject(r) \/ DeadlockVictim(r)
      PROVE  Ids'
  BY <1>4, <1>0 DEF Reject, DeadlockVictim
<1>5. ASSUME NEW r \in Requests, Abort(r) PROVE Ids'
  <2>1. CASE RollBack(r, "failed")
    BY <2>1, <1>0
  <2>2. CASE pc[r] \in Committed \ {"confirmed"} /\ ~RollBack(r, "failed")
    BY <1>5, <2>2 DEF Abort
  <2>. QED  BY <1>5, <2>1, <2>2 DEF Abort
<1>6. CASE AdminStep
  BY <1>6 DEF AdminStep, CreateProduct, SetStock, DeleteProduct
<1>7. CASE UNCHANGED vars
  BY <1>7 DEF vars, checkoutVars
<1>. HIDE DEF CheckoutInvariant, Ids
<1>. QED
  BY <1>1, <1>2, <1>3, <1>4, <1>5, <1>6, <1>7
     DEF CheckoutNext, HandlerStep

\* Events name committed orders, and answers name published ones.
LEMMA EventsStep ==
    CheckoutInvariant /\ Typed' /\ [CheckoutNext]_vars => Events'
<1>. SUFFICES ASSUME CheckoutInvariant, Typed', [CheckoutNext]_vars
              PROVE  Events'
  OBVIOUS
<1>. USE DEF CheckoutInvariant, Typed, CheckoutTypeOK, ShopTypeOK, Events,
         EventsFollowCommits, CommittedMeansOrdered, shopVars, historyVars,
         handlerVars, Committed
<1>0. ASSUME NEW r \in Requests, NEW outcome \in {"rejected", "failed"},
             RollBack(r, outcome)
      PROVE  Events'
  BY <1>0 DEF RollBack
<1>1. ASSUME NEW r \in Requests, Commit(r) PROVE Events'
  BY <1>1 DEF Commit, NewOrder, DraftsAreCurrent
<1>2. ASSUME NEW r \in Requests, Publish(r) PROVE Events'
  BY <1>2 DEF Publish, MayPublish
<1>3. ASSUME NEW r \in Requests,
             \/ ReadCart(r) \/ NextLine(r) \/ Reserve(r) \/ InsertOrder(r)
             \/ ClearCart(r) \/ Respond(r)
      PROVE  Events'
  <2>1. CASE ReadCart(r)
    BY <2>1 DEF ReadCart, Contents
  <2>2. CASE NextLine(r) \/ Reserve(r)
    BY <2>2 DEF NextLine, Reserve
  <2>3. CASE InsertOrder(r)
    BY <2>3 DEF InsertOrder, FreshId
  <2>4. CASE ClearCart(r) \/ Respond(r)
    BY <2>4 DEF ClearCart, Respond, MayRespond
  <2>. QED  BY <1>3, <2>1, <2>2, <2>3, <2>4
<1>4. ASSUME NEW r \in Requests, Reject(r) \/ DeadlockVictim(r)
      PROVE  Events'
  BY <1>4, <1>0 DEF Reject, DeadlockVictim
<1>5. ASSUME NEW r \in Requests, Abort(r) PROVE Events'
  <2>1. CASE RollBack(r, "failed")
    BY <2>1, <1>0
  <2>2. CASE pc[r] \in Committed \ {"confirmed"} /\ ~RollBack(r, "failed")
    BY <1>5, <2>2 DEF Abort
  <2>. QED  BY <1>5, <2>1, <2>2 DEF Abort
<1>6. CASE AdminStep
  BY <1>6 DEF AdminStep, CreateProduct, SetStock, DeleteProduct
<1>7. CASE UNCHANGED vars
  BY <1>7 DEF vars, checkoutVars
<1>. HIDE DEF CheckoutInvariant, Events
<1>. QED
  BY <1>1, <1>2, <1>3, <1>4, <1>5, <1>6, <1>7
     DEF CheckoutNext, HandlerStep

-----------------------------------------------------------------------------
(* The units on the orders                                                 *)

\* An order has as many units of a product as it says.
LEMMA UnitsAreCounted ==
    ASSUME NEW o, NEW p, o.items[p] \in Nat
    PROVE  /\ IsFiniteSet(UnitsOf(o, p))
           /\ Cardinality(UnitsOf(o, p)) = o.items[p]
<1>. DEFINE n == o.items[p]
            f == [i \in 1 .. n |-> <<o, i>>]
<1>1. f \in Bijection(1 .. n, UnitsOf(o, p))
  BY DEF UnitsOf, Bijection, Injection, Surjection, IsInjective
<1>2. ExistsBijection(1 .. n, UnitsOf(o, p))
  BY <1>1 DEF ExistsBijection
<1>. HIDE DEF f
<1>3. n \in Nat
  OBVIOUS
<1>. HIDE DEF n
<1>4. IsFiniteSet(1 .. n) /\ Cardinality(1 .. n) = n
  <2>1. /\ IsFiniteSet(1 .. n)
        /\ Cardinality(1 .. n) = IF 1 > n THEN 0 ELSE n - 1 + 1
    BY <1>3, FS_Interval
  <2>. QED  BY <1>3, <2>1
<1>5. /\ IsFiniteSet(UnitsOf(o, p))
      /\ Cardinality(UnitsOf(o, p)) = Cardinality(1 .. n)
  BY <1>2, <1>4, FS_Bijection
<1>. QED  BY <1>4, <1>5 DEF n

\* A new order adds its units to those of the others.
LEMMA UnitsAdd ==
    ASSUME NEW some, NEW o, NEW p, o \notin some, o.items[p] \in Nat,
           IsFiniteSet(UnitsOrdered(some, p))
    PROVE  /\ IsFiniteSet(UnitsOrdered(some \cup {o}, p))
           /\ Cardinality(UnitsOrdered(some, p)) \in Nat
           /\ Cardinality(UnitsOrdered(some \cup {o}, p))
                = Cardinality(UnitsOrdered(some, p)) + o.items[p]
<1>1. UnitsOrdered(some \cup {o}, p)
         = UnitsOrdered(some, p) \cup UnitsOf(o, p)
  BY DEF UnitsOrdered
<1>2. UnitsOrdered(some, p) \cap UnitsOf(o, p) = {}
  BY DEF UnitsOrdered, UnitsOf
<1>3. IsFiniteSet(UnitsOf(o, p)) /\ Cardinality(UnitsOf(o, p)) = o.items[p]
  BY UnitsAreCounted
<1>4. Cardinality(UnitsOrdered(some, p)) \in Nat
  BY FS_CardinalityType
<1>5. Cardinality(UnitsOrdered(some, p) \cap UnitsOf(o, p)) = 0
  BY <1>2, FS_EmptySet
<1>6. /\ IsFiniteSet(UnitsOrdered(some, p) \cup UnitsOf(o, p))
      /\ Cardinality(UnitsOrdered(some, p) \cup UnitsOf(o, p))
           = Cardinality(UnitsOrdered(some, p)) + Cardinality(UnitsOf(o, p))
                - Cardinality(UnitsOrdered(some, p) \cap UnitsOf(o, p))
  BY <1>3, FS_Union
<1>7. Cardinality(UnitsOrdered(some, p) \cup UnitsOf(o, p))
         = Cardinality(UnitsOrdered(some, p)) + o.items[p]
  BY <1>3, <1>4, <1>5, <1>6
<1>. QED  BY <1>1, <1>4, <1>6, <1>7

Sales ==
    \A p \in Products :
        /\ IsFiniteSet(UnitsOrdered(orders, p))
        /\ sold[p] = Cardinality(UnitsOrdered(orders, p))

LEMMA SalesInit == CheckoutInit => Sales
<1>. SUFFICES ASSUME CheckoutInit, NEW p \in Products
              PROVE  /\ IsFiniteSet(UnitsOrdered(orders, p))
                     /\ sold[p] = Cardinality(UnitsOrdered(orders, p))
  BY DEF Sales
<1>1. UnitsOrdered(orders, p) = {} /\ sold[p] = 0
  BY DEF CheckoutInit, UnitsOrdered
<1>. QED  BY <1>1, FS_EmptySet

\* An order is counted when it is committed, and its fresh id makes sure that
\* it is another one than those before.
LEMMA SalesStep ==
    CheckoutInvariant /\ Sales /\ [CheckoutNext]_vars => Sales'
<1>. SUFFICES ASSUME CheckoutInvariant, Sales, [CheckoutNext]_vars
              PROVE  Sales'
  OBVIOUS
<1>1. CASE UNCHANGED <<sold, orders>>
  BY <1>1 DEF Sales
<1>2. ASSUME NEW r \in Requests, Commit(r) PROVE Sales'
  <2>0. NewOrder(r).items = items[r] /\ NewOrder(r).id = orderId[r]
    BY DEF NewOrder
  <2>1. PICK o : /\ o = NewOrder(r)
                 /\ o.items = items[r] /\ o.id = orderId[r]
    BY <2>0
  <2>2. items[r] \in [Products -> Nat] /\ sold \in [Products -> Nat]
    BY DEF CheckoutInvariant, Typed, CheckoutTypeOK
  <2>3. o \notin orders
    BY <1>2, <2>1 DEF Commit, CheckoutInvariant, Ids, OrderIdsAreUnique
  <2>4. /\ orders' = orders \cup {o}
        /\ \A p \in Products : sold'[p] = sold[p] + items[r][p]
    BY <1>2, <2>1 DEF Commit
  <2>5. ASSUME NEW p \in Products
        PROVE  /\ IsFiniteSet(UnitsOrdered(orders', p))
               /\ sold'[p] = Cardinality(UnitsOrdered(orders', p))
    <3>1. /\ IsFiniteSet(UnitsOrdered(orders, p))
          /\ sold[p] = Cardinality(UnitsOrdered(orders, p))
      BY DEF Sales
    <3>2. o.items[p] \in Nat /\ sold'[p] = sold[p] + o.items[p]
      BY <2>1, <2>2, <2>4
    <3>3. /\ IsFiniteSet(UnitsOrdered(orders \cup {o}, p))
          /\ Cardinality(UnitsOrdered(orders \cup {o}, p))
               = Cardinality(UnitsOrdered(orders, p)) + o.items[p]
      BY <2>3, <3>1, <3>2, UnitsAdd
    <3>. QED  BY <2>4, <3>1, <3>2, <3>3
  <2>6. ASSUME NEW p \in Products
        PROVE  UnitsOrdered(orders, p)' = UnitsOrdered(orders', p)
    BY DEF UnitsOrdered, UnitsOf
  <2>. QED  BY <2>5, <2>6 DEF Sales
<1>3. CASE AdminStep
  BY <1>1, <1>3 DEF AdminStep, CreateProduct, SetStock, DeleteProduct
<1>4. CASE UNCHANGED vars
  BY <1>1, <1>4 DEF vars, checkoutVars, historyVars
<1>. QED
  BY <1>1, <1>2, <1>3, <1>4, TablesChangeByCommit
     DEF CheckoutNext, AdminStep, tables

-----------------------------------------------------------------------------
(* The invariant                                                           *)

LEMMA InvariantStep ==
    CheckoutInvariant /\ [CheckoutNext]_vars => CheckoutInvariant'
BY TypedStep, DraftsStep, BooksStep, IdsStep, EventsStep
   DEF CheckoutInvariant

THEOREM CheckoutInvariance == CheckoutSpec => []CheckoutInvariant
BY InvariantInit, InvariantStep, PTL DEF CheckoutSpec

-----------------------------------------------------------------------------
(* Safety                                                                  *)

\* However many checkouts run at once, stock plus sales is what was put on
\* sale and no stock level is negative: no unit is sold twice
\* (orders.py:90-125).
THEOREM NoOversell == CheckoutSpec => []BooksBalance
<1>1. CheckoutInvariant => BooksBalance
  BY DEF CheckoutInvariant, Books
<1>. QED  BY <1>1, CheckoutInvariance, PTL

\* The units that the books count as sold are those on the committed orders:
\* order, order items and decrements land together (orders.py:125-158).
THEOREM SalesStayOnOrders == CheckoutSpec => []SoldIsOnOrders
<1>1. Sales => SoldIsOnOrders
  BY DEF Sales, SoldIsOnOrders
<1>2. CheckoutSpec => []Sales
  BY SalesInit, SalesStep, CheckoutInvariance, PTL DEF CheckoutSpec
<1>. QED  BY <1>1, <1>2, PTL

\* A transaction commits what it decided from the rows as they still are.
THEOREM DraftsStayCurrent == CheckoutSpec => []DraftsAreCurrent
<1>1. CheckoutInvariant => DraftsAreCurrent
  BY DEF CheckoutInvariant
<1>. QED  BY <1>1, CheckoutInvariance, PTL

\* order.id is unique, whatever the order of commits and rollbacks.
THEOREM OrderIdsStayUnique == CheckoutSpec => []OrderIdsAreUnique
<1>1. CheckoutInvariant => OrderIdsAreUnique
  BY DEF CheckoutInvariant, Ids
<1>. QED  BY <1>1, CheckoutInvariance, PTL

\* The worker never hears of an order that is not committed
\* (orders.py:58-62).
THEOREM EventsNeverPrecedeCommits == CheckoutSpec => []EventsFollowCommits
<1>1. CheckoutInvariant => EventsFollowCommits
  BY DEF CheckoutInvariant, Events
<1>. QED  BY <1>1, CheckoutInvariance, PTL

\* A 201 answer stands for a committed order of exactly the cart that was
\* read, with its event published.
THEOREM ConfirmedOrdersExist == CheckoutSpec => []ConfirmedMeansOrdered
<1>1. CheckoutInvariant => ConfirmedMeansOrdered
  BY DEF CheckoutInvariant, Events, CommittedMeansOrdered,
         ConfirmedMeansOrdered, Committed
<1>. QED  BY <1>1, CheckoutInvariance, PTL

-----------------------------------------------------------------------------
(* Action properties                                                       *)

\* While a transaction holds a row nobody changes it (orders.py:90-92).
THEOREM RowLocksProtect == CheckoutSpec => LockedRowsAreStable
<1>1. CheckoutInvariant /\ CheckoutInvariant' /\ [CheckoutNext]_vars
        => [\A p \in Products :
              lock[p] # NoRequest /\ lock'[p] = lock[p]
                => stock'[p] = stock[p] /\ row'[p] = row[p]]_vars
  <2>. SUFFICES ASSUME CheckoutInvariant, [CheckoutNext]_vars,
                       NEW p \in Products, lock[p] # NoRequest,
                       lock'[p] = lock[p]
                PROVE  stock'[p] = stock[p] /\ row'[p] = row[p]
    OBVIOUS
  <2>. USE DEF CheckoutInvariant, Typed, CheckoutTypeOK, ShopTypeOK
  <2>1. ASSUME NEW r \in Requests, Commit(r)
        PROVE  stock'[p] = stock[p] /\ row'[p] = row[p]
    <3>1. lock[p] # r
      BY <2>1, CheckoutAssumption
         DEF Commit, ReleaseLocks, RowIsFree, CheckoutAssumption
    <3>2. p \notin Lines(items[r])
      BY <2>1, <3>1 DEF Commit, DraftsAreCurrent, InTransaction, Holds
    <3>. QED  BY <2>1, <3>2 DEF Commit
  <2>2. CASE AdminStep
    <3>1. lock[p] \in Requests
      BY DEF RowIsFree
    <3>2. p \in Holds(lock[p])
      BY DEF Holds
    <3>3. row[p] = "live"
      BY <3>1, <3>2 DEF DraftsAreCurrent
    <3>4. stock \in [Products -> Int] /\ row \in [Products -> RowStates]
      OBVIOUS
    <3>. HIDE DEF CheckoutInvariant
    <3>. QED
      BY <2>2, <3>3, <3>4
         DEF AdminStep, CreateProduct, SetStock, DeleteProduct, RowIsFree
  <2>3. CASE UNCHANGED tables
    BY <2>3 DEF tables
  <2>4. CASE UNCHANGED vars
    BY <2>4 DEF vars, shopVars
  <2>. HIDE DEF CheckoutInvariant
  <2>. QED
    BY <2>1, <2>2, <2>3, <2>4, TablesChangeByCommit DEF CheckoutNext
<1>. QED  BY <1>1, CheckoutInvariance, PTL
   DEF CheckoutSpec, LockedRowsAreStable

-----------------------------------------------------------------------------
(* Refinement                                                              *)

LEMMA InitRefines == CheckoutInit => Inventory!Init
<1>. SUFFICES ASSUME CheckoutInit PROVE Inventory!Init
  OBVIOUS
<1>1. stock \in [Products -> Nat]
  <2>1. stock \in [Products -> StockLevels \cup {0}]
    BY DEF CheckoutInit, ShopInit
  <2>2. StockLevels \cup {0} \subseteq Nat
    BY CheckoutAssumption DEF CheckoutAssumption
  <2>. QED  BY <2>1, <2>2
<1>. QED  BY <1>1 DEF CheckoutInit, ShopInit, Inventory!Init

\* The commit of a checkout is one purchase from the present stock.
LEMMA CommitPurchases ==
    ASSUME CheckoutInvariant, CheckoutInvariant', NEW r \in Requests, Commit(r)
    PROVE  Inventory!Purchase
<1>. USE DEF CheckoutInvariant, Typed, CheckoutTypeOK, ShopTypeOK
<1>. DEFINE o == NewOrder(r)
<1>1. /\ o \in Inventory!Orders
      /\ o \in orders'
      /\ o.items = items[r]
      /\ o.id = orderId[r]
      /\ orders' = orders \cup {o}
  <2>1. session[r] \in Sessions
    BY DEF Commit, SessionsAreKnown, InTransaction
  <2>. QED
    BY <2>1 DEF Commit, NewOrder, Inventory!Orders, Inventory!Items
<1>2. \A other \in orders : other.id # o.id
  BY <1>1 DEF Commit, Ids, OrderIdsAreUnique
<1>3. items[r] = rawCart[r] /\ Lines(rawCart[r]) # {}
  BY DEF Commit, DraftsAreCurrent, LoopFollowsCart, InTransaction
<1>4. \E p \in Products : o.items[p] > 0
  BY <1>1, <1>3 DEF Lines
<1>5. \A p \in Products :
         o.items[p] > 0 => /\ row[p] = "live"
                           /\ draft[r][p] = stock[p] - o.items[p]
                           /\ o.items[p] <= stock[p]
  BY <1>1 DEF Commit, DraftsAreCurrent, InTransaction, Lines
<1>6. stock' = [p \in Products |-> stock[p] - o.items[p]]
  <2>1. \A p \in Products : stock'[p] = stock[p] - o.items[p]
    BY <1>1, <1>5 DEF Commit, Lines
  <2>. QED  BY <2>1 DEF Commit
<1>7. /\ sold' = [p \in Products |-> sold[p] + o.items[p]]
      /\ UNCHANGED <<row, supplied>>
  BY <1>1 DEF Commit
<1>. HIDE DEF o, CheckoutInvariant
<1>. QED
  BY <1>1, <1>2, <1>4, <1>5, <1>6, <1>7 DEF Inventory!Purchase

LEMMA StepRefines ==
    CheckoutInvariant /\ CheckoutInvariant' /\ [CheckoutNext]_vars
        => [Inventory!Next]_(Inventory!inventoryVars)
<1>. SUFFICES ASSUME CheckoutInvariant, CheckoutInvariant', [CheckoutNext]_vars
              PROVE  [Inventory!Next]_(Inventory!inventoryVars)
  OBVIOUS
<1>1. ASSUME NEW r \in Requests, Commit(r) PROVE Inventory!Next
  BY <1>1, CommitPurchases DEF Inventory!Next
<1>. USE CheckoutAssumption DEF CheckoutAssumption, CheckoutInvariant, Typed,
         CheckoutTypeOK, ShopTypeOK, Books
<1>2. ASSUME NEW p \in Products, NEW n \in StockLevels, CreateProduct(p, n)
      PROVE  Inventory!Next
  <2>1. /\ n \in Nat
        /\ stock'[p] = n
        /\ row[p] # "deleted"
        /\ row' = [row EXCEPT ![p] = "live"]
        /\ stock' = [stock EXCEPT ![p] = n]
        /\ UNCHANGED <<sold, orders>>
    BY <1>2 DEF CreateProduct
  <2>2. supplied' = [supplied EXCEPT ![p] = @ + n - stock[p]]
    <3>1. supplied[p] = 0 /\ stock[p] = 0
      BY <1>2 DEF CreateProduct, UnbornRowsAreEmpty
    <3>. QED  BY <1>2, <2>1, <3>1 DEF CreateProduct
  <2>. HIDE DEF CheckoutInvariant
  <2>. QED  BY <2>1, <2>2 DEF Inventory!Next, Inventory!Restock
<1>3. ASSUME NEW p \in Products, NEW n \in StockLevels, SetStock(p, n)
      PROVE  Inventory!Next
  <2>1. /\ n \in Nat
        /\ stock'[p] = n
        /\ row[p] # "deleted"
        /\ row' = [row EXCEPT ![p] = "live"]
        /\ stock' = [stock EXCEPT ![p] = n]
        /\ supplied' = [supplied EXCEPT ![p] = @ + n - stock[p]]
        /\ UNCHANGED <<sold, orders>>
    BY <1>3 DEF SetStock
  <2>. HIDE DEF CheckoutInvariant
  <2>. QED  BY <2>1 DEF Inventory!Next, Inventory!Restock
<1>4. ASSUME NEW p \in Products, DeleteProduct(p) PROVE Inventory!Next
  BY <1>4 DEF DeleteProduct, SalesAreOnOrders, Inventory!Next,
              Inventory!Withdraw
<1>5. CASE UNCHANGED tables
  BY <1>5 DEF tables, Inventory!inventoryVars
<1>6. CASE UNCHANGED vars
  BY <1>6 DEF vars, checkoutVars, shopVars, historyVars,
              Inventory!inventoryVars
<1>. HIDE DEF CheckoutInvariant
<1>. QED
  BY <1>1, <1>2, <1>3, <1>4, <1>5, <1>6, TablesChangeByCommit
     DEF CheckoutNext, AdminStep

\* Concurrent checkouts, failures included, implement the abstract inventory
\* in which every order is one indivisible purchase.
THEOREM CheckoutImplementsInventory == CheckoutSpec => ImplementsInventory
BY InitRefines, StepRefines, CheckoutInvariance, PTL
   DEF CheckoutSpec, ImplementsInventory, Inventory!Spec
=============================================================================
