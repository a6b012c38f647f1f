-------------------------- MODULE StorefrontProofs --------------------------
(***************************************************************************)
(* Theorems about Storefront.tla: the invariants of the cart and of the    *)
(* checkout survive each other's steps, and what they give together.       *)
(***************************************************************************)
EXTENDS Storefront, CheckoutProofs, CartProofs

-----------------------------------------------------------------------------
(* The inductive invariant                                                 *)

\* A handler read no more than had been asked for until then.
ReadsWereAsked ==
    \A r \in Requests :
        session[r] \in Sessions =>
            \A p \in Products : rawCart[r][p] <= ever[session[r]][p]

\* In an undisturbed session no add runs beside a checkout ...
AddsApart ==
    \A r \in Requests, a \in Adds :
        /\ InFlight(r)
        /\ step[a] \in AddInFlight
        /\ asks[a].session = session[r]
        => session[r] \in disturbed

\* ... so that nothing joins the cart between HGETALL and DEL.
ReadsStand ==
    \A r \in Requests :
        /\ pc[r] \in InTransaction \cup {"committed"}
        /\ session[r] \notin disturbed
        => \A p \in Products : cart[session[r]][p] <= rawCart[r][p]

StorefrontInv ==
    /\ CheckoutInvariant
    /\ CartInv
    /\ ReadsWereAsked
    /\ OrdersWereAsked
    /\ AddsApart
    /\ ReadsStand

\* Nor do two checkouts, or two adds, run beside each other ...
RequestsApart ==
    \A q, r \in Requests :
        q # r /\ InFlight(q) /\ InFlight(r) /\ session[q] = session[r]
            => session[r] \in disturbed

AddsAlone ==
    \A a, b \in Adds :
        /\ a # b
        /\ step[a] \in AddInFlight /\ step[b] \in AddInFlight
        /\ asks[a].session = asks[b].session
        => asks[a].session \in disturbed

\* ... so that a cart is, until the DEL, just what HGETALL has read, and a
\* line is, until the HSET, what HGET has found.
ReadsExact ==
    \A r \in Requests :
        pc[r] \in InTransaction /\ session[r] \notin disturbed
            => cart[session[r]] = rawCart[r]

FindsStand ==
    \A a \in Adds :
        step[a] = "read" /\ asks[a].session \notin disturbed
            => existing[a] = cart[asks[a].session][asks[a].product]

Quiet == RequestsApart /\ AddsAlone /\ ReadsExact /\ FindsStand

\* From the commit to the DEL the cart is on an order already; after that
\* orders and cart together are covered by what was asked for.
StoppedForGood(s) ==
    \E r \in Requests : session[r] = s /\ orderId[r] # 0 /\ pc[r] = "failed"

Clearing(s) ==
    \E r \in Requests : session[r] = s /\ orderId[r] # 0 /\ pc[r] = "committed"

Covered(s) ==
    s \notin disturbed /\ ~StoppedForGood(s) =>
        \A p \in Products :
            OrderedBy(s, p) + (IF Clearing(s) THEN 0 ELSE cart[s][p])
                <= ever[s][p]

AllCovered == \A s \in Sessions : Covered(s)

LEMMA StorefrontInvInit == StorefrontInit => StorefrontInv
<1>. SUFFICES ASSUME StorefrontInit PROVE StorefrontInv
  OBVIOUS
<1>. USE DEF StorefrontInit
<1>1. CheckoutInvariant
  BY InvariantInit
<1>2. CartInv
  <2>1. ShopTypeOK
    BY <1>1 DEF CheckoutInvariant, Typed, CheckoutTypeOK
  <2>2. expiring = {s \in Sessions : cart[s] # EmptyCart}
    BY DEF CheckoutInit, ShopInit
  <2>. QED  BY <2>1, <2>2, CartInvInit
<1>3. ReadsWereAsked /\ ReadsStand
  BY CheckoutAssumption
     DEF CheckoutInit, ReadsWereAsked, ReadsStand, InTransaction,
         CheckoutAssumption
<1>4. OrdersWereAsked
  BY DEF CheckoutInit, OrdersWereAsked
<1>5. AddsApart
  BY DEF CheckoutInit, AddsApart, InFlight
<1>. QED  BY <1>1, <1>2, <1>3, <1>4, <1>5 DEF StorefrontInv

-----------------------------------------------------------------------------
(* Each side keeps the invariant of the other                              *)

\* The checkout's own invariant says nothing about what is in a cart.
LEMMA CheckoutIgnoresCarts ==
    ASSUME CheckoutInvariant, UNCHANGED <<row, stock, checkoutVars>>,
           ShopTypeOK'
    PROVE  CheckoutInvariant'
<1>. USE DEF CheckoutInvariant, checkoutVars, handlerVars, historyVars
<1>1. Typed'
  BY DEF Typed, CheckoutTypeOK, SessionsAreKnown
<1>2. DraftsAreCurrent'
  BY DEF DraftsAreCurrent, Holds
<1>3. LoopFollowsCart'
  BY DEF LoopFollowsCart
<1>4. Books'
  BY DEF Books, BooksBalance, SalesAreOnOrders, UnbornRowsAreEmpty
<1>5. Ids'
  BY DEF Ids, OrderIdsAreUnique, IdsAreAllocated
<1>6. Events'
  BY DEF Events, EventsFollowCommits, CommittedMeansOrdered
<1>. QED  BY <1>1, <1>2, <1>3, <1>4, <1>5, <1>6

\* No cart request writes a product, and what was asked for only grows.
LEMMA CartStepBounds ==
    ASSUME CartInv, CartStep
    PROVE  /\ UNCHANGED <<row, stock>>
           /\ \A s \in Sessions, p \in Products : ever[s][p] <= ever'[s][p]
<1>1. \A s \in Sessions, p \in Products : ever[s][p] \in Nat
  BY DEF CartInv, CartTypeOK
<1>2. ASSUME NEW a \in Adds, AddWrite(a)
      PROVE  /\ UNCHANGED <<row, stock>>
             /\ \A s \in Sessions, p \in Products : ever[s][p] <= ever'[s][p]
  <2>1. asks[a].quantity \in Nat
    BY <1>2, CartAssumption
       DEF AddWrite, CartInv, AsksAreKnown, Asks, CartAssumption
  <2>2. ever \in [Sessions -> [Products -> Nat]]
    BY DEF CartInv, CartTypeOK
  <2>. QED  BY <1>2, <2>1, <2>2 DEF AddWrite
<1>3. CASE UNCHANGED <<row, stock, ever>>
  BY <1>1, <1>3
<1>4. ASSUME NEW a \in Adds, AddStep(a) \/ AddAbort(a), ~AddWrite(a)
      PROVE  UNCHANGED <<row, stock, ever>>
  BY <1>4 DEF AddStep, AddAbort, AddCount, AddOpenWindow, AddCheck, AddRead,
              AddExpire, shopVars, askVars
<1>5. CASE WindowEnds \/ EvictCounter
  BY <1>5, <1>3
     DEF WindowEnds, EvictCounter, DropCounter, shopVars, askVars
<1>6. ASSUME NEW s \in Sessions,
             \/ \E p \in Products : RemoveItem(s, p)
             \/ ClearWholeCart(s) \/ ExpireCart(s) \/ EvictCart(s)
      PROVE  UNCHANGED <<row, stock, ever>>
  BY <1>6 DEF RemoveItem, ClearWholeCart, ExpireCart, EvictCart, DropCart
<1>. QED  BY <1>2, <1>3, <1>4, <1>5, <1>6 DEF CartStep

\* Only the DEL of the checkout touches a cart, and it empties it.
LEMMA CheckoutKeepsTTLs ==
    ASSUME CheckoutNext, UNCHANGED cart, CheckoutInvariant
    PROVE  \A s \in expiring \ expiring' : cart[s] = EmptyCart
<1>1. ASSUME NEW r \in Requests, ClearCart(r)
      PROVE  \A s \in expiring \ expiring' : cart[s] = EmptyCart
  <2>1. session[r] \in Sessions
    BY <1>1 DEF ClearCart, CheckoutInvariant, Typed, SessionsAreKnown,
                Committed
  <2>2. cart' = [cart EXCEPT ![session[r]] = EmptyCart]
        /\ expiring' = expiring \ {session[r]}
    BY <1>1 DEF ClearCart, DeleteCart
  <2>3. cart \in [Sessions -> [Products -> Nat]]
    BY DEF CheckoutInvariant, Typed, CheckoutTypeOK, ShopTypeOK
  <2>. QED  BY <2>1, <2>2, <2>3
<1>2. ASSUME NEW r \in Requests,
             HandlerStep(r) \/ DeadlockVictim(r) \/ Abort(r), ~ClearCart(r)
      PROVE  UNCHANGED expiring
  BY <1>2 DEF HandlerStep, ReadCart, NextLine, Reserve, Reject, InsertOrder,
              Commit, Publish, Respond, DeadlockVictim, Abort, RollBack,
              shopVars
<1>3. CASE AdminStep
  BY <1>3 DEF AdminStep, CreateProduct, SetStock, DeleteProduct
<1>. QED  BY <1>1, <1>2, <1>3 DEF CheckoutNext

\* A step of the checkout side is a step of the checkout.
LEMMA CheckoutSideIsCheckout == CheckoutSide => CheckoutNext
BY DEF CheckoutSide, SettleCart, CheckoutNext, HandlerStep

LEMMA BothInvariantsStep ==
    CheckoutInvariant /\ CartInv /\ [StorefrontNext]_storefrontVars
        => CheckoutInvariant' /\ CartInv'
<1>. SUFFICES ASSUME CheckoutInvariant, CartInv,
                     [StorefrontNext]_storefrontVars
              PROVE  CheckoutInvariant' /\ CartInv'
  OBVIOUS
<1>1. CASE SettleCart
  <2>1. PICK r \in Requests :
           /\ ClearCart(r)
           /\ asked' = [asked EXCEPT ![session[r]] = EmptyCart]
           /\ UNCHANGED <<addVars, ever>>
    BY <1>1 DEF SettleCart
  <2>2. CheckoutInvariant'
    BY <2>1, InvariantStep DEF CheckoutNext, HandlerStep
  <2>3. session[r] \in Sessions
    BY <2>1 DEF ClearCart, CheckoutInvariant, Typed, SessionsAreKnown,
                Committed
  <2>4. asked' \in [Sessions -> [Products -> Nat]]
    BY <2>1, EmptyCartIsCart DEF CartInv, CartTypeOK
  <2>5. row' \in [Products -> RowStates] /\ stock' \in [Products -> Int]
    BY <2>2 DEF CheckoutInvariant, Typed, CheckoutTypeOK, ShopTypeOK
  <2>6. CartInv'
    BY <2>1, <2>3, <2>4, <2>5, DropKeeps DEF ClearCart
  <2>. QED  BY <2>2, <2>6
<1>2. CASE CheckoutNext /\ UNCHANGED <<cart, cartVars>>
  <2>1. CheckoutInvariant'
    BY <1>2, InvariantStep
  <2>2. ShopTypeOK'
    BY <2>1 DEF CheckoutInvariant, Typed, CheckoutTypeOK
  <2>3. \A s \in expiring \ expiring' : cart[s] = EmptyCart
    BY <1>2, CheckoutKeepsTTLs
  <2>4. CartInv'
    BY <1>2, <2>2, <2>3, StutterKeeps DEF ShopTypeOK
  <2>. QED  BY <2>1, <2>4
<1>3. CASE CartSide
  <2>1. CartInv'
    BY <1>3, CartInvStep DEF CartSide
  <2>2. UNCHANGED <<row, stock>>
    BY <1>3, CartStepBounds DEF CartSide
  <2>3. CheckoutInvariant'
    BY <1>3, <2>1, <2>2, CheckoutIgnoresCarts
       DEF CartSide, CartInv, CartTypeOK
  <2>. QED  BY <2>1, <2>3
<1>4. CASE UNCHANGED storefrontVars
  <2>1. CheckoutInvariant'
    BY <1>4, InvariantStep DEF storefrontVars
  <2>2. CartInv'
    BY <1>4, CartInvStep DEF storefrontVars, vars
  <2>. QED  BY <2>1, <2>2
<1>. QED  BY <1>1, <1>2, <1>3, <1>4 DEF StorefrontNext, CheckoutSide

-----------------------------------------------------------------------------
(* What the two say together                                               *)

\* Steps of either side only ever add to what was asked for.
LEMMA EverGrows ==
    ASSUME CheckoutInvariant, CartInv, [StorefrontNext]_storefrontVars
    PROVE  \A s \in Sessions, p \in Products : ever[s][p] <= ever'[s][p]
<1>1. CASE CartSide
  BY <1>1, CartStepBounds DEF CartSide
<1>2. CASE UNCHANGED ever
  BY <1>2 DEF CartInv, CartTypeOK
<1>. QED
  BY <1>1, <1>2 DEF StorefrontNext, CheckoutSide, SettleCart, cartVars,
                    askVars, storefrontVars

\* Apart from HGETALL nothing of what a handler has read changes.
LEMMA OnlyReadCartReads ==
    ASSUME CheckoutNext, \A r \in Requests : ~ReadCart(r)
    PROVE  UNCHANGED <<session, rawCart>>
BY DEF CheckoutNext, HandlerStep, NextLine, Reserve, Reject, InsertOrder,
       Commit, ClearCart, Publish, Respond, DeadlockVictim, Abort, RollBack,
       AdminStep, CreateProduct, SetStock, DeleteProduct, handlerVars

LEMMA ReadsWereAskedStep ==
    StorefrontInv /\ [StorefrontNext]_storefrontVars => ReadsWereAsked'
<1>. SUFFICES ASSUME StorefrontInv, [StorefrontNext]_storefrontVars,
                     NEW r \in Requests, session'[r] \in Sessions,
                     NEW p \in Products
              PROVE  rawCart'[r][p] <= ever'[session'[r]][p]
  BY DEF ReadsWereAsked
<1>0. /\ CheckoutInvariant /\ CartInv /\ ReadsWereAsked
      /\ CheckoutInvariant' /\ CartInv'
  BY BothInvariantsStep DEF StorefrontInv
<1>1. \A s \in Sessions : ever[s][p] <= ever'[s][p]
  BY <1>0, EverGrows
<1>2. /\ \A s \in Sessions : ever[s][p] \in Nat /\ ever'[s][p] \in Nat
      /\ rawCart[r][p] \in Nat
  BY <1>0 DEF CheckoutInvariant, Typed, CheckoutTypeOK, CartInv, CartTypeOK
<1>3. CASE session'[r] = session[r] /\ rawCart'[r] = rawCart[r]
  <2>1. rawCart[r][p] <= ever[session[r]][p]
    BY <1>0, <1>3 DEF ReadsWereAsked
  <2>. QED  BY <1>1, <1>2, <1>3, <2>1
<1>4. ASSUME NEW q \in Requests, ReadCart(q), CheckoutSide
      PROVE  rawCart'[r][p] <= ever'[session'[r]][p]
  <2>1. CASE q # r
    <3>1. session'[r] = session[r] /\ rawCart'[r] = rawCart[r]
      BY <1>0, <1>4, <2>1
         DEF ReadCart, CheckoutInvariant, Typed, CheckoutTypeOK
    <3>. QED  BY <3>1, <1>3
  <2>2. CASE q = r
    <3>1. PICK s \in Sessions :
             /\ session' = [session EXCEPT ![r] = s]
             /\ rawCart' = [rawCart EXCEPT ![r] = cart[s]]
      BY <1>4, <2>2 DEF ReadCart, Contents
    <3>2. session'[r] = s /\ rawCart'[r] = cart[s]
      BY <3>1, <1>0 DEF CheckoutInvariant, Typed, CheckoutTypeOK
    <3>3. cart[s][p] <= ever[s][p] /\ cart[s][p] \in Nat
      BY <1>0 DEF CartInv, NothingInvented, CartTypeOK, ShopTypeOK
    <3>. QED  BY <3>2, <3>3, <1>1, <1>2
  <2>. QED  BY <2>1, <2>2
<1>5. CASE UNCHANGED <<session, rawCart>>
  BY <1>3, <1>5
<1>6. CASE CartSide \/ UNCHANGED storefrontVars
  BY <1>5, <1>6
     DEF CartSide, checkoutVars, handlerVars, storefrontVars, vars
<1>. QED
  BY <1>4, <1>5, <1>6, CheckoutSideIsCheckout, OnlyReadCartReads
     DEF StorefrontNext

\* The order of a commit has the lines that the handler read.
LEMMA OrdersWereAskedStep ==
    StorefrontInv /\ [StorefrontNext]_storefrontVars => OrdersWereAsked'
<1>. SUFFICES ASSUME StorefrontInv, [StorefrontNext]_storefrontVars,
                     NEW o \in orders', NEW p \in Products
              PROVE  o.items[p] <= ever'[o.session][p]
  BY DEF OrdersWereAsked
<1>0. /\ CheckoutInvariant /\ CartInv /\ ReadsWereAsked /\ OrdersWereAsked
      /\ CheckoutInvariant' /\ CartInv'
  BY BothInvariantsStep DEF StorefrontInv
<1>1. /\ o.session \in Sessions
      /\ o.items[p] \in Nat
      /\ ever[o.session][p] \in Nat /\ ever'[o.session][p] \in Nat
  <2>1. o.session \in Sessions /\ o.items \in [Products -> Nat]
    BY <1>0 DEF CheckoutInvariant, Typed, CheckoutTypeOK
  <2>. QED  BY <2>1, <1>0 DEF CartInv, CartTypeOK
<1>2. ever[o.session][p] <= ever'[o.session][p]
  BY <1>0, <1>1, EverGrows
<1>3. o.items[p] <= ever[o.session][p]
  <2>1. CASE o \in orders
    BY <2>1, <1>0 DEF OrdersWereAsked
  <2>2. ASSUME NEW r \in Requests, Commit(r), o = NewOrder(r)
        PROVE  o.items[p] <= ever[o.session][p]
    <3>1. o.session = session[r] /\ o.items = rawCart[r]
      BY <2>2, <1>0
         DEF NewOrder, Commit, CheckoutInvariant, DraftsAreCurrent
    <3>. QED  BY <3>1, <1>0, <1>1 DEF ReadsWereAsked
  <2>3. ASSUME NEW r \in Requests, Commit(r)
        PROVE  o \in orders \/ o = NewOrder(r)
    BY <2>3 DEF Commit
  <2>4. CASE UNCHANGED orders
    BY <2>1, <2>4
  <2>5. CASE CartSide \/ UNCHANGED storefrontVars
    BY <2>4, <2>5 DEF CartSide, checkoutVars, storefrontVars, vars
  <2>6. ASSUME CheckoutNext, \A r \in Requests : ~Commit(r)
        PROVE  UNCHANGED orders
    BY <2>6, TablesChangeByCommit
       DEF CheckoutNext, AdminStep, CreateProduct, SetStock, DeleteProduct,
           tables
  <2>. QED
    BY <2>1, <2>2, <2>3, <2>4, <2>5, <2>6, CheckoutSideIsCheckout
       DEF StorefrontNext
<1>. QED  BY <1>1, <1>2, <1>3

-----------------------------------------------------------------------------
(* Undisturbed sessions                                                    *)

\* A handler that has begun neither begins again nor changes its session.
LEMMA HandlersGoOn ==
    ASSUME CheckoutInvariant, CheckoutNext, NEW r \in Requests,
           pc[r] # "idle"
    PROVE  /\ session'[r] = session[r] /\ rawCart'[r] = rawCart[r]
           /\ InFlight(r)' => InFlight(r)
           /\ pc'[r] \in InTransaction => pc[r] \in InTransaction
           /\ pc'[r] \in InTransaction \cup {"committed"}
                => pc[r] \in InTransaction \cup {"committed"}
<1>. USE DEF CheckoutInvariant, Typed, CheckoutTypeOK, InFlight,
             InTransaction, Committed, Ended
<1>1. ASSUME NEW q \in Requests, NEW outcome \in {"rejected", "failed"},
             RollBack(q, outcome)
      PROVE  /\ session'[r] = session[r] /\ rawCart'[r] = rawCart[r]
             /\ InFlight(r)' => InFlight(r)
             /\ pc'[r] \in InTransaction => pc[r] \in InTransaction
             /\ pc'[r] \in InTransaction \cup {"committed"}
                  => pc[r] \in InTransaction \cup {"committed"}
  BY <1>1 DEF RollBack
<1>2. ASSUME NEW q \in Requests, HandlerStep(q) \/ Abort(q),
             \A outcome \in {"rejected", "failed"} : ~RollBack(q, outcome)
      PROVE  /\ session'[r] = session[r] /\ rawCart'[r] = rawCart[r]
             /\ InFlight(r)' => InFlight(r)
             /\ pc'[r] \in InTransaction => pc[r] \in InTransaction
             /\ pc'[r] \in InTransaction \cup {"committed"}
                  => pc[r] \in InTransaction \cup {"committed"}
  BY <1>2 DEF HandlerStep, Abort, ReadCart, NextLine, Reserve, Reject,
              InsertOrder, Commit, ClearCart, Publish, MayPublish, Respond,
              MayRespond
<1>3. CASE AdminStep
  BY <1>3 DEF AdminStep, CreateProduct, SetStock, DeleteProduct, handlerVars
<1>. QED  BY <1>1, <1>2, <1>3 DEF CheckoutNext, DeadlockVictim

\* It begins with the HGETALL.
LEMMA HandlersBeginByReading ==
    ASSUME CheckoutInvariant, CheckoutNext, NEW r \in Requests,
           pc[r] = "idle", pc'[r] \in InTransaction \cup {"committed"}
    PROVE  ReadCart(r)
<1>. USE DEF CheckoutInvariant, Typed, CheckoutTypeOK, InTransaction,
             Committed
<1>1. ASSUME NEW q \in Requests, NEW outcome \in {"rejected", "failed"}
      PROVE  ~RollBack(q, outcome)
  BY DEF RollBack
<1>2. ASSUME NEW q \in Requests, HandlerStep(q) \/ Abort(q)
      PROVE  ReadCart(r)
  <2>1. q = r
    BY <1>1, <1>2
       DEF HandlerStep, Abort, ReadCart, NextLine, Reserve, Reject,
           InsertOrder, Commit, ClearCart, Publish, MayPublish, Respond,
           MayRespond
  <2>. QED
    BY <1>1, <1>2, <2>1
       DEF HandlerStep, Abort, NextLine, Reserve, Reject, InsertOrder,
           Commit, ClearCart, Publish, MayPublish, Respond, MayRespond
<1>3. ~AdminStep
  BY DEF AdminStep, CreateProduct, SetStock, DeleteProduct, handlerVars
<1>. QED  BY <1>1, <1>2, <1>3 DEF CheckoutNext, DeadlockVictim

\* Neither does an add begin twice.
LEMMA AddsGoOn ==
    ASSUME CartInv, CartStep, NEW a \in Adds, step[a] # "unsent"
    PROVE  /\ asks'[a] = asks[a]
           /\ step'[a] \in AddInFlight => step[a] \in AddInFlight
<1>. USE DEF CartInv, CartTypeOK, AddInFlight, Limited
<1>1. ASSUME NEW b \in Adds, AddStep(b) \/ AddAbort(b)
      PROVE  /\ asks'[a] = asks[a]
             /\ step'[a] \in AddInFlight => step[a] \in AddInFlight
  BY <1>1 DEF AddStep, AddAbort, Stop, AddCount, AddOpenWindow, AddCheck, AddRead,
              AddWrite, AddExpire
<1>2. CASE UNCHANGED <<step, asks>>
  BY <1>2
<1>3. CASE WindowEnds \/ EvictCounter
  BY <1>2, <1>3 DEF WindowEnds, EvictCounter, DropCounter
<1>4. ASSUME NEW s \in Sessions,
             \/ \E p \in Products : RemoveItem(s, p)
             \/ ClearWholeCart(s) \/ ExpireCart(s) \/ EvictCart(s)
      PROVE  UNCHANGED <<step, asks>>
  BY <1>4 DEF RemoveItem, ClearWholeCart, ExpireCart, EvictCart, DropCart,
              addVars
<1>. QED  BY <1>1, <1>2, <1>3, <1>4 DEF CartStep

\* Whoever begins beside a pending request disturbs the session.
LEMMA AddsApartStep ==
    StorefrontInv /\ [StorefrontNext]_storefrontVars => AddsApart'
<1>. SUFFICES ASSUME StorefrontInv, [StorefrontNext]_storefrontVars,
                     NEW r \in Requests, NEW a \in Adds, InFlight(r)',
                     step'[a] \in AddInFlight,
                     asks'[a].session = session'[r]
              PROVE  session'[r] \in disturbed'
  BY DEF AddsApart
<1>0. CheckoutInvariant /\ CartInv /\ AddsApart
  BY DEF StorefrontInv
<1>1. disturbed \subseteq disturbed'
  BY DEF StorefrontNext, Disturb, storefrontVars
<1>2. ASSUME InFlight(r), step[a] \in AddInFlight,
             asks'[a] = asks[a], session'[r] = session[r]
      PROVE  session'[r] \in disturbed'
  BY <1>0, <1>1, <1>2 DEF AddsApart
<1>3. CASE CheckoutSide /\ Disturb
  <2>1. UNCHANGED <<step, asks>>
    BY <1>3 DEF CheckoutSide, SettleCart, cartVars, addVars
  <2>2. CASE pc[r] # "idle"
    BY <1>0, <1>2, <1>3, <2>1, <2>2, HandlersGoOn, CheckoutSideIsCheckout
  <2>3. CASE pc[r] = "idle"
    <3>1. pc'[r] # "idle"
      BY DEF InFlight
    <3>2. session'[r] \in Sessions
      BY <2>1, <1>0 DEF CartInv, AsksAreKnown, Asks, AddInFlight, Limited
    <3>3. CheckoutStarts(session'[r])
      BY <2>3, <3>1 DEF CheckoutStarts
    <3>4. ~NothingPending(session'[r])
      BY <2>1 DEF NothingPending
    <3>. QED  BY <1>3, <3>2, <3>3, <3>4 DEF Disturb
  <2>. QED  BY <2>2, <2>3
<1>4. CASE CartSide /\ Disturb
  <2>1. UNCHANGED <<pc, session>>
    BY <1>4 DEF CartSide, checkoutVars, handlerVars
  <2>2. InFlight(r)
    BY <2>1 DEF InFlight
  <2>3. CASE step[a] # "unsent"
    BY <1>0, <1>2, <1>4, <2>1, <2>2, <2>3, AddsGoOn DEF CartSide
  <2>4. CASE step[a] = "unsent"
    <3>1. step'[a] # "unsent"
      BY DEF AddInFlight, Limited
    <3>2. session'[r] \in Sessions
      BY <1>0, <2>1, <2>2
         DEF CheckoutInvariant, Typed, CheckoutTypeOK, SessionsAreKnown,
             InFlight, States, InTransaction, Committed, Ended
    <3>3. AddStarts(session'[r])
      BY <2>4, <3>1 DEF AddStarts
    <3>4. ~NothingPending(session'[r])
      BY <2>1, <2>2 DEF NothingPending
    <3>. QED  BY <1>4, <3>2, <3>3, <3>4 DEF Disturb
  <2>. QED  BY <2>3, <2>4
<1>5. CASE UNCHANGED storefrontVars
  BY <1>2, <1>5
     DEF storefrontVars, vars, checkoutVars, handlerVars, cartVars, addVars,
         InFlight
<1>. QED  BY <1>3, <1>4, <1>5 DEF StorefrontNext

\* Only an add's HSET puts anything into a cart.
LEMMA OnlyWritesAdd ==
    ASSUME CheckoutInvariant, CartInv, CheckoutSide \/ CartStep,
           NEW s \in Sessions, NEW p \in Products,
           \A a \in Adds : AddWrite(a) => asks[a].session # s
    PROVE  cart'[s][p] <= cart[s][p]
<1>1. cart \in [Sessions -> [Products -> Nat]] /\ cart[s][p] \in Nat
  BY DEF CartInv, CartTypeOK, ShopTypeOK
<1>2. CASE UNCHANGED cart
  BY <1>1, <1>2
<1>3. ASSUME NEW t, DeleteCart(t) PROVE cart'[s][p] <= cart[s][p]
  BY <1>1, <1>3 DEF DeleteCart, EmptyCart
<1>4. ASSUME NEW a \in Adds, AddWrite(a) PROVE cart'[s][p] <= cart[s][p]
  <2>1. asks[a].session # s
    BY <1>4
  <2>2. PICK t, x, n : /\ t # s
                       /\ cart' = [cart EXCEPT ![t][x] = n]
    BY <1>4, <2>1 DEF AddWrite
  <2>. QED  BY <1>1, <2>2
<1>5. ASSUME NEW a \in Adds, AddStep(a) \/ AddAbort(a), ~AddWrite(a)
      PROVE  UNCHANGED cart
  BY <1>5 DEF AddStep, AddAbort, AddCount, AddOpenWindow, AddCheck, AddRead,
              AddExpire, shopVars
<1>6. ASSUME NEW t \in Sessions, NEW x \in Products, RemoveItem(t, x)
      PROVE  cart'[s][p] <= cart[s][p]
  BY <1>1, <1>6 DEF RemoveItem
<1>7. ASSUME NEW t \in Sessions,
             ClearWholeCart(t) \/ ExpireCart(t) \/ EvictCart(t)
      PROVE  DeleteCart(t)
  BY <1>7 DEF ClearWholeCart, ExpireCart, EvictCart, DropCart
<1>8. CASE WindowEnds \/ EvictCounter
  BY <1>2, <1>8 DEF WindowEnds, EvictCounter, DropCounter, shopVars
<1>9. CASE CartStep
  BY <1>3, <1>2, <1>4, <1>5, <1>6, <1>7, <1>8, <1>9 DEF CartStep
<1>10. CASE CheckoutSide
  BY <1>2, <1>3, <1>10 DEF CheckoutSide, SettleCart, ClearCart
<1>. QED  BY <1>9, <1>10

LEMMA ReadsStandStep ==
    StorefrontInv /\ [StorefrontNext]_storefrontVars => ReadsStand'
<1>. SUFFICES ASSUME StorefrontInv, [StorefrontNext]_storefrontVars,
                     NEW r \in Requests, NEW p \in Products,
                     pc'[r] \in InTransaction \cup {"committed"},
                     session'[r] \notin disturbed'
              PROVE  cart'[session'[r]][p] <= rawCart'[r][p]
  BY DEF ReadsStand
<1>0. /\ CheckoutInvariant /\ CartInv /\ AddsApart /\ ReadsStand
      /\ CheckoutInvariant' /\ CartInv'
  BY BothInvariantsStep DEF StorefrontInv
<1>1. disturbed \subseteq disturbed'
  BY DEF StorefrontNext, Disturb, storefrontVars
<1>2. session'[r] \in Sessions
  BY <1>0 DEF CheckoutInvariant, Typed, SessionsAreKnown, Committed
<1>3. ASSUME NEW s \in Sessions
      PROVE  cart[s][p] \in Nat /\ cart'[s][p] \in Nat
  BY <1>0 DEF CartInv, CartTypeOK, ShopTypeOK
<1>4. rawCart[r][p] \in Nat
  BY <1>0 DEF CheckoutInvariant, Typed, CheckoutTypeOK
\* What was true of the cart stays true if nothing joins it.
<1>5. ASSUME session'[r] = session[r], rawCart'[r] = rawCart[r],
             pc[r] \in InTransaction \cup {"committed"},
             cart'[session[r]][p] <= cart[session[r]][p]
      PROVE  cart'[session'[r]][p] <= rawCart'[r][p]
  <2>1. cart[session[r]][p] <= rawCart[r][p]
    BY <1>0, <1>1, <1>5 DEF ReadsStand
  <2>. QED  BY <2>1, <1>2, <1>3, <1>4, <1>5
<1>6. CASE CheckoutSide
  <2>1. CASE pc[r] # "idle"
    <3>1. /\ session'[r] = session[r] /\ rawCart'[r] = rawCart[r]
          /\ pc[r] \in InTransaction \cup {"committed"}
      BY <1>0, <1>6, <2>1, HandlersGoOn, CheckoutSideIsCheckout
    <3>2. CASE UNCHANGED cart
      BY <3>1, <3>2, <1>2, <1>3, <1>5
    <3>3. CASE SettleCart
      <4>1. PICK q \in Requests : DeleteCart(session[q])
        BY <3>3 DEF SettleCart, ClearCart
      <4>2. cart'[session[r]][p] <= cart[session[r]][p]
        BY <4>1, <3>1, <1>0, <1>2, <1>3
           DEF DeleteCart, EmptyCart, CartInv, CartTypeOK, ShopTypeOK
      <4>. QED  BY <3>1, <4>2, <1>5
    <3>. QED  BY <1>6, <3>2, <3>3 DEF CheckoutSide
  <2>2. CASE pc[r] = "idle"
    <3>1. ReadCart(r)
      BY <1>0, <1>6, <2>2, HandlersBeginByReading, CheckoutSideIsCheckout
    <3>2. PICK s \in Sessions : /\ session' = [session EXCEPT ![r] = s]
                                /\ rawCart' = [rawCart EXCEPT ![r] = cart[s]]
                                /\ cart' = cart
      BY <3>1 DEF ReadCart, Contents, shopVars
    <3>3. session'[r] = s /\ rawCart'[r] = cart[s]
      BY <3>2, <1>0 DEF CheckoutInvariant, Typed, CheckoutTypeOK
    <3>. QED  BY <3>2, <3>3, <1>3
  <2>. QED  BY <2>1, <2>2
<1>7. CASE CartSide
  <2>1. UNCHANGED <<pc, session, rawCart>>
    BY <1>7 DEF CartSide, checkoutVars, handlerVars
  <2>2. InFlight(r)
    BY <2>1 DEF InFlight, InTransaction, Ended
  <2>3. ASSUME NEW a \in Adds, AddWrite(a) PROVE asks[a].session # session[r]
    <3>1. step[a] \in AddInFlight
      BY <2>3 DEF AddWrite, AddInFlight
    <3>. QED  BY <1>0, <1>1, <2>1, <2>2, <3>1 DEF AddsApart
  <2>4. cart'[session[r]][p] <= cart[session[r]][p]
    BY <1>0, <1>2, <1>7, <2>1, <2>3, OnlyWritesAdd DEF CartSide
  <2>. QED  BY <2>1, <2>4, <1>5
<1>8. CASE UNCHANGED storefrontVars
  <2>1. UNCHANGED <<cart, pc, session, rawCart>>
    BY <1>8 DEF storefrontVars, vars, shopVars, checkoutVars, handlerVars
  <2>. QED  BY <2>1, <1>2, <1>3, <1>5
<1>. QED  BY <1>6, <1>7, <1>8 DEF StorefrontNext

-----------------------------------------------------------------------------
(* Quiet sessions                                                          *)

\* The handlers take their steps one at a time.
LEMMA OneHandlerMoves ==
    ASSUME CheckoutInvariant, CheckoutNext, NEW q \in Requests,
           NEW r \in Requests \ {q}, pc'[q] # pc[q]
    PROVE  pc'[r] = pc[r] /\ session'[r] = session[r]
<1>. USE DEF CheckoutInvariant, Typed, CheckoutTypeOK
<1>1. ASSUME NEW h \in Requests,
             \/ HandlerStep(h) \/ DeadlockVictim(h) \/ Abort(h)
      PROVE  /\ \A o \in Requests \ {h} :
                    pc'[o] = pc[o] /\ session'[o] = session[o]
  BY <1>1 DEF HandlerStep, ReadCart, NextLine, Reserve, Reject, InsertOrder,
              Commit, ClearCart, Publish, Respond, DeadlockVictim, Abort,
              RollBack
<1>2. ~AdminStep
  BY DEF AdminStep, CreateProduct, SetStock, DeleteProduct, handlerVars
<1>. QED  BY <1>1, <1>2 DEF CheckoutNext

\* So do the adds.
LEMMA OneAddMoves ==
    ASSUME CartInv, CartStep, NEW a \in Adds, NEW b \in Adds \ {a},
           step'[a] # step[a]
    PROVE  step'[b] = step[b] /\ asks'[b] = asks[b]
<1>. USE DEF CartInv, CartTypeOK
<1>1. ASSUME NEW h \in Adds, AddStep(h) \/ AddAbort(h)
      PROVE  \A o \in Adds \ {h} : step'[o] = step[o] /\ asks'[o] = asks[o]
  BY <1>1 DEF AddStep, AddAbort, Stop, AddCount, AddOpenWindow, AddCheck, AddRead,
              AddWrite, AddExpire
<1>2. ~(WindowEnds \/ EvictCounter)
  BY DEF WindowEnds, EvictCounter, DropCounter
<1>3. ASSUME NEW s \in Sessions
      PROVE  ~ \/ \E p \in Products : RemoveItem(s, p)
               \/ ClearWholeCart(s) \/ ExpireCart(s) \/ EvictCart(s)
  BY DEF RemoveItem, ClearWholeCart, ExpireCart, EvictCart, DropCart, addVars
<1>. QED  BY <1>1, <1>2, <1>3 DEF CartStep

LEMMA RequestsApartStep ==
    StorefrontInv /\ Quiet /\ [StorefrontNext]_storefrontVars
        => RequestsApart'
<1>. SUFFICES ASSUME StorefrontInv, Quiet, [StorefrontNext]_storefrontVars,
                     NEW q \in Requests, NEW r \in Requests, q # r,
                     InFlight(q)', InFlight(r)', session'[q] = session'[r]
              PROVE  session'[r] \in disturbed'
  BY DEF RequestsApart
<1>0. CheckoutInvariant /\ CheckoutInvariant'
  BY BothInvariantsStep DEF StorefrontInv
<1>1. disturbed \subseteq disturbed'
  BY DEF StorefrontNext, Disturb, storefrontVars
<1>2. session'[r] \in Sessions
  BY <1>0 DEF CheckoutInvariant, Typed, CheckoutTypeOK, SessionsAreKnown,
              InFlight, States, InTransaction, Committed, Ended
<1>3. ASSUME InFlight(q), InFlight(r), session'[q] = session[q],
             session'[r] = session[r]
      PROVE  session'[r] \in disturbed'
  BY <1>1, <1>3 DEF Quiet, RequestsApart
\* One of them begins while the other one is in flight.
<1>4. ASSUME CheckoutSide, Disturb, NEW x \in Requests, NEW y \in Requests,
             x # y, pc[x] = "idle", InFlight(x)', InFlight(y)',
             session'[x] = session'[r], session'[y] = session'[r]
      PROVE  session'[r] \in disturbed'
  <2>1. pc'[x] # "idle"
    BY <1>4 DEF InFlight
  <2>2. pc'[y] = pc[y] /\ session'[y] = session[y]
    BY <1>0, <1>4, <2>1, OneHandlerMoves, CheckoutSideIsCheckout
  <2>3. InFlight(y)
    BY <1>4, <2>2 DEF InFlight
  <2>4. ~NothingPending(session'[r])
    BY <1>4, <2>2, <2>3 DEF NothingPending
  <2>5. CheckoutStarts(session'[r])
    BY <1>4, <2>1 DEF CheckoutStarts
  <2>. QED  BY <1>2, <1>4, <2>4, <2>5 DEF Disturb
<1>5. CASE CheckoutSide /\ Disturb
  <2>1. CASE pc[q] # "idle" /\ pc[r] # "idle"
    BY <1>0, <1>3, <1>5, <2>1, HandlersGoOn, CheckoutSideIsCheckout
  <2>. QED  BY <1>4, <1>5, <2>1
<1>6. CASE CartSide \/ UNCHANGED storefrontVars
  <2>1. UNCHANGED <<pc, session>>
    BY <1>6 DEF CartSide, storefrontVars, vars, checkoutVars, handlerVars
  <2>. QED  BY <1>3, <2>1 DEF InFlight
<1>. QED  BY <1>5, <1>6 DEF StorefrontNext

LEMMA AddsAloneStep ==
    StorefrontInv /\ Quiet /\ [StorefrontNext]_storefrontVars => AddsAlone'
<1>. SUFFICES ASSUME StorefrontInv, Quiet, [StorefrontNext]_storefrontVars,
                     NEW a \in Adds, NEW b \in Adds, a # b,
                     step'[a] \in AddInFlight, step'[b] \in AddInFlight,
                     asks'[a].session = asks'[b].session
              PROVE  asks'[a].session \in disturbed'
  BY DEF AddsAlone
<1>0. CartInv /\ CartInv'
  BY BothInvariantsStep DEF StorefrontInv
<1>1. disturbed \subseteq disturbed'
  BY DEF StorefrontNext, Disturb, storefrontVars
<1>2. asks'[a].session \in Sessions
  BY <1>0 DEF CartInv, AsksAreKnown, Asks, AddInFlight, Limited
<1>3. ASSUME step[a] \in AddInFlight, step[b] \in AddInFlight,
             asks'[a] = asks[a], asks'[b] = asks[b]
      PROVE  asks'[a].session \in disturbed'
  BY <1>1, <1>3 DEF Quiet, AddsAlone
<1>4. ASSUME CartSide, Disturb, NEW x \in Adds, NEW y \in Adds, x # y,
             step[x] = "unsent", step'[x] \in AddInFlight,
             step'[y] \in AddInFlight,
             asks'[x].session = asks'[a].session,
             asks'[y].session = asks'[a].session
      PROVE  asks'[a].session \in disturbed'
  <2>1. step'[x] # "unsent"
    BY <1>4 DEF AddInFlight, Limited
  <2>2. step'[y] = step[y] /\ asks'[y] = asks[y]
    BY <1>0, <1>4, <2>1, OneAddMoves DEF CartSide
  <2>3. ~NothingPending(asks'[a].session)
    BY <1>4, <2>2 DEF NothingPending
  <2>4. AddStarts(asks'[a].session)
    BY <1>4, <2>1 DEF AddStarts
  <2>. QED  BY <1>2, <1>4, <2>3, <2>4 DEF Disturb
<1>5. CASE CartSide /\ Disturb
  <2>1. CASE step[a] # "unsent" /\ step[b] # "unsent"
    BY <1>0, <1>3, <1>5, <2>1, AddsGoOn DEF CartSide
  <2>. QED  BY <1>4, <1>5, <2>1
<1>6. CASE CheckoutSide \/ UNCHANGED storefrontVars
  <2>1. UNCHANGED <<step, asks>>
    BY <1>6 DEF CheckoutSide, SettleCart, storefrontVars, cartVars, addVars
  <2>. QED  BY <1>3, <2>1
<1>. QED  BY <1>5, <1>6 DEF StorefrontNext

\* While a request of a quiet session is pending, only an HSET of this session
\* changes its cart from the side of the cart endpoints.
LEMMA PendingCartsStay ==
    ASSUME CartInv, CartSide, Disturb, NEW s \in Sessions,
           ~NothingPending(s), s \notin disturbed',
           \A a \in Adds : AddWrite(a) => asks[a].session # s
    PROVE  cart'[s] = cart[s]
<1>1. cart \in [Sessions -> [Products -> Nat]]
  BY DEF CartInv, CartTypeOK, ShopTypeOK
<1>2. ~CartDropped(s)
  BY DEF Disturb
<1>3. UNCHANGED pc
  BY DEF CartSide, checkoutVars, handlerVars
<1>4. CASE UNCHANGED step
  BY <1>2, <1>3, <1>4 DEF CartDropped
<1>5. ASSUME NEW a \in Adds, AddWrite(a) PROVE cart'[s] = cart[s]
  <2>1. asks[a].session # s
    BY <1>5
  <2>2. PICK t, x, n : /\ t # s
                       /\ cart' = [cart EXCEPT ![t][x] = n]
    BY <1>5, <2>1 DEF AddWrite
  <2>. QED  BY <1>1, <2>2
<1>6. ASSUME NEW a \in Adds, AddStep(a) \/ AddAbort(a), ~AddWrite(a)
      PROVE  UNCHANGED cart
  BY <1>6 DEF AddStep, AddAbort, AddCount, AddOpenWindow, AddCheck, AddRead,
              AddExpire, shopVars
<1>7. CASE WindowEnds \/ EvictCounter
  BY <1>7 DEF WindowEnds, EvictCounter, DropCounter, shopVars
<1>8. ASSUME NEW t \in Sessions,
             \/ \E p \in Products : RemoveItem(t, p)
             \/ ClearWholeCart(t) \/ ExpireCart(t) \/ EvictCart(t)
      PROVE  UNCHANGED step
  BY <1>8 DEF RemoveItem, ClearWholeCart, ExpireCart, EvictCart, DropCart,
              addVars
<1>. QED
  BY <1>4, <1>5, <1>6, <1>7, <1>8 DEF CartSide, CartStep

LEMMA ReadsExactStep ==
    StorefrontInv /\ Quiet /\ [StorefrontNext]_storefrontVars => ReadsExact'
<1>. SUFFICES ASSUME StorefrontInv, Quiet, [StorefrontNext]_storefrontVars,
                     NEW r \in Requests, pc'[r] \in InTransaction,
                     session'[r] \notin disturbed'
              PROVE  cart'[session'[r]] = rawCart'[r]
  BY DEF ReadsExact
<1>0. /\ CheckoutInvariant /\ CartInv
      /\ CheckoutInvariant' /\ CartInv'
  BY BothInvariantsStep DEF StorefrontInv
<1>1. disturbed \subseteq disturbed'
  BY DEF StorefrontNext, Disturb, storefrontVars
<1>2. session'[r] \in Sessions
  BY <1>0 DEF CheckoutInvariant, Typed, SessionsAreKnown
<1>3. ASSUME session'[r] = session[r], rawCart'[r] = rawCart[r],
             pc[r] \in InTransaction, cart'[session[r]] = cart[session[r]]
      PROVE  cart'[session'[r]] = rawCart'[r]
  BY <1>1, <1>3 DEF Quiet, ReadsExact
<1>4. CASE CheckoutSide
  <2>1. CASE pc[r] # "idle"
    <3>1. /\ session'[r] = session[r] /\ rawCart'[r] = rawCart[r]
          /\ pc[r] \in InTransaction
      BY <1>0, <1>4, <2>1, HandlersGoOn, CheckoutSideIsCheckout
    <3>2. CASE UNCHANGED cart
      BY <3>1, <3>2, <1>3
    <3>3. CASE SettleCart
      <4>1. PICK q \in Requests : pc[q] = "committed" /\ DeleteCart(session[q])
        BY <3>3 DEF SettleCart, ClearCart
      <4>2. InFlight(q) /\ InFlight(r) /\ q # r
        BY <3>1, <4>1 DEF InFlight, InTransaction, Ended
      <4>3. session[q] # session[r]
        BY <1>1, <3>1, <4>2 DEF Quiet, RequestsApart
      <4>4. cart'[session[r]] = cart[session[r]]
        BY <4>1, <4>3, <3>1, <1>0, <1>2
           DEF DeleteCart, CartInv, CartTypeOK, ShopTypeOK
      <4>. QED  BY <3>1, <4>4, <1>3
    <3>. QED  BY <1>4, <3>2, <3>3 DEF CheckoutSide
  <2>2. CASE pc[r] = "idle"
    <3>1. ReadCart(r)
      BY <1>0, <1>4, <2>2, HandlersBeginByReading, CheckoutSideIsCheckout
    <3>2. PICK s \in Sessions : /\ session' = [session EXCEPT ![r] = s]
                                /\ rawCart' = [rawCart EXCEPT ![r] = cart[s]]
                                /\ cart' = cart
      BY <3>1 DEF ReadCart, Contents, shopVars
    <3>3. session'[r] = s /\ rawCart'[r] = cart[s]
      BY <3>2, <1>0 DEF CheckoutInvariant, Typed, CheckoutTypeOK
    <3>. QED  BY <3>2, <3>3
  <2>. QED  BY <2>1, <2>2
<1>5. CASE CartSide /\ Disturb
  <2>1. UNCHANGED <<pc, session, rawCart>>
    BY <1>5 DEF CartSide, checkoutVars, handlerVars
  <2>2. InFlight(r)
    BY <2>1 DEF InFlight, InTransaction, Ended
  <2>3. ASSUME NEW a \in Adds, AddWrite(a) PROVE asks[a].session # session[r]
    <3>1. step[a] \in AddInFlight
      BY <2>3 DEF AddWrite, AddInFlight
    <3>. QED  BY <1>1, <2>1, <2>2, <3>1 DEF StorefrontInv, AddsApart
  <2>4. ~NothingPending(session[r])
    BY <2>2 DEF NothingPending
  <2>5. cart'[session[r]] = cart[session[r]]
    BY <1>0, <1>2, <1>5, <2>1, <2>3, <2>4, PendingCartsStay
  <2>. QED  BY <2>1, <2>5, <1>3
<1>6. CASE UNCHANGED storefrontVars
  <2>1. UNCHANGED <<cart, pc, session, rawCart>>
    BY <1>6 DEF storefrontVars, vars, shopVars, checkoutVars, handlerVars
  <2>. QED  BY <2>1, <1>3
<1>. QED  BY <1>4, <1>5, <1>6 DEF StorefrontNext

\* An add that has read waits with what it found for its HSET.
LEMMA ReadAddsWait ==
    ASSUME CartInv, CartStep, NEW a \in Adds, step'[a] = "read", ~AddRead(a)
    PROVE  /\ step[a] = "read" /\ asks'[a] = asks[a]
           /\ existing'[a] = existing[a] /\ ~AddWrite(a)
<1>. USE DEF CartInv, CartTypeOK
<1>0. ~AddWrite(a)
  BY DEF AddWrite
<1>1. ASSUME NEW b \in Adds, AddStep(b) \/ AddAbort(b), b = a
      PROVE  FALSE
  BY <1>1, <1>0 DEF AddStep, AddAbort, Stop, AddCount, AddOpenWindow, AddCheck, AddExpire
<1>2. ASSUME NEW b \in Adds, AddStep(b) \/ AddAbort(b), b # a
      PROVE  /\ step[a] = "read" /\ asks'[a] = asks[a]
             /\ existing'[a] = existing[a]
  BY <1>2 DEF AddStep, AddAbort, Stop, AddCount, AddOpenWindow, AddCheck, AddRead,
              AddWrite, AddExpire
<1>3. CASE UNCHANGED <<step, asks, existing>>
  BY <1>0, <1>3
<1>4. CASE WindowEnds \/ EvictCounter
  BY <1>3, <1>4 DEF WindowEnds, EvictCounter, DropCounter
<1>5. ASSUME NEW s \in Sessions,
             \/ \E p \in Products : RemoveItem(s, p)
             \/ ClearWholeCart(s) \/ ExpireCart(s) \/ EvictCart(s)
      PROVE  UNCHANGED <<step, asks, existing>>
  BY <1>5 DEF RemoveItem, ClearWholeCart, ExpireCart, EvictCart, DropCart,
              addVars
<1>. QED  BY <1>0, <1>1, <1>2, <1>3, <1>4, <1>5 DEF CartStep

LEMMA FindsStandStep ==
    StorefrontInv /\ Quiet /\ [StorefrontNext]_storefrontVars => FindsStand'
<1>. SUFFICES ASSUME StorefrontInv, Quiet, [StorefrontNext]_storefrontVars,
                     NEW a \in Adds, step'[a] = "read",
                     asks'[a].session \notin disturbed'
              PROVE  existing'[a]
                        = cart'[asks'[a].session][asks'[a].product]
  BY DEF FindsStand
<1>0. CheckoutInvariant /\ CartInv /\ CartInv'
  BY BothInvariantsStep DEF StorefrontInv
<1>1. disturbed \subseteq disturbed'
  BY DEF StorefrontNext, Disturb, storefrontVars
<1>2. asks'[a] \in Asks /\ asks'[a].session \in Sessions
  BY <1>0 DEF CartInv, AsksAreKnown, Asks
<1>3. ASSUME step[a] = "read", asks'[a] = asks[a],
             existing'[a] = existing[a],
             cart'[asks[a].session] = cart[asks[a].session]
      PROVE  existing'[a] = cart'[asks'[a].session][asks'[a].product]
  BY <1>1, <1>3 DEF Quiet, FindsStand
<1>4. CASE CheckoutSide
  <2>1. UNCHANGED <<step, asks, existing>>
    BY <1>4 DEF CheckoutSide, SettleCart, cartVars, addVars
  <2>2. CASE UNCHANGED cart
    BY <1>3, <2>1, <2>2
  <2>3. CASE SettleCart
    <3>1. PICK q \in Requests : pc[q] = "committed" /\ DeleteCart(session[q])
      BY <2>3 DEF SettleCart, ClearCart
    <3>2. InFlight(q) /\ step[a] \in AddInFlight
      BY <2>1, <3>1 DEF InFlight, Ended, AddInFlight
    <3>3. asks[a].session # session[q]
      BY <1>1, <2>1, <3>2 DEF StorefrontInv, AddsApart
    <3>4. cart'[asks[a].session] = cart[asks[a].session]
      BY <1>0, <1>2, <2>1, <3>1, <3>3
         DEF DeleteCart, CartInv, CartTypeOK, ShopTypeOK
    <3>. QED  BY <1>3, <2>1, <3>4
  <2>. QED  BY <1>4, <2>2, <2>3 DEF CheckoutSide
<1>5. CASE CartSide /\ Disturb
  <2>1. CASE AddRead(a)
    <3>1. /\ existing' = [existing EXCEPT ![a] =
                             cart[asks[a].session][asks[a].product]]
          /\ UNCHANGED <<asks, cart>>
      BY <2>1 DEF AddRead, shopVars
    <3>2. existing \in [Adds -> Nat]
      BY <1>0 DEF CartInv, CartTypeOK
    <3>. QED  BY <3>1, <3>2
  <2>2. CASE ~AddRead(a)
    <3>1. /\ step[a] = "read" /\ asks'[a] = asks[a]
          /\ existing'[a] = existing[a] /\ ~AddWrite(a)
      BY <1>0, <1>5, <2>2, ReadAddsWait DEF CartSide
    <3>2. ASSUME NEW b \in Adds, AddWrite(b)
          PROVE  asks[b].session # asks[a].session
      <4>1. step[b] \in AddInFlight /\ step[a] \in AddInFlight /\ a # b
        BY <3>1, <3>2 DEF AddWrite, AddInFlight
      <4>. QED  BY <1>1, <3>1, <4>1 DEF Quiet, AddsAlone
    <3>3. ~NothingPending(asks[a].session)
      BY <3>1 DEF NothingPending, AddInFlight
    <3>4. cart'[asks[a].session] = cart[asks[a].session]
      BY <1>0, <1>2, <1>5, <3>1, <3>2, <3>3, PendingCartsStay
    <3>. QED  BY <1>3, <3>1, <3>4
  <2>. QED  BY <2>1, <2>2
<1>6. CASE UNCHANGED storefrontVars
  <2>1. UNCHANGED <<cart, step, asks, existing>>
    BY <1>6 DEF storefrontVars, vars, shopVars, cartVars, addVars
  <2>. QED  BY <2>1, <1>3
<1>. QED  BY <1>4, <1>5, <1>6 DEF StorefrontNext

\* A session stays quiet: the pending request is alone with its cart.
LEMMA QuietStep ==
    StorefrontInv /\ Quiet /\ [StorefrontNext]_storefrontVars => Quiet'
BY RequestsApartStep, AddsAloneStep, ReadsExactStep, FindsStandStep DEF Quiet

LEMMA QuietInit == StorefrontInit => Quiet
BY DEF StorefrontInit, CheckoutInit, CartInit, Quiet, RequestsApart,
       AddsAlone, ReadsExact, FindsStand, InFlight, InTransaction,
       AddInFlight, Limited

-----------------------------------------------------------------------------
(* What quiet sessions pay for                                             *)

LEMMA SalesStay ==
    CheckoutInvariant /\ Sales /\ [StorefrontNext]_storefrontVars => Sales'
<1>. SUFFICES ASSUME CheckoutInvariant, Sales, [StorefrontNext]_storefrontVars
              PROVE  Sales'
  OBVIOUS
<1>1. CASE CheckoutSide
  BY <1>1, SalesStep, CheckoutSideIsCheckout
<1>2. CASE UNCHANGED <<sold, orders>>
  BY <1>2 DEF Sales
<1>. QED
  BY <1>1, <1>2 DEF StorefrontNext, CartSide, checkoutVars, historyVars,
                    storefrontVars, vars

\* The units on the orders of one session are some of those on all orders.
LEMMA OrderedByIsNumber ==
    ASSUME Sales, NEW s \in Sessions, NEW p \in Products
    PROVE  /\ IsFiniteSet(UnitsOrdered(OrdersOf(s), p))
           /\ OrderedBy(s, p) \in Nat
<1>1. UnitsOrdered(OrdersOf(s), p) \subseteq UnitsOrdered(orders, p)
  BY DEF UnitsOrdered, OrdersOf
<1>2. IsFiniteSet(UnitsOrdered(OrdersOf(s), p))
  BY <1>1, FS_Subset DEF Sales
<1>. QED  BY <1>2, FS_CardinalityType DEF OrderedBy

\* A step without a commit, in which the cart gains no more than is asked for
\* and is empty when its DEL is over.
LEMMA StaysCovered ==
    ASSUME Sales, CartInv, CartInv', NEW s \in Sessions, Covered(s),
           disturbed \subseteq disturbed', UNCHANGED orders,
           StoppedForGood(s) => StoppedForGood(s)',
           \/ StoppedForGood(s)'
           \/ Clearing(s)' = Clearing(s)
           \/ ~Clearing(s)' /\ \A p \in Products : cart'[s][p] = 0,
           \A p \in Products :
               /\ ever[s][p] <= ever'[s][p]
               /\ cart'[s][p] + ever[s][p] <= cart[s][p] + ever'[s][p]
    PROVE  Covered(s)'
<1>. SUFFICES ASSUME s \notin disturbed', ~StoppedForGood(s)',
                     NEW p \in Products
              PROVE  OrderedBy(s, p)'
                        + (IF Clearing(s)' THEN 0 ELSE cart'[s][p])
                        <= ever'[s][p]
  BY DEF Covered
<1>1. OrderedBy(s, p)' = OrderedBy(s, p) /\ OrderedBy(s, p) \in Nat
  BY OrderedByIsNumber DEF OrderedBy, OrdersOf, UnitsOrdered, UnitsOf
<1>2. OrderedBy(s, p) + (IF Clearing(s) THEN 0 ELSE cart[s][p]) <= ever[s][p]
  BY DEF Covered
<1>3. /\ cart[s][p] \in Nat /\ ever[s][p] \in Nat
      /\ cart'[s][p] \in Nat /\ ever'[s][p] \in Nat
  BY DEF CartInv, CartTypeOK, ShopTypeOK
<1>. QED  BY <1>1, <1>2, <1>3

\* Who waits for a row has not committed.
LEMMA WaitersReserve ==
    ASSUME CheckoutInvariant, NEW r \in Requests, InDeadlock(r)
    PROVE  pc[r] = "reserving"
<1>1. want[r] # NoProduct
  BY DEF InDeadlock
<1>. QED  BY <1>1 DEF CheckoutInvariant, LoopFollowsCart

\* Handlers that have not committed and are not about to.
LEMMA OthersKeepClearing ==
    ASSUME CheckoutInvariant, CheckoutNext, NEW s \in Sessions,
           \A r \in Requests : ~Commit(r) /\ ~ClearCart(r)
    PROVE  /\ UNCHANGED orders
           /\ StoppedForGood(s) => StoppedForGood(s)'
           /\ StoppedForGood(s)' \/ Clearing(s)' = Clearing(s)
<1>. USE DEF CheckoutInvariant, Typed, CheckoutTypeOK
<1>0. UNCHANGED orders
  BY TablesChangeByCommit
     DEF CheckoutNext, AdminStep, CreateProduct, SetStock, DeleteProduct,
         tables
<1>1. ASSUME NEW q \in Requests,
             \A r \in Requests \ {q} :
                 /\ pc'[r] = pc[r] /\ session'[r] = session[r]
                 /\ orderId'[r] = orderId[r],
             pc[q] \notin {"committed", "failed"},
             pc'[q] # "committed", pc'[q] = "failed" => orderId'[q] = 0
      PROVE  /\ StoppedForGood(s) => StoppedForGood(s)'
             /\ StoppedForGood(s)' \/ Clearing(s)' = Clearing(s)
  BY <1>1 DEF StoppedForGood, Clearing
<1>2. ASSUME NEW q \in Requests, NEW outcome \in {"rejected", "failed"},
             RollBack(q, outcome), pc[q] \notin {"committed", "failed"}
      PROVE  /\ StoppedForGood(s) => StoppedForGood(s)'
             /\ StoppedForGood(s)' \/ Clearing(s)' = Clearing(s)
  BY <1>1, <1>2 DEF RollBack
<1>3. ASSUME NEW q \in Requests,
             \/ ReadCart(q) \/ NextLine(q) \/ Reserve(q) \/ InsertOrder(q)
             \/ Publish(q) \/ Respond(q)
      PROVE  /\ StoppedForGood(s) => StoppedForGood(s)'
             /\ StoppedForGood(s)' \/ Clearing(s)' = Clearing(s)
  BY <1>1, <1>3 DEF ReadCart, NextLine, Reserve, InsertOrder, Publish,
                    MayPublish, Respond, MayRespond
<1>4. ASSUME NEW q \in Requests, Reject(q)
      PROVE  /\ StoppedForGood(s) => StoppedForGood(s)'
             /\ StoppedForGood(s)' \/ Clearing(s)' = Clearing(s)
  BY <1>2, <1>4 DEF Reject
<1>5. ASSUME NEW q \in Requests, DeadlockVictim(q)
      PROVE  /\ StoppedForGood(s) => StoppedForGood(s)'
             /\ StoppedForGood(s)' \/ Clearing(s)' = Clearing(s)
  <2>1. pc[q] \notin {"committed", "failed"}
    BY <1>5, WaitersReserve DEF DeadlockVictim
  <2>. QED  BY <1>2, <1>5, <2>1 DEF DeadlockVictim
<1>6. ASSUME NEW q \in Requests, Abort(q)
      PROVE  /\ StoppedForGood(s) => StoppedForGood(s)'
             /\ StoppedForGood(s)' \/ Clearing(s)' = Clearing(s)
  <2>1. CASE pc[q] \in {"idle"} \cup InTransaction /\ RollBack(q, "failed")
    BY <1>2, <2>1 DEF InTransaction
  <2>2. CASE /\ pc[q] \in Committed \ {"confirmed"}
             /\ pc' = [pc EXCEPT ![q] = "failed"]
             /\ UNCHANGED <<session, orderId>>
    <3>1. \A r \in Requests : pc[r] # "failed" \/ pc'[r] = "failed"
      BY <2>2
    <3>2. StoppedForGood(s) => StoppedForGood(s)'
      BY <2>2, <3>1 DEF StoppedForGood
    <3>3. CASE session[q] = s /\ orderId[q] # 0
      BY <2>2, <3>2, <3>3 DEF StoppedForGood
    <3>4. CASE ~(session[q] = s /\ orderId[q] # 0)
      BY <2>2, <3>2, <3>4 DEF Clearing
    <3>. QED  BY <3>3, <3>4
  <2>. QED  BY <1>6, <2>1, <2>2 DEF Abort
<1>7. CASE AdminStep
  BY <1>7 DEF AdminStep, CreateProduct, SetStock, DeleteProduct, handlerVars,
              StoppedForGood, Clearing
<1>. HIDE DEF CheckoutInvariant
<1>. QED
  BY <1>0, <1>3, <1>4, <1>5, <1>6, <1>7 DEF CheckoutNext, HandlerStep

\* The commit puts on the order what the cart of a quiet session holds.
LEMMA CommitStaysCovered ==
    ASSUME StorefrontInv, CartInv', Quiet, Sales, NEW s \in Sessions,
           Covered(s), disturbed \subseteq disturbed',
           NEW r \in Requests, Commit(r), UNCHANGED <<cart, ever>>
    PROVE  Covered(s)'
<1>. SUFFICES ASSUME s \notin disturbed', ~StoppedForGood(s)',
                     NEW p \in Products
              PROVE  OrderedBy(s, p)'
                        + (IF Clearing(s)' THEN 0 ELSE cart'[s][p])
                        <= ever'[s][p]
  BY DEF Covered
<1>0. /\ CheckoutInvariant
      /\ pc \in [Requests -> States] /\ orderId \in [Requests -> Nat]
      /\ items[r] \in [Products -> Nat]
  BY DEF StorefrontInv, CheckoutInvariant, Typed, CheckoutTypeOK
<1>1. /\ pc[r] = "inserted" /\ orderId[r] # 0 /\ session[r] \in Sessions
      /\ items[r] = rawCart[r]
  BY <1>0 DEF Commit, CheckoutInvariant, Ids, IdsAreAllocated, Typed,
              SessionsAreKnown, InTransaction, DraftsAreCurrent
<1>2. /\ pc' = [pc EXCEPT ![r] = "committed"]
      /\ UNCHANGED <<session, orderId>>
  BY DEF Commit
<1>3. PICK o : /\ o = NewOrder(r) /\ o.session = session[r]
               /\ o.items = items[r] /\ o.id = orderId[r]
  <2>1. /\ NewOrder(r).session = session[r] /\ NewOrder(r).items = items[r]
        /\ NewOrder(r).id = orderId[r]
    BY DEF NewOrder
  <2>. QED  BY <2>1
<1>4. orders' = orders \cup {o} /\ o \notin orders
  BY <1>0, <1>3 DEF Commit, CheckoutInvariant, Ids, OrderIdsAreUnique
<1>5. ~StoppedForGood(s)
  BY <1>0, <1>1, <1>2 DEF StoppedForGood
<1>6. OrderedBy(s, p) + (IF Clearing(s) THEN 0 ELSE cart[s][p]) <= ever[s][p]
  BY <1>5 DEF Covered
<1>7. cart[s][p] \in Nat /\ ever[s][p] \in Nat
  BY DEF StorefrontInv, CartInv, CartTypeOK, ShopTypeOK
<1>8. IsFiniteSet(UnitsOrdered(OrdersOf(s), p)) /\ OrderedBy(s, p) \in Nat
  BY OrderedByIsNumber
<1>9. OrderedBy(s, p)' = Cardinality(UnitsOrdered(OrdersOf(s)', p))
  BY DEF OrderedBy, UnitsOrdered, UnitsOf
<1>10. CASE session[r] = s
  <2>1. Clearing(s)'
    BY <1>0, <1>1, <1>2, <1>10 DEF Clearing
  \* Nobody else of this session stands between commit and DEL.
  <2>2. ~Clearing(s)
    <3>1. SUFFICES ASSUME NEW q \in Requests, session[q] = s,
                          pc[q] = "committed"
                   PROVE  FALSE
      BY DEF Clearing
    <3>2. InFlight(q) /\ InFlight(r) /\ q # r
      BY <1>1, <3>1 DEF InFlight, Ended
    <3>. QED  BY <1>10, <3>1, <3>2 DEF Quiet, RequestsApart
  <2>3. cart[s][p] = items[r][p]
    BY <1>1, <1>10 DEF Quiet, ReadsExact, InTransaction
  <2>4. OrdersOf(s)' = OrdersOf(s) \cup {o} /\ o \notin OrdersOf(s)
    BY <1>3, <1>4, <1>10 DEF OrdersOf
  <2>5. o.items[p] \in Nat /\ o.items[p] = items[r][p]
    BY <1>0, <1>3
  <2>6. Cardinality(UnitsOrdered(OrdersOf(s) \cup {o}, p))
           = Cardinality(UnitsOrdered(OrdersOf(s), p)) + o.items[p]
    BY <1>8, <2>4, <2>5, UnitsAdd
  <2>7. OrderedBy(s, p)' = OrderedBy(s, p) + cart[s][p]
    BY <1>9, <2>3, <2>4, <2>5, <2>6 DEF OrderedBy
  <2>. QED  BY <1>6, <1>7, <1>8, <2>1, <2>2, <2>7
<1>11. CASE session[r] # s
  <2>1. Clearing(s)' = Clearing(s)
    BY <1>0, <1>2, <1>11 DEF Clearing
  <2>2. OrdersOf(s)' = OrdersOf(s)
    BY <1>3, <1>4, <1>11 DEF OrdersOf
  <2>3. OrderedBy(s, p)' = OrderedBy(s, p)
    BY <1>9, <2>2 DEF OrderedBy
  <2>. QED  BY <1>6, <1>7, <1>8, <2>1, <2>3
<1>. QED  BY <1>10, <1>11

\* The DEL empties the cart whose contents were ordered.
LEMMA ClearStaysCovered ==
    ASSUME StorefrontInv, CartInv', Sales, NEW s \in Sessions, Covered(s),
           disturbed \subseteq disturbed',
           NEW r \in Requests, ClearCart(r), UNCHANGED ever
    PROVE  Covered(s)'
<1>1. /\ pc \in [Requests -> States] /\ session[r] \in Sessions
      /\ CartInv /\ cart \in [Sessions -> [Products -> Nat]]
      /\ ever \in [Sessions -> [Products -> Nat]]
  BY DEF StorefrontInv, CheckoutInvariant, Typed, CheckoutTypeOK,
         SessionsAreKnown, ClearCart, Committed, CartInv, CartTypeOK,
         ShopTypeOK
<1>2. /\ pc[r] = "committed" /\ pc' = [pc EXCEPT ![r] = "cleared"]
      /\ cart' = [cart EXCEPT ![session[r]] = EmptyCart]
      /\ UNCHANGED <<session, orderId, orders>>
  BY DEF ClearCart, DeleteCart
<1>3. StoppedForGood(s) => StoppedForGood(s)'
  BY <1>1, <1>2 DEF StoppedForGood
<1>4. ASSUME NEW p \in Products
      PROVE  /\ ever[s][p] <= ever'[s][p]
             /\ cart'[s][p] + ever[s][p] <= cart[s][p] + ever'[s][p]
             /\ session[r] = s => cart'[s][p] = 0
  BY <1>1, <1>2 DEF EmptyCart
<1>5. CASE session[r] # s
  <2>1. Clearing(s)' = Clearing(s)
    BY <1>1, <1>2, <1>5 DEF Clearing
  <2>. QED  BY <1>1, <1>2, <1>3, <1>4, <2>1, StaysCovered
<1>6. CASE session[r] = s /\ Clearing(s)'
  <2>1. Clearing(s)
    BY <1>1, <1>2, <1>6 DEF Clearing
  <2>. QED  BY <1>1, <1>2, <1>3, <1>4, <1>6, <2>1, StaysCovered
<1>7. CASE session[r] = s /\ ~Clearing(s)'
  BY <1>1, <1>2, <1>3, <1>4, <1>7, StaysCovered
<1>. QED  BY <1>5, <1>6, <1>7

\* What an HSET adds to a quiet cart is what was asked for.
LEMMA CartSideGains ==
    ASSUME StorefrontInv, Quiet, [StorefrontNext]_storefrontVars, CartSide,
           NEW s \in Sessions, s \notin disturbed, NEW p \in Products
    PROVE  /\ ever[s][p] <= ever'[s][p]
           /\ cart'[s][p] + ever[s][p] <= cart[s][p] + ever'[s][p]
<1>0. CheckoutInvariant /\ CartInv /\ CartInv'
  BY BothInvariantsStep DEF StorefrontInv
<1>1. /\ cart \in [Sessions -> [Products -> Nat]]
      /\ ever \in [Sessions -> [Products -> Nat]]
      /\ cart[s][p] \in Nat /\ ever[s][p] \in Nat
      /\ cart'[s][p] \in Nat /\ ever'[s][p] \in Nat
  BY <1>0 DEF CartInv, CartTypeOK, ShopTypeOK
<1>2. ever[s][p] <= ever'[s][p]
  BY <1>0, EverGrows
<1>3. CASE \A a \in Adds : AddWrite(a) => asks[a].session # s
  <2>1. cart'[s][p] <= cart[s][p]
    BY <1>0, <1>3, OnlyWritesAdd DEF CartSide
  <2>. QED  BY <1>1, <1>2, <2>1
<1>4. ASSUME NEW a \in Adds, AddWrite(a), asks[a].session = s
      PROVE  cart'[s][p] + ever[s][p] <= cart[s][p] + ever'[s][p]
  <2>1. PICK x \in Products, q \in Nat :
           x = asks[a].product /\ q = asks[a].quantity
    BY <1>0, <1>4, CartAssumption
       DEF CartInv, AsksAreKnown, Asks, AddWrite, CartAssumption
  <2>2. existing[a] = cart[s][x]
    BY <1>4, <2>1 DEF Quiet, FindsStand, AddWrite
  <2>3. /\ cart' = [cart EXCEPT ![s][x] = existing[a] + q]
        /\ ever' = [ever EXCEPT ![s][x] = @ + q]
    BY <1>4, <2>1 DEF AddWrite, NewQuantity
  <2>4. CASE x = p
    <3>1. cart'[s][p] = cart[s][p] + q /\ ever'[s][p] = ever[s][p] + q
      BY <1>1, <2>2, <2>3, <2>4
    <3>. QED  BY <1>1, <3>1
  <2>5. CASE x # p
    <3>1. cart'[s][p] = cart[s][p] /\ ever'[s][p] = ever[s][p]
      BY <1>1, <2>3, <2>5
    <3>. QED  BY <1>1, <3>1
  <2>. QED  BY <2>4, <2>5
<1>. QED  BY <1>2, <1>3, <1>4

LEMMA CoveredStep ==
    ASSUME StorefrontInv, Quiet, Sales, AllCovered,
           [StorefrontNext]_storefrontVars
    PROVE  AllCovered'
<1>. SUFFICES ASSUME NEW s \in Sessions PROVE Covered(s)'
  BY DEF AllCovered
<1>0. /\ CheckoutInvariant /\ CartInv /\ CartInv' /\ Covered(s)
      /\ disturbed \subseteq disturbed'
  BY BothInvariantsStep
     DEF StorefrontInv, AllCovered, StorefrontNext, Disturb, storefrontVars
<1>1. ASSUME NEW p \in Products
      PROVE  /\ cart[s][p] \in Nat /\ ever[s][p] \in Nat
             /\ ever[s][p] <= ever'[s][p]
  <2>1. ever[s][p] <= ever'[s][p]
    BY <1>0, EverGrows
  <2>. QED  BY <1>0, <2>1 DEF CartInv, CartTypeOK, ShopTypeOK
<1>2. CASE SettleCart
  BY <1>0, <1>2, ClearStaysCovered DEF SettleCart
<1>3. CASE CheckoutNext /\ UNCHANGED <<cart, cartVars>>
  <2>1. UNCHANGED <<cart, ever>>
    BY <1>3 DEF cartVars, askVars
  <2>2. ASSUME NEW r \in Requests, Commit(r) PROVE Covered(s)'
    BY <1>0, <2>1, <2>2, CommitStaysCovered
  <2>3. ASSUME NEW r \in Requests, ClearCart(r) PROVE Covered(s)'
    BY <1>0, <2>1, <2>3, ClearStaysCovered
  <2>4. CASE \A r \in Requests : ~Commit(r) /\ ~ClearCart(r)
    <3>1. /\ UNCHANGED orders
          /\ StoppedForGood(s) => StoppedForGood(s)'
          /\ StoppedForGood(s)' \/ Clearing(s)' = Clearing(s)
      BY <1>0, <1>3, <2>4, OthersKeepClearing
    <3>2. ASSUME NEW p \in Products
          PROVE  /\ ever[s][p] <= ever'[s][p]
                 /\ cart'[s][p] + ever[s][p] <= cart[s][p] + ever'[s][p]
      BY <1>1, <2>1
    <3>. QED  BY <1>0, <3>1, <3>2, StaysCovered
  <2>. QED  BY <2>2, <2>3, <2>4
<1>4. CASE CartSide
  <2>1. UNCHANGED <<orders, pc, session, orderId>>
    BY <1>4 DEF CartSide, checkoutVars, handlerVars
  <2>2. StoppedForGood(s)' = StoppedForGood(s) /\ Clearing(s)' = Clearing(s)
    BY <2>1 DEF StoppedForGood, Clearing
  <2>3. CASE s \in disturbed
    BY <1>0, <2>3 DEF Covered
  <2>4. CASE s \notin disturbed
    <3>1. ASSUME NEW p \in Products
          PROVE  /\ ever[s][p] <= ever'[s][p]
                 /\ cart'[s][p] + ever[s][p] <= cart[s][p] + ever'[s][p]
      BY <1>4, <2>4, CartSideGains
    <3>. QED  BY <1>0, <2>1, <2>2, <3>1, StaysCovered
  <2>. QED  BY <2>3, <2>4
<1>5. CASE UNCHANGED storefrontVars
  <2>1. UNCHANGED <<cart, ever, orders, pc, session, orderId>>
    BY <1>5 DEF storefrontVars, vars, shopVars, checkoutVars, handlerVars,
                cartVars, askVars
  <2>2. StoppedForGood(s)' = StoppedForGood(s) /\ Clearing(s)' = Clearing(s)
    BY <2>1 DEF StoppedForGood, Clearing
  <2>3. ASSUME NEW p \in Products
        PROVE  /\ ever[s][p] <= ever'[s][p]
               /\ cart'[s][p] + ever[s][p] <= cart[s][p] + ever'[s][p]
    BY <1>1, <2>1
  <2>. QED  BY <1>0, <2>1, <2>2, <2>3, StaysCovered
<1>. QED  BY <1>2, <1>3, <1>4, <1>5 DEF StorefrontNext, CheckoutSide

LEMMA CoveredInit == StorefrontInit => Sales /\ AllCovered
<1>. SUFFICES ASSUME StorefrontInit PROVE Sales /\ AllCovered
  OBVIOUS
<1>1. Sales
  BY SalesInit DEF StorefrontInit
<1>2. ASSUME NEW s \in Sessions, NEW p \in Products
      PROVE  /\ OrderedBy(s, p) + (IF Clearing(s) THEN 0 ELSE cart[s][p])
                  <= ever[s][p]
  <2>1. UnitsOrdered(OrdersOf(s), p) = {}
    BY DEF StorefrontInit, CheckoutInit, UnitsOrdered, OrdersOf
  <2>2. OrderedBy(s, p) = 0
    BY <2>1, FS_EmptySet DEF OrderedBy
  <2>3. ever = cart /\ CartInv
    BY StorefrontInvInit DEF StorefrontInit, CartInit, StorefrontInv
  <2>4. cart[s][p] \in Nat
    BY <2>3 DEF CartInv, CartTypeOK, ShopTypeOK
  <2>. QED  BY <2>2, <2>3, <2>4
<1>. QED  BY <1>1, <1>2 DEF AllCovered, Covered

-----------------------------------------------------------------------------
(* Theorems                                                                *)

\* The invariant of carts and checkouts over the same stores.
THEOREM StorefrontInvariance == StorefrontSpec => []StorefrontInv
<1>1. StorefrontInv /\ [StorefrontNext]_storefrontVars => StorefrontInv'
  BY BothInvariantsStep, ReadsWereAskedStep, OrdersWereAskedStep,
     AddsApartStep, ReadsStandStep
     DEF StorefrontInv
<1>. QED  BY <1>1, StorefrontInvInit, PTL DEF StorefrontSpec

\* No order has more of a product than was ever put into the carts of its
\* session, whatever happens to the cart while its checkout runs
\* (orders.py:66-71).
THEOREM OrdersStayWithinAsked == StorefrontSpec => []OrdersWereAsked
<1>1. StorefrontInv => OrdersWereAsked
  BY DEF StorefrontInv
<1>. QED  BY <1>1, StorefrontInvariance, PTL

\* Adds, removals, expiries and evictions beside the checkouts do not touch
\* the books: no unit is sold twice (orders.py:90-125).
THEOREM StorefrontNoOversell == StorefrontSpec => []BooksBalance
<1>1. StorefrontInv => BooksBalance
  BY DEF StorefrontInv, CheckoutInvariant, Books
<1>. QED  BY <1>1, StorefrontInvariance, PTL

\* Nor do checkouts make a cart that never expires: a cart without a TTL is
\* the work of an add between HSET and EXPIRE (cart.py:126-130).
THEOREM StorefrontUntimedOnlyMidAdd == StorefrontSpec => []UntimedOnlyMidAdd
<1>1. StorefrontInv => UntimedOnlyMidAdd
  BY DEF StorefrontInv, CartInv
<1>. QED  BY <1>1, StorefrontInvariance, PTL

\* "Remove the cart from Redis - it has been fulfilled" (orders.py:159): in a
\* session whose requests never overlap, the DEL removes nothing but what has
\* been ordered.
THEOREM UndisturbedCartsAreFulfilled == StorefrontSpec => ClearedMeansFulfilled
<1>1. StorefrontInv
        => [\A r \in Requests :
              pc[r] = "committed" /\ pc'[r] = "cleared"
                                 /\ session[r] \notin disturbed
                => \A p \in Products : cart[session[r]][p] <= rawCart[r][p]
           ]_storefrontVars
  BY DEF StorefrontInv, ReadsStand
<1>. QED
  BY <1>1, StorefrontInvariance, PTL DEF StorefrontSpec, ClearedMeansFulfilled

\* With carts that change at any time, checkouts still implement the abstract
\* inventory of indivisible purchases.
THEOREM StorefrontImplementsInventory == StorefrontSpec => ImplementsInventory
<1>1. StorefrontInit => Inventory!Init
  BY InitRefines DEF StorefrontInit
<1>2. /\ StorefrontInv /\ StorefrontInv' /\ [StorefrontNext]_storefrontVars
      => [Inventory!Next]_(Inventory!inventoryVars)
  <2>. SUFFICES ASSUME StorefrontInv, StorefrontInv',
                       [StorefrontNext]_storefrontVars
                PROVE  [Inventory!Next]_(Inventory!inventoryVars)
    OBVIOUS
  <2>0. CheckoutInvariant /\ CheckoutInvariant' /\ CartInv
    BY DEF StorefrontInv
  <2>1. CASE CheckoutSide
    BY <2>0, <2>1, StepRefines, CheckoutSideIsCheckout
  <2>2. CASE CartSide
    <3>1. UNCHANGED <<row, stock>>
      BY <2>0, <2>2, CartStepBounds DEF CartSide
    <3>. QED
      BY <2>2, <3>1
         DEF CartSide, checkoutVars, historyVars, Inventory!inventoryVars
  <2>3. CASE UNCHANGED storefrontVars
    BY <2>3
       DEF storefrontVars, vars, shopVars, checkoutVars, historyVars,
           Inventory!inventoryVars
  <2>. QED  BY <2>1, <2>2, <2>3 DEF StorefrontNext
<1>. QED
  BY <1>1, <1>2, StorefrontInvariance, PTL
     DEF StorefrontSpec, ImplementsInventory, Inventory!Spec

\* A customer whose requests never overlap pays once: unless a checkout of the
\* session stands, or was stopped, between its commit and its answer, orders
\* and cart together have no more units than were put into the carts
\* (orders.py:66-71 and 159-160, cart.py:119-127).
THEOREM QuietCustomersPayOnce == StorefrontSpec => []PaidOnce
<1>. DEFINE Inv == StorefrontInv /\ Quiet /\ Sales /\ AllCovered
<1>1. StorefrontInit => Inv
  BY StorefrontInvInit, QuietInit, CoveredInit
<1>2. Inv /\ [StorefrontNext]_storefrontVars => Inv'
  <2>1. Inv /\ [StorefrontNext]_storefrontVars => StorefrontInv'
    BY BothInvariantsStep, ReadsWereAskedStep, OrdersWereAskedStep,
       AddsApartStep, ReadsStandStep
       DEF StorefrontInv
  <2>2. Inv /\ [StorefrontNext]_storefrontVars => Quiet' /\ Sales'
    BY QuietStep, SalesStay DEF StorefrontInv
  <2>3. Inv /\ [StorefrontNext]_storefrontVars => AllCovered'
    BY CoveredStep
  <2>. QED  BY <2>1, <2>2, <2>3
<1>3. Inv => PaidOnce
  <2>. SUFFICES ASSUME AllCovered, NEW s \in Sessions \ disturbed,
                       ~StoppedAfterCommit(s), NEW p \in Products
                PROVE  OrderedBy(s, p) + cart[s][p] <= ever[s][p]
    BY DEF PaidOnce
  <2>1. ~StoppedForGood(s) /\ ~Clearing(s)
    BY DEF StoppedAfterCommit, StoppedForGood, Clearing
  <2>. QED  BY <2>1 DEF AllCovered, Covered
<1>. QED  BY <1>1, <1>2, <1>3, PTL DEF StorefrontSpec
=============================================================================
