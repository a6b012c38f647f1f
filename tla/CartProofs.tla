----------------------------- MODULE CartProofs -----------------------------
(***************************************************************************)
(* Theorems about Cart.tla, for every set of products, sessions and add    *)
(* requests, every quantity asked for and every limit of the rate limiter. *)
(***************************************************************************)
EXTENDS Cart, TLAPS

-----------------------------------------------------------------------------
(* The inductive invariant                                                 *)

\* Whoever has passed the limiter has named a session and a product.
AsksAreKnown == \A a \in Adds : step[a] # "unsent" => asks[a] \in Asks

\* What HGET found was asked for, although the cart may have changed since.
ReadsAreBounded ==
    \A a \in Adds :
        step[a] = "read" =>
            existing[a] <= ever[asks[a].session][asks[a].product]

CartInv ==
    /\ CartTypeOK
    /\ AsksAreKnown
    /\ UntimedOnlyMidAdd
    /\ NothingInvented
    /\ ReadsAreBounded

LEMMA EmptyCartIsCart == EmptyCart \in [Products -> Nat]
BY DEF EmptyCart

\* Carts that have their TTL, and no request yet.
LEMMA CartInvInit ==
    ASSUME ShopTypeOK, CartInit,
           expiring = {s \in Sessions : cart[s] # EmptyCart}
    PROVE  CartInv
<1>. USE DEF ShopTypeOK, CartInit
<1>1. CartTypeOK
  BY DEF CartTypeOK, AddSteps
<1>2. AsksAreKnown /\ ReadsAreBounded
  BY DEF AsksAreKnown, ReadsAreBounded
<1>3. UntimedOnlyMidAdd
  BY DEF UntimedOnlyMidAdd
<1>4. NothingInvented
  BY DEF NothingInvented
<1>. QED  BY <1>1, <1>2, <1>3, <1>4 DEF CartInv

\* The limiter: nothing but its counter and the place of the request.
LEMMA LimiterKeeps ==
    ASSUME CartInv, NEW a \in Adds, AddCount(a) \/ AddOpenWindow(a)
    PROVE  CartInv'
<1>. USE DEF CartInv, shopVars, askVars
<1>1. CASE AddCount(a)
  <2>1. PICK ask \in Asks :
           /\ step[a] = "unsent"
           /\ asks' = [asks EXCEPT ![a] = ask]
           /\ hits' = hits + 1
           /\ step' = [step EXCEPT ![a] =
                 CASE hits = 0 -> "first"
                   [] hits \in 1 .. (MaxRequests - 1) -> "counted"
                   [] OTHER -> "refused"]
           /\ UNCHANGED <<row, stock, cart, expiring, existing, windowed,
                          asked, ever>>
    BY <1>1 DEF AddCount
  <2>2. step'[a] \in {"first", "counted", "refused"}
    BY <2>1 DEF CartTypeOK
  <2>3. step' = [step EXCEPT ![a] = step'[a]]
    BY <2>1 DEF CartTypeOK
  <2>4. \A b \in Adds \ {a} : step'[b] = step[b] /\ asks'[b] = asks[b]
    BY <2>1, <2>3 DEF CartTypeOK
  <2>5. CartTypeOK'
    BY <2>1, <2>2, <2>3
       DEF CartTypeOK, ShopTypeOK, AddSteps, AddInFlight, Limited
  <2>6. AsksAreKnown'
    BY <2>1, <2>4 DEF AsksAreKnown, CartTypeOK
  <2>7. UntimedOnlyMidAdd'
    BY <2>1, <2>4 DEF UntimedOnlyMidAdd
  <2>8. NothingInvented' /\ ReadsAreBounded'
    BY <2>1, <2>2, <2>4 DEF NothingInvented, ReadsAreBounded
  <2>. QED  BY <2>5, <2>6, <2>7, <2>8
<1>2. CASE AddOpenWindow(a)
  <2>1. /\ step[a] = "first" /\ step' = [step EXCEPT ![a] = "counted"]
        /\ windowed' = (hits > 0)
        /\ UNCHANGED <<row, stock, cart, expiring, asks, existing, hits,
                       asked, ever>>
    BY <1>2 DEF AddOpenWindow, OpenWindow
  <2>2. \A b \in Adds \ {a} : step'[b] = step[b]
    BY <2>1 DEF CartTypeOK
  <2>3. CartTypeOK'
    BY <2>1 DEF CartTypeOK, ShopTypeOK, AddSteps, AddInFlight, Limited
  <2>4. AsksAreKnown' /\ NothingInvented' /\ ReadsAreBounded'
    BY <2>1, <2>2
       DEF AsksAreKnown, NothingInvented, ReadsAreBounded, CartTypeOK
  <2>5. UntimedOnlyMidAdd'
    BY <2>1, <2>2 DEF UntimedOnlyMidAdd
  <2>. QED  BY <2>3, <2>4, <2>5
<1>. QED  BY <1>1, <1>2

\* The product check and HGET change nothing but the request's own place.
LEMMA CheckAndReadKeep ==
    ASSUME CartInv, NEW a \in Adds, AddCheck(a) \/ AddRead(a)
    PROVE  CartInv'
<1>. USE DEF CartInv, shopVars, askVars, limiterVars
<1>1. CASE AddCheck(a)
  <2>1. /\ step[a] = "counted"
        /\ step' = [step EXCEPT ![a] = step'[a]]
        /\ step'[a] \in {"checked", "refused"}
        /\ UNCHANGED <<row, stock, cart, expiring, asks, existing, hits,
                       windowed, asked, ever>>
    BY <1>1 DEF AddCheck, CartTypeOK
  <2>2. \A b \in Adds \ {a} : step'[b] = step[b]
    BY <2>1 DEF CartTypeOK
  <2>3. CartTypeOK'
    BY <2>1 DEF CartTypeOK, ShopTypeOK, AddSteps, AddInFlight
  <2>4. AsksAreKnown' /\ NothingInvented' /\ ReadsAreBounded'
    BY <2>1, <2>2 DEF AsksAreKnown, NothingInvented, ReadsAreBounded
  <2>5. UntimedOnlyMidAdd'
    BY <2>1, <2>2 DEF UntimedOnlyMidAdd
  <2>. QED  BY <2>3, <2>4, <2>5
<1>2. CASE AddRead(a)
  <2>. DEFINE s == asks[a].session
              p == asks[a].product
  <2>1. /\ step[a] = "checked" /\ step' = [step EXCEPT ![a] = "read"]
        /\ existing' = [existing EXCEPT ![a] = cart[s][p]]
        /\ UNCHANGED <<row, stock, cart, expiring, asks, hits, windowed,
                       asked, ever>>
    BY <1>2 DEF AddRead
  <2>2. s \in Sessions /\ p \in Products
    BY <2>1 DEF AsksAreKnown, Asks
  <2>3. cart[s][p] \in Nat /\ cart[s][p] <= ever[s][p]
    BY <2>2 DEF CartTypeOK, ShopTypeOK, NothingInvented
  <2>4. \A b \in Adds \ {a} : step'[b] = step[b] /\ existing'[b] = existing[b]
    BY <2>1 DEF CartTypeOK
  <2>5. CartTypeOK'
    BY <2>1, <2>3 DEF CartTypeOK, ShopTypeOK, AddSteps, AddInFlight
  <2>6. AsksAreKnown' /\ NothingInvented'
    BY <2>1, <2>4 DEF AsksAreKnown, NothingInvented
  <2>7. ReadsAreBounded'
    BY <2>1, <2>3, <2>4 DEF ReadsAreBounded, CartTypeOK
  <2>8. UntimedOnlyMidAdd'
    BY <2>1, <2>4 DEF UntimedOnlyMidAdd
  <2>. QED  BY <2>5, <2>6, <2>7, <2>8
<1>. QED  BY <1>1, <1>2

\* HSET puts in at most what was read plus what is asked for, and makes the
\* request the reason why the cart may lack a TTL.
LEMMA WriteKeeps ==
    ASSUME CartInv, NEW a \in Adds, AddWrite(a)
    PROVE  CartInv'
<1>. USE DEF CartInv, limiterVars
<1>. DEFINE s == asks[a].session
            p == asks[a].product
            q == asks[a].quantity
<1>1. /\ step[a] = "read" /\ step' = [step EXCEPT ![a] = "written"]
      /\ cart' = [cart EXCEPT ![s][p] = existing[a] + q]
      /\ asked' = [asked EXCEPT ![s][p] = @ + q]
      /\ ever' = [ever EXCEPT ![s][p] = @ + q]
      /\ UNCHANGED <<row, stock, expiring, asks, existing, hits, windowed>>
  BY DEF AddWrite, NewQuantity
<1>2. s \in Sessions /\ p \in Products /\ q \in Nat
  BY <1>1, CartAssumption DEF AsksAreKnown, Asks, CartAssumption
<1>3. /\ existing[a] \in Nat
      /\ existing[a] + q <= ever[s][p] + q
  <2>1. existing[a] \in Nat /\ ever[s][p] \in Nat
    BY <1>2 DEF CartTypeOK
  <2>2. existing[a] <= ever[s][p]
    BY <1>1 DEF ReadsAreBounded
  <2>. QED  BY <2>1, <2>2, <1>2
<1>4. /\ \A t \in Sessions, x \in Products :
           /\ ever[t][x] <= ever'[t][x]
           /\ <<t, x>> # <<s, p>> => cart'[t][x] = cart[t][x]
      /\ cart'[s][p] = existing[a] + q
      /\ ever'[s][p] = ever[s][p] + q
      /\ \A t \in Sessions \ {s} : cart'[t] = cart[t]
  BY <1>1, <1>2 DEF CartTypeOK, ShopTypeOK
<1>5. \A b \in Adds \ {a} : step'[b] = step[b]
  BY <1>1 DEF CartTypeOK
<1>6. CartTypeOK'
  BY <1>1, <1>2, <1>3 DEF CartTypeOK, ShopTypeOK, AddSteps, AddInFlight
<1>7. AsksAreKnown'
  BY <1>1, <1>5 DEF AsksAreKnown
<1>8. NothingInvented'
  <2>. SUFFICES ASSUME NEW t \in Sessions, NEW x \in Products
                PROVE  cart'[t][x] <= ever'[t][x]
    BY DEF NothingInvented
  <2>1. CASE <<t, x>> = <<s, p>>
    BY <2>1, <1>3, <1>4
  <2>2. CASE <<t, x>> # <<s, p>>
    <3>1. cart[t][x] <= ever[t][x] /\ cart[t][x] \in Nat /\ ever[t][x] \in Nat
      BY DEF NothingInvented, CartTypeOK, ShopTypeOK
    <3>2. ever'[t][x] \in Nat
      BY <1>6 DEF CartTypeOK
    <3>. QED  BY <2>2, <3>1, <3>2, <1>4
  <2>. QED  BY <2>1, <2>2
<1>9. ReadsAreBounded'
  <2>. SUFFICES ASSUME NEW b \in Adds, step'[b] = "read"
                PROVE  existing[b] <= ever'[asks[b].session][asks[b].product]
    BY <1>1 DEF ReadsAreBounded
  <2>. DEFINE t == asks[b].session
              x == asks[b].product
  <2>1. b # a
    BY <1>1 DEF CartTypeOK
  <2>2. t \in Sessions /\ x \in Products /\ existing[b] <= ever[t][x]
    BY <2>1, <1>5 DEF AsksAreKnown, Asks, ReadsAreBounded
  <2>3. ever[t][x] \in Nat /\ ever'[t][x] \in Nat /\ existing[b] \in Nat
    BY <2>2, <1>6 DEF CartTypeOK
  <2>. QED  BY <2>2, <2>3, <1>4
<1>10. UntimedOnlyMidAdd'
  <2>. SUFFICES ASSUME NEW t \in Sessions, cart'[t] # EmptyCart,
                       t \notin expiring
                PROVE  \E b \in Adds : /\ step'[b] \in {"written", "untimed"}
                                       /\ asks[b].session = t
    BY <1>1 DEF UntimedOnlyMidAdd
  <2>1. CASE t = s
    BY <2>1, <1>1 DEF CartTypeOK
  <2>2. CASE t # s
    <3>1. PICK b \in Adds : /\ step[b] \in {"written", "untimed"}
                            /\ asks[b].session = t
      BY <2>2, <1>4 DEF UntimedOnlyMidAdd
    <3>2. b # a
      BY <3>1, <1>1
    <3>. QED  BY <3>1, <3>2, <1>5
  <2>. QED  BY <2>1, <2>2
<1>. QED  BY <1>6, <1>7, <1>8, <1>9, <1>10

\* EXPIRE: the cart has its TTL, or is gone, and the request is no reason any
\* more; a handler that stops before it stays a reason.
LEMMA ExpireAndAbortKeep ==
    ASSUME CartInv, NEW a \in Adds, AddExpire(a) \/ AddAbort(a)
    PROVE  CartInv'
<1>. USE DEF CartInv, shopVars, askVars, limiterVars
<1>1. /\ step' = [step EXCEPT ![a] = step'[a]]
      /\ step'[a] \in {"added", "failed", "cut", "untimed"}
      /\ step[a] # "unsent"
      /\ UNCHANGED <<row, stock, cart, asks, existing, hits, windowed, asked,
                     ever>>
  BY DEF AddExpire, AddAbort, Stop, AddInFlight, Limited, CartTypeOK
<1>2. \A b \in Adds \ {a} : step'[b] = step[b]
  BY <1>1 DEF CartTypeOK
<1>3. expiring' \in SUBSET Sessions
  <2>1. CASE AddExpire(a)
    <3>1. asks[a].session \in Sessions
      BY <1>1 DEF AsksAreKnown, Asks
    <3>. QED  BY <2>1, <3>1 DEF AddExpire, SetTTL, CartTypeOK, ShopTypeOK
  <2>2. CASE AddAbort(a)
    BY <2>2 DEF AddAbort, CartTypeOK, ShopTypeOK
  <2>. QED  BY <2>1, <2>2
<1>4. CartTypeOK'
  BY <1>1, <1>3 DEF CartTypeOK, ShopTypeOK, AddSteps
<1>5. AsksAreKnown' /\ NothingInvented' /\ ReadsAreBounded'
  BY <1>1, <1>2 DEF AsksAreKnown, NothingInvented, ReadsAreBounded
<1>6. UntimedOnlyMidAdd'
  <2>. SUFFICES ASSUME NEW t \in Sessions, cart[t] # EmptyCart,
                       t \notin expiring'
                PROVE  \E b \in Adds : /\ step'[b] \in {"written", "untimed"}
                                       /\ asks[b].session = t
    BY <1>1 DEF UntimedOnlyMidAdd
  <2>1. t \notin expiring
    BY DEF AddExpire, SetTTL, AddAbort
  <2>2. PICK b \in Adds : /\ step[b] \in {"written", "untimed"}
                          /\ asks[b].session = t
    BY <2>1 DEF UntimedOnlyMidAdd
  <2>3. CASE b # a
    BY <2>2, <2>3, <1>2
  <2>4. CASE b = a /\ AddExpire(a)
    BY <2>2, <2>4 DEF AddExpire, SetTTL
  <2>5. CASE b = a /\ AddAbort(a)
    BY <2>2, <2>5 DEF AddAbort, Stop, AddInFlight, Limited, CartTypeOK
  <2>. QED  BY <2>3, <2>4, <2>5
<1>. QED  BY <1>4, <1>5, <1>6

\* A cart that goes as a whole, by DEL, TTL or eviction, takes its TTL along.
LEMMA DropKeeps ==
    ASSUME CartInv, NEW s \in Sessions, DeleteCart(s),
           asked' \in [Sessions -> [Products -> Nat]],
           row' \in [Products -> RowStates], stock' \in [Products -> Int],
           UNCHANGED <<addVars, ever>>
    PROVE  CartInv'
<1>. USE EmptyCartIsCart DEF CartInv, addVars, limiterVars, DeleteCart
<1>1. CartTypeOK'
  BY DEF CartTypeOK, ShopTypeOK
<1>2. AsksAreKnown' /\ ReadsAreBounded'
  BY DEF AsksAreKnown, ReadsAreBounded
<1>3. NothingInvented'
  BY DEF NothingInvented, CartTypeOK, ShopTypeOK, EmptyCart
<1>4. UntimedOnlyMidAdd'
  BY DEF UntimedOnlyMidAdd, CartTypeOK, ShopTypeOK
<1>. QED  BY <1>1, <1>2, <1>3, <1>4

LEMMA RemoveKeeps ==
    ASSUME CartInv, NEW s \in Sessions, NEW p \in Products, RemoveItem(s, p)
    PROVE  CartInv'
<1>. USE DEF CartInv, addVars, limiterVars, RemoveItem
<1>1. CartTypeOK'
  BY DEF CartTypeOK, ShopTypeOK
<1>2. AsksAreKnown' /\ ReadsAreBounded'
  BY DEF AsksAreKnown, ReadsAreBounded
<1>3. NothingInvented'
  BY DEF NothingInvented, CartTypeOK, ShopTypeOK
<1>4. cart[s] # EmptyCart
  BY DEF Lines, EmptyCart
<1>5. UntimedOnlyMidAdd'
  BY <1>4 DEF UntimedOnlyMidAdd, CartTypeOK, ShopTypeOK
<1>. QED  BY <1>1, <1>2, <1>3, <1>5

LEMMA CounterKeeps ==
    ASSUME CartInv, DropCounter
    PROVE  CartInv'
BY DEF CartInv, DropCounter, shopVars, askVars, CartTypeOK, ShopTypeOK,
       AsksAreKnown, UntimedOnlyMidAdd, NothingInvented, ReadsAreBounded

\* The invariant depends on the stores and the add requests only; and the key
\* of an empty cart, which is not there, may lose the TTL that it has not.
LEMMA StutterKeeps ==
    ASSUME CartInv, UNCHANGED <<cart, cartVars>>,
           row' \in [Products -> RowStates], stock' \in [Products -> Int],
           expiring' \in SUBSET Sessions,
           \A s \in expiring \ expiring' : cart[s] = EmptyCart
    PROVE  CartInv'
<1>. USE DEF CartInv, cartVars, addVars, askVars, limiterVars
<1>1. CartTypeOK'
  BY DEF CartTypeOK, ShopTypeOK
<1>2. AsksAreKnown' /\ ReadsAreBounded' /\ NothingInvented'
  BY DEF AsksAreKnown, ReadsAreBounded, NothingInvented
<1>3. UntimedOnlyMidAdd'
  BY DEF UntimedOnlyMidAdd
<1>. QED  BY <1>1, <1>2, <1>3

LEMMA CartInvStep == CartInv /\ [CartStep]_<<shopVars, cartVars>> => CartInv'
<1>. SUFFICES ASSUME CartInv, [CartStep]_<<shopVars, cartVars>> PROVE CartInv'
  OBVIOUS
<1>1. ASSUME NEW a \in Adds, AddStep(a) \/ AddAbort(a) PROVE CartInv'
  BY <1>1, LimiterKeeps, CheckAndReadKeep, WriteKeeps, ExpireAndAbortKeep
     DEF AddStep
<1>2. CASE WindowEnds \/ EvictCounter
  BY <1>2, CounterKeeps DEF WindowEnds, EvictCounter
<1>3. ASSUME NEW s \in Sessions, NEW p \in Products, RemoveItem(s, p)
      PROVE  CartInv'
  BY <1>3, RemoveKeeps
<1>4. ASSUME NEW s \in Sessions, DropCart(s) PROVE CartInv'
  <2>1. asked' \in [Sessions -> [Products -> Nat]]
    BY <1>4, EmptyCartIsCart DEF DropCart, CartInv, CartTypeOK
  <2>2. row' \in [Products -> RowStates] /\ stock' \in [Products -> Int]
    BY <1>4 DEF DropCart, CartInv, CartTypeOK, ShopTypeOK
  <2>. QED  BY <1>4, <2>1, <2>2, DropKeeps DEF DropCart
<1>5. CASE UNCHANGED <<shopVars, cartVars>>
  <2>1. UNCHANGED <<row, stock, cart, expiring, cartVars>>
    BY <1>5 DEF shopVars
  <2>2. /\ row' \in [Products -> RowStates] /\ stock' \in [Products -> Int]
        /\ expiring' \in SUBSET Sessions
    BY <2>1 DEF CartInv, CartTypeOK, ShopTypeOK
  <2>. QED  BY <2>1, <2>2, StutterKeeps
<1>. QED
  BY <1>1, <1>2, <1>3, <1>4, <1>5
     DEF CartStep, ClearWholeCart, ExpireCart, EvictCart

-----------------------------------------------------------------------------
(* Theorems                                                                *)

\* The invariant of the cart endpoints (cart.py:56-136, 194-214).
THEOREM CartInvariance == CartSpec => []CartInv
<1>1. CartStart => CartInv
  <2>. SUFFICES ASSUME CartStart PROVE CartInv
    OBVIOUS
  <2>1. ShopTypeOK
    <3>1. Amounts \cup {0} \subseteq Nat
      BY CartAssumption DEF CartAssumption
    <3>2. [Products -> Amounts \cup {0}] \subseteq [Products -> Nat]
      BY <3>1
    <3>3. cart \in [Sessions -> [Products -> Nat]]
      BY <3>2 DEF CartStart, ShopInit
    <3>4. stock \in [Products -> Int]
      <4>1. stock \in [Products -> Amounts \cup {0}]
        BY DEF CartStart, ShopInit
      <4>2. Amounts \cup {0} \subseteq Int
        BY <3>1
      <4>. QED  BY <4>1, <4>2
    <3>. QED  BY <3>3, <3>4 DEF CartStart, ShopInit, ShopTypeOK, RowStates
  <2>. QED  BY <2>1, CartInvInit DEF CartStart, ShopInit
<1>. QED  BY <1>1, CartInvStep, PTL DEF CartSpec

\* Every variable of the endpoints and the limiter keeps its type.
THEOREM CartTypeCorrect == CartSpec => []CartTypeOK
<1>1. CartInv => CartTypeOK
  BY DEF CartInv
<1>. QED  BY <1>1, CartInvariance, PTL

\* For any number of overlapping adds, removals, clears, expiries and
\* evictions: a cart without a TTL is the work of an add that is, or was
\* stopped, between HSET and EXPIRE (cart.py:126-130).
THEOREM OnlyAddsLeaveCartsUntimed == CartSpec => []UntimedOnlyMidAdd
<1>1. CartInv => UntimedOnlyMidAdd
  BY DEF CartInv
<1>. QED  BY <1>1, CartInvariance, PTL

\* Lost updates lose: they never put more into a cart than was asked for
\* (cart.py:119-127).
THEOREM CartsInventNothing == CartSpec => []NothingInvented
<1>1. CartInv => NothingInvented
  BY DEF CartInv
<1>. QED  BY <1>1, CartInvariance, PTL
=============================================================================
