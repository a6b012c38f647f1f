-------------------------------- MODULE Cart --------------------------------
(***************************************************************************)
(* The cart endpoints (app/routers/cart.py) over the hashes of Shop.tla.   *)
(* Adding an item is five or six awaits against two stores with nothing    *)
(* that holds them together: INCR (and EXPIRE) of the rate limiter, read   *)
(* the product, HGET, HSET, EXPIRE.  Removing and clearing are one command *)
(* each.  GET /cart only reads.  All the adds come from one address: the   *)
(* limiter's counters of two addresses have nothing in common.             *)
(*                                                                         *)
(* Valkey may drop a cart on its own: when its TTL is over, and, under the *)
(* allkeys-lru policy of embr.yaml:76-82, when memory is short.            *)
(***************************************************************************)
EXTENDS Shop

CONSTANTS
    Adds,           \* POST /cart/{session}/items requests, each sent once
    Amounts,        \* quantities a customer asks for (CartItem: > 0)
    MaxRequests,    \* RATE_LIMIT_MAX_REQUESTS, per window
    NoAdd           \* the contents of a request that was not sent yet

ASSUME CartAssumption ==
    /\ Amounts \subseteq Nat \ {0}
    /\ MaxRequests \in Nat \ {0}

VARIABLES
    step,           \* step[a]: where the handler of a stands
    asks,           \* asks[a]: session, product and quantity of a
    existing,       \* existing[a]: existing_quantity, as HGET found it
    hits,           \* the limiter's counter; 0 stands for no key
    windowed,       \* has that key a TTL?
    asked,          \* history: asked[s][p], what adds minus removals come to
    ever            \* history: ever[s][p], all that was ever asked for

limiterVars == <<hits, windowed>>
addVars == <<step, asks, existing, limiterVars>>
askVars == <<asked, ever>>
cartVars == <<addVars, askVars>>

Limited == {"first", "counted"}
AddInFlight == {"checked", "read", "written"} \cup Limited
AddSteps == {"unsent", "added", "refused", "failed", "cut", "untimed"}
            \cup AddInFlight

Asks == [session : Sessions, product : Products, quantity : Amounts]

CartTypeOK ==
    /\ ShopTypeOK
    /\ step \in [Adds -> AddSteps]
    /\ asks \in [Adds -> Asks \cup {NoAdd}]
    /\ existing \in [Adds -> Nat]
    /\ hits \in Nat
    /\ windowed \in BOOLEAN
    /\ windowed => hits > 0
    /\ asked \in [Sessions -> [Products -> Nat]]
    /\ ever \in [Sessions -> [Products -> Nat]]

CartInit ==
    /\ step = [a \in Adds |-> "unsent"]
    /\ asks = [a \in Adds |-> NoAdd]
    /\ existing = [a \in Adds |-> 0]
    /\ hits = 0
    /\ windowed = FALSE
    /\ asked = cart
    /\ ever = cart

-----------------------------------------------------------------------------
(* POST /cart/{session_id}/items                                           *)

\* INCR, which keeps a TTL that is there.  The first of a window has yet to
\* set it; whoever is over the limit gets a 429.
AddCount(a) ==
    \E ask \in Asks :
        /\ step[a] = "unsent"
        /\ asks' = [asks EXCEPT ![a] = ask]
        /\ hits' = hits + 1
        /\ step' = [step EXCEPT ![a] =
              CASE hits = 0 -> "first"
                [] hits \in 1 .. (MaxRequests - 1) -> "counted"
                [] OTHER -> "refused"]
        /\ UNCHANGED <<shopVars, existing, windowed, askVars>>

\* Mutant: the EXPIRE of the counter is forgotten.
OpenWindowForgotten == UNCHANGED windowed

\* EXPIRE rate_key; nothing happens if the key has been evicted meanwhile.
OpenWindow == windowed' = (hits > 0)

AddOpenWindow(a) ==
    /\ step[a] = "first"
    /\ OpenWindow
    /\ step' = [step EXCEPT ![a] = "counted"]
    /\ UNCHANGED <<shopVars, asks, existing, hits, askVars>>

\* db.get: 404 without a row, 400 with fewer units than asked for.  Only this
\* request's quantity is compared, not what the cart already holds.
AddCheck(a) ==
    LET ask == asks[a]
    IN  /\ step[a] = "counted"
        /\ step' = [step EXCEPT ![a] =
              IF /\ row[ask.product] = "live"
                 /\ ask.quantity <= stock[ask.product]
              THEN "checked" ELSE "refused"]
        /\ UNCHANGED <<shopVars, asks, existing, limiterVars, askVars>>

\* HGET; a missing field counts as 0.
AddRead(a) ==
    /\ step[a] = "checked"
    /\ existing' =
          [existing EXCEPT ![a] = cart[asks[a].session][asks[a].product]]
    /\ step' = [step EXCEPT ![a] = "read"]
    /\ UNCHANGED <<shopVars, asks, limiterVars, askVars>>

\* Mutant: the quantity is counted twice.
NewQuantityDoubled(a) == existing[a] + 2 * asks[a].quantity

NewQuantity(a) == existing[a] + asks[a].quantity

\* HSET.  It creates the key if there is none, and then without a TTL.
AddWrite(a) ==
    LET s == asks[a].session
        p == asks[a].product
        q == asks[a].quantity
    IN  /\ step[a] = "read"
        /\ cart' = [cart EXCEPT ![s][p] = NewQuantity(a)]
        /\ asked' = [asked EXCEPT ![s][p] = @ + q]
        /\ ever' = [ever EXCEPT ![s][p] = @ + q]
        /\ step' = [step EXCEPT ![a] = "written"]
        /\ UNCHANGED <<row, stock, expiring, asks, existing, limiterVars>>

\* Mutant: the EXPIRE is forgotten.
SetTTLForgotten(s) == UNCHANGED expiring

\* EXPIRE starts the 24 hours again; on a key that is gone it does nothing.
SetTTL(s) ==
    expiring' = IF cart[s] = EmptyCart THEN expiring ELSE expiring \cup {s}

AddExpire(a) ==
    /\ step[a] = "written"
    /\ SetTTL(asks[a].session)
    /\ step' = [step EXCEPT ![a] = "added"]
    /\ UNCHANGED <<row, stock, cart, asks, existing, limiterVars, askVars>>

AddStep(a) ==
    \/ AddCount(a) \/ AddOpenWindow(a) \/ AddCheck(a)
    \/ AddRead(a) \/ AddWrite(a) \/ AddExpire(a)

\* What was written stays written: "cut" stands for a counter, and "untimed"
\* for a cart, whose EXPIRE was never sent.
Stop(at) ==
    CASE at = "first" -> "cut"
      [] at = "written" -> "untimed"
      [] OTHER -> "failed"

\* An exception at an await, or the end of the process.
AddAbort(a) ==
    /\ step[a] \in AddInFlight
    /\ step' = [step EXCEPT ![a] = Stop(@)]
    /\ UNCHANGED <<shopVars, asks, existing, limiterVars, askVars>>

-----------------------------------------------------------------------------
(* The other endpoints, and Valkey itself                                  *)

\* HDEL of one field.  The key goes with its last field; otherwise its TTL
\* keeps running: a removal does not restart the 24 hours.
RemoveItem(s, p) ==
    /\ p \in Lines(cart[s])
    /\ cart' = [cart EXCEPT ![s][p] = 0]
    /\ expiring' = IF cart'[s] = EmptyCart THEN expiring \ {s} ELSE expiring
    /\ asked' = [asked EXCEPT ![s][p] = 0]
    /\ UNCHANGED <<row, stock, addVars, ever>>

\* The key goes as a whole, and with it all that was asked for.
DropCart(s) ==
    /\ DeleteCart(s)
    /\ asked' = [asked EXCEPT ![s] = EmptyCart]
    /\ UNCHANGED <<row, stock, addVars, ever>>

\* DELETE /cart/{session_id}.
ClearWholeCart(s) == cart[s] # EmptyCart /\ DropCart(s)

\* The TTL of an idle cart is over.
ExpireCart(s) == s \in expiring /\ DropCart(s)

\* Memory is short: any key may go, with or without a TTL.
EvictCart(s) == cart[s] # EmptyCart /\ DropCart(s)

DropCounter ==
    /\ hits' = 0
    /\ windowed' = FALSE
    /\ UNCHANGED <<shopVars, step, asks, existing, askVars>>

\* The 60 seconds since the first request of the window are over.
WindowEnds == windowed /\ DropCounter

\* The counter is evicted like any other key.
EvictCounter == hits > 0 /\ DropCounter

CartStep ==
    \/ \E a \in Adds : AddStep(a) \/ AddAbort(a)
    \/ WindowEnds \/ EvictCounter
    \/ \E s \in Sessions :
        \/ \E p \in Products : RemoveItem(s, p)
        \/ ClearWholeCart(s) \/ ExpireCart(s) \/ EvictCart(s)

CartStart == ShopInit(Amounts, Amounts) /\ CartInit

CartSpec == CartStart /\ [][CartStep]_<<shopVars, cartVars>>

\* A handler that has started goes on, and a TTL runs out.
CartFairness ==
    /\ \A a \in Adds :
          WF_<<shopVars, cartVars>>(step[a] # "unsent" /\ AddStep(a))
    /\ \A s \in Sessions : WF_<<shopVars, cartVars>>(ExpireCart(s))
    /\ WF_<<shopVars, cartVars>>(WindowEnds)

FairCartSpec == CartSpec /\ CartFairness

-----------------------------------------------------------------------------
(* Properties                                                              *)

\* A cart without a TTL is the work of an add that stands between its HSET
\* and its EXPIRE, or that was stopped there: no other interleaving of adds,
\* removals, clears and expiries leaves a cart that never expires
\* (cart.py:126-130).
UntimedOnlyMidAdd ==
    \A s \in Sessions :
        cart[s] # EmptyCart /\ s \notin expiring =>
            \E a \in Adds : /\ step[a] \in {"written", "untimed"}
                            /\ asks[a].session = s

\* However adds, removals and expiries interleave, the HGET/HSET pair never
\* puts more into a cart than was ever asked for: lost updates and lines that
\* come back after a removal stay below that bound (cart.py:119-127).
NothingInvented ==
    \A s \in Sessions, p \in Products : cart[s][p] <= ever[s][p]

\* "Adding the same product twice should sum the quantities, not overwrite"
\* (tests/test_cart.py:64): the cart holds what the adds since the last
\* removal come to.
AddsAccumulate == cart = asked

\* "if a user abandons their session, the cart should disappear
\* automatically" (cart.py:11-12), and it does, again and again, unless an
\* add of the session was stopped between HSET and EXPIRE, two commands: a cart
\* whose EXPIRE was never sent stays for good.
Stopped(s) == \E a \in Adds : step[a] = "untimed" /\ asks[a].session = s

AbandonedCartsDisappear ==
    \A s \in Sessions : []<>(cart[s] = EmptyCart \/ Stopped(s))

\* "this resets the counter automatically each minute" (cart.py:63), so that
\* nobody is refused for good, unless an add was stopped between its INCR and
\* its EXPIRE: then the counter only grows, until it is evicted.
CounterResets == []<>(hits = 0 \/ \E a \in Adds : step[a] = "cut")
=============================================================================
