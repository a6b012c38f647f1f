----------------------------- MODULE CartScreen -----------------------------
(***************************************************************************)
(* What one browser tab knows of its cart: CartContext.tsx and the         *)
(* components that change the cart, CartDrawer.tsx, ProductCard.tsx and    *)
(* ProductPage.tsx, over the calls of api/client.ts.                       *)
(*                                                                         *)
(* A click starts an async handler.  It sends its request and, when that   *)
(* was answered, calls refreshCart(), a GET whose answer replaces what the *)
(* tab shows.  Handlers overlap, answers arrive in any order, a page may   *)
(* be left and the tab reloaded under a handler that is still waiting.     *)
(* The server's cart is its lines with a version that counts what may      *)
(* change the answer to a GET; the interleavings inside of the endpoints   *)
(* are the matter of Cart.tla and Checkout.tla.  No endpoint deletes a     *)
(* product, but cart.py:171-173 reckons with it, and so does Withdraw.     *)
(***************************************************************************)
EXTENDS Naturals

CONSTANTS
    Products,       \* products that the tab may show
    MaxClicks,      \* bound: handlers that are started, numbered in order
    NoCart,         \* cart === null
    MaxElsewhere,   \* bound: changes of cart and catalog by others
    MaxMoves        \* bound: navigations and reloads

ASSUME ScreenAssumption ==
    /\ MaxClicks \in Nat \ {0}
    /\ MaxElsewhere \in Nat
    /\ MaxMoves \in Nat

VARIABLES
    basket,         \* the cart in Valkey: [lines, version]
    live,           \* products that have a row
    shown,          \* cart of CartContext: an answer to GET /cart, or NoCart
    drawer,         \* isDrawerOpen
    page,           \* the mounted page: "shop" has Add-to-cart buttons
    h,              \* h[c]: kind, stage and argument of a handler, what its GET
                    \* read, and whether the document that waits for it is gone
    here,           \* handlers whose page has been mounted ever since
    newest,         \* history: the latest version that was ever shown
    excused,        \* history: may the screen be behind when all is quiet?
    failedLoad,     \* history: cart is null because a refresh failed
    elsewhere, moves

screenVars == <<basket, live, shown, drawer, page, h, here, newest, excused,
                failedLoad, elsewhere, moves>>

Clicks == 1 .. MaxClicks
Pages == {"shop", "checkout"}
Carts == [lines : [Products -> Nat], version : Nat]
NoLines == [p \in Products |-> 0]

\* null is no cart.
ASSUME NoCartAssumption == NoCart \notin Carts

Kinds == {"none", "load", "add", "remove", "order", "signUp", "signIn"}
Stages == {"idle", "sent", "checked", "taken", "committed", "served",
           "loading", "read", "done"}

ScreenTypeOK ==
    /\ basket \in Carts
    /\ live \subseteq Products
    /\ shown \in Carts \cup {NoCart}
    /\ drawer \in BOOLEAN
    /\ page \in Pages
    /\ \A c \in Clicks : /\ h[c].kind \in Kinds
                         /\ h[c].stage \in Stages
                         /\ h[c].got \in Carts \cup {NoCart}
                         /\ h[c].gone \in BOOLEAN
    /\ here \subseteq Clicks
    /\ elsewhere \in 0 .. MaxElsewhere
    /\ moves \in 0 .. MaxMoves

Handler(kind, stage, arg) ==
    [kind |-> kind, stage |-> stage, arg |-> arg, got |-> NoCart,
     gone |-> FALSE]
Idle == Handler("none", "idle", NoCart)
Over == Handler("none", "done", NoCart)

At(c, kind, stage) == h[c].kind = kind /\ h[c].stage = stage
Waiting(c) == h[c].stage \notin {"idle", "done"}
Quiet == \A c \in Clicks : ~Waiting(c)

\* Mutant: nobody loads the cart when the application is mounted.
FirstLoadForgotten == Over

\* useEffect(() => { refreshCart(); }) of the CartProvider that is mounted.
FirstLoad == Handler("load", "loading", NoCart)

\* main.tsx mounts the application: the cart is null and its GET is sent.
ScreenInit ==
    /\ basket = [lines |-> NoLines, version |-> 0]
    /\ live = Products
    /\ shown = NoCart
    /\ drawer = FALSE
    /\ page = "shop"
    /\ h = [c \in Clicks |->
          IF c = 1 THEN FirstLoad ELSE Idle]
    /\ here = {}
    /\ newest = 0
    /\ excused = FALSE
    /\ failedLoad = FALSE
    /\ elsewhere = 0
    /\ moves = 0

IsNext(c) == \A d \in Clicks : h[d] = Idle <=> d >= c

Become(c, handler) == h' = [h EXCEPT ![c] = handler]
Start(c, kind, arg) ==
    /\ IsNext(c)
    /\ Become(c, Handler(kind, "sent", arg))
Stage(c, stage) == h' = [h EXCEPT ![c].stage = stage]

SetLines(lines) ==
    basket' = [lines |-> lines, version |-> basket.version + 1]
SetLine(p, n) == SetLines([basket.lines EXCEPT ![p] = n])

CartStateUnchanged == UNCHANGED <<shown, newest, failedLoad>>
TabUnchanged == UNCHANGED <<drawer, page, here, live, elsewhere, moves>>

-----------------------------------------------------------------------------
(* Clicks                                                                  *)

\* One Add-to-cart button per product: it is disabled until its own handler
\* is over, so that adds of two products overlap on one page.  A page may
\* still show a product that is gone.
ClickAdd(c, p) ==
    /\ page = "shop"
    /\ ~\E d \in here : h[d].kind = "add" /\ h[d].arg = p /\ Waiting(d)
    /\ Start(c, "add", p)
    /\ here' = here \cup {c}
    /\ CartStateUnchanged
    /\ UNCHANGED <<basket, drawer, page, excused, live, elsewhere, moves>>

\* The Remove button of a line in the open drawer is never disabled.
ClickRemove(c, p) ==
    /\ drawer /\ shown # NoCart /\ shown.lines[p] > 0
    /\ Start(c, "remove", p)
    /\ CartStateUnchanged /\ TabUnchanged
    /\ UNCHANGED <<basket, excused>>

\* The cart icon, and the cross or the backdrop of the drawer.
ToggleDrawer ==
    /\ drawer' = ~drawer
    /\ CartStateUnchanged
    /\ UNCHANGED <<basket, page, h, here, excused, live, elsewhere, moves>>

\* Another page is mounted, the old one unmounted with its button states;
\* from shop to shop is the way from the catalog to a product.  The drawer's
\* own button needs a cart with lines and closes the drawer.
Navigate(p) ==
    /\ moves < MaxMoves
    /\ p # page \/ p = "shop"
    /\ page' = p
    /\ here' = {}
    /\ moves' = moves + 1
    /\ \/ drawer' = drawer
       \/ /\ p = "checkout" /\ drawer
          /\ shown # NoCart /\ shown.lines # NoLines
          /\ drawer' = FALSE
    /\ CartStateUnchanged
    /\ UNCHANGED <<basket, h, excused, live, elsewhere>>

\* F5: every context starts anew and loads the cart; the old handlers are
\* gone, but what they have sent may still be served.
Reload(c) ==
    /\ moves < MaxMoves
    /\ IsNext(c)
    /\ h' = [d \in Clicks |->
          IF d = c THEN FirstLoad
          ELSE IF h[d].stage \in {"sent", "checked", "committed"}
               THEN [h[d] EXCEPT !.gone = TRUE]
          ELSE IF Waiting(d) THEN Over ELSE h[d]]
    /\ shown' = NoCart
    /\ failedLoad' = FALSE
    /\ drawer' = FALSE
    /\ here' = {}
    /\ moves' = moves + 1
    /\ UNCHANGED <<basket, page, newest, excused, live, elsewhere>>

-----------------------------------------------------------------------------
(* The server                                                              *)

\* Mutant: a removal is not followed by a refresh.
AfterAnswerForgotten(kind) == IF kind = "remove" THEN "done" ELSE "loading"

\* Where a handler goes on once its request was answered: to refreshCart().
AfterAnswer(kind) == "loading"

\* One line changes, and the answer reaches the handler unless it is lost or
\* nobody waits for it any more: request() throws and nothing is refreshed.
Change(c, n) ==
    /\ SetLine(h[c].arg, n)
    /\ \/ /\ ~h[c].gone
          /\ Stage(c, AfterAnswer(h[c].kind))
          /\ UNCHANGED excused
       \/ /\ Become(c, Over)
          /\ excused' = TRUE

\* POST /cart/{session_id}/items needs the product.
ServeAdd(c) ==
    /\ h[c].kind = "add" /\ h[c].arg \in live
    /\ Change(c, basket.lines[h[c].arg] + 1)

\* DELETE of an item needs the line, not the product.
ServeRemove(c) ==
    /\ h[c].kind = "remove" /\ basket.lines[h[c].arg] > 0
    /\ Change(c, 0)

\* The request is lost or refused (404, 400, 429, 500): the handler shows the
\* error and is over.
Refuse(c) ==
    /\ h[c].kind \in {"add", "remove"}
    /\ Become(c, Over)
    /\ UNCHANGED <<basket, excused>>

Serve(c) ==
    /\ h[c].stage = "sent"
    /\ ServeAdd(c) \/ ServeRemove(c) \/ Refuse(c)
    /\ CartStateUnchanged /\ TabUnchanged

\* The answer to GET /cart: lines whose product is gone are skipped.
Listing ==
    [lines |-> [p \in Products |-> IF p \in live THEN basket.lines[p] ELSE 0],
     version |-> basket.version]

\* GET /cart: HGETALL, and one db.get for each line.
ReadBasket(c) ==
    /\ h[c].stage = "loading"
    /\ h' = [h EXCEPT ![c].stage = "read", ![c].got = Listing]
    /\ CartStateUnchanged /\ TabUnchanged
    /\ UNCHANGED <<basket, excused>>

Outside ==
    /\ elsewhere < MaxElsewhere
    /\ elsewhere' = elsewhere + 1
    /\ CartStateUnchanged
    /\ UNCHANGED <<drawer, page, h, here, moves>>

\* Another tab of the same browser, or the cart's TTL.
Elsewhere ==
    /\ Outside
    /\ \/ \E p \in live : SetLine(p, basket.lines[p] + 1)
       \/ \E p \in Products : basket.lines[p] > 0 /\ SetLine(p, 0)
       \/ basket.lines # NoLines /\ SetLines(NoLines)
    /\ excused' = TRUE
    /\ UNCHANGED live

\* The row of a product is deleted, behind the back of the application; a line
\* of it stays in the cart.
Withdraw(p) ==
    /\ Outside
    /\ p \in live
    /\ live' = live \ {p}
    /\ IF basket.lines[p] > 0
       THEN SetLines(basket.lines) /\ excused' = TRUE
       ELSE UNCHANGED <<basket, excused>>

-----------------------------------------------------------------------------
(* The end of refreshCart()                                                *)

\* handleAddToCart opens the drawer when refreshCart() is over, on whatever
\* page the customer is by then.
Finish(c) ==
    /\ Become(c, Over)
    /\ drawer' = (drawer \/ h[c].kind = "add")

\* setCart(freshCart), in the order in which the answers come.
ApplyRefresh(c) ==
    /\ h[c].stage = "read"
    /\ shown' = h[c].got
    /\ newest' = IF h[c].got.version > newest THEN h[c].got.version ELSE newest
    /\ excused' = \/ h[c].got.version < newest
                  \/ excused /\ h[c].got # Listing
    /\ failedLoad' = FALSE
    /\ Finish(c)
    /\ UNCHANGED <<basket, page, here, live, elsewhere, moves>>

\* catch { setCart(null) }
FailRefresh(c) ==
    /\ h[c].stage = "loading"
    /\ shown' = NoCart
    /\ failedLoad' = TRUE
    /\ excused' = TRUE
    /\ Finish(c)
    /\ UNCHANGED <<basket, page, here, newest, live, elsewhere, moves>>

HandlerOfCart(c) ==
    Serve(c) \/ ReadBasket(c) \/ ApplyRefresh(c) \/ FailRefresh(c)

-----------------------------------------------------------------------------
(* Property                                                                *)

\* When every handler is over, the cart on the screen is what Valkey holds of
\* products that exist (each change is followed by a refresh, CartDrawer.tsx:
\* 19-27, and cart.py:171-173 skips the others), unless others changed the
\* cart or withdrew a product that is in it, the answer to a change was lost, a
\* refresh failed, or an older answer was applied after a newer one: nothing in
\* CartContext.tsx:55-62 keeps the answers in order.
ScreenLagsForAReason ==
    Quiet /\ shown # NoCart => shown = Listing \/ excused
=============================================================================
