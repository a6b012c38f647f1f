---------------------------- MODULE CheckoutPage ----------------------------
(***************************************************************************)
(* pages/CheckoutPage.tsx and context/UserContext.tsx on top of the cart   *)
(* screen, with POST /users and GET /users/{id} (app/routers/users.py).    *)
(*                                                                         *)
(* Which of five views the page shows is decided anew at every render.  A  *)
(* view that goes takes its panel with it, and with the panel the state of *)
(* its buttons: the handlers that still run in it are in no panel then.    *)
(* UserContext writes localStorage together with its state, so `user` is   *)
(* both and outlives a reload.                                             *)
(***************************************************************************)
EXTENDS CartScreen, Sequences

CONSTANTS
    Emails,         \* e-mail addresses; a user is known by his own
    NoUser,         \* user === null
    NoClick         \* confirmedOrder === null

\* null is no order.
ASSUME NoClickAssumption == NoClick \notin Clicks

VARIABLES
    user,           \* UserContext: whose account is signed in
    accounts,       \* the users table, in the order of its ids
    orders,         \* committed orders: [click, lines, version, user]; the
                    \* version is that of the cart they were made from
    confirmed,      \* the click whose order confirmedOrder is, or NoClick
    panel,          \* handlers whose panel has been mounted ever since
    needsId,        \* the taken e-mail for which SignInPanel asks for an id
    apart           \* history: clicks on "Place order" whose panel went before
                    \* the cart was deleted, or that failed in between

pageVars == <<user, accounts, orders, confirmed, panel, needsId, apart>>
browserVars == <<screenVars, pageVars>>

BrowserTypeOK ==
    /\ ScreenTypeOK
    /\ user \in Emails \cup {NoUser}
    /\ accounts \in Seq(Emails)
    /\ orders \in Seq([click : Clicks, lines : [Products -> Nat],
                       version : Nat, user : Emails])
    /\ confirmed \in Clicks \cup {NoClick}
    /\ panel \subseteq here
    /\ needsId \in Emails \cup {NoUser}
    /\ apart \subseteq Clicks

BrowserInit ==
    /\ ScreenInit
    /\ user = NoUser
    /\ accounts = <<>>
    /\ orders = <<>>
    /\ confirmed = NoClick
    /\ panel = {}
    /\ needsId = NoUser
    /\ apart = {}

-----------------------------------------------------------------------------
(* Rendering                                                               *)

\* Mutant: the cart is looked at before the confirmation.
CheckoutViewCartFirst ==
    CASE shown = NoCart -> "loading"
      [] shown # NoCart /\ shown.lines = NoLines -> "empty"
      [] confirmed # NoClick /\ shown # NoCart -> "confirmation"
      [] user = NoUser -> "signIn"
      [] OTHER -> "review"

CheckoutView ==
    IF confirmed # NoClick THEN "confirmation"
    ELSE IF shown = NoCart THEN "loading"
    ELSE IF shown.lines = NoLines THEN "empty"
    ELSE IF user = NoUser THEN "signIn"
    ELSE "review"

View == IF page = "checkout" THEN CheckoutView ELSE "none"

\* The order of a click that has not deleted the cart yet.
OnItsWay(d) == h[d].kind = "order" /\ h[d].stage \in {"sent", "committed"}

\* Who loses his panel in a step is on his own from then on.
LeaveBehind == apart' = apart \cup {d \in panel \ panel' : OnItsWay(d)}

\* The render after a step: a panel of another view is a new one.  `clicks`
\* and `id` are what the step itself adds to the panel and asks for in it.
Rerender(clicks, id) ==
    /\ IF View' = View
       THEN panel' = (panel \cup clicks) \cap here' /\ needsId' = id
       ELSE panel' = {} /\ needsId' = NoUser
    /\ LeaveBehind

InPanel(c, kind) == c \in panel /\ h[c].kind = kind

-----------------------------------------------------------------------------
(* Placing an order                                                        *)

\* Mutant: the button is not disabled.
EnabledAlways == TRUE

\* The button is disabled while a handler of this panel is at checkout().
Enabled == ~\E d \in panel : OnItsWay(d) \/ At(d, "order", "served")

ClickOrder(c) ==
    /\ View = "review"
    /\ Enabled
    /\ Start(c, "order", user)
    /\ here' = here \cup {c}
    /\ CartStateUnchanged
    /\ UNCHANGED <<basket, drawer, page, excused, live, elsewhere, moves,
                   user, accounts, orders, confirmed>>
    /\ Rerender({c}, needsId)

\* "Cart is empty" is a 400, a line without its product a 404.
MayOrder ==
    /\ basket.lines # NoLines
    /\ \A p \in Products : basket.lines[p] > 0 => p \in live

\* Mutant: request() tries again.
AfterFailureRetry(c) == [h[c] EXCEPT !.stage = "sent"]

\* request() throws, once: the handler shows the error and is over.
AfterFailure(c) == Over

\* The checkout up to its commit.  What other handlers of the server do
\* meanwhile is the matter of Storefront.tla.
CommitOrder(c) ==
    /\ At(c, "order", "sent")
    /\ MayOrder
    /\ orders' = Append(orders, [click |-> c, lines |-> basket.lines,
                                 version |-> basket.version,
                                 user |-> h[c].arg])
    /\ Stage(c, "committed")
    /\ UNCHANGED <<basket, excused>>
    /\ Rerender({}, needsId)

\* The lost answer stands for a 500 after the DEL, too.
ClearBasket(c) ==
    /\ At(c, "order", "committed")
    /\ SetLines(NoLines)
    /\ \/ /\ ~h[c].gone                        \* 201
          /\ Stage(c, "served")
          /\ UNCHANGED excused
       \/ /\ Become(c, AfterFailure(c))         \* the answer is lost
          /\ excused' = TRUE
    /\ UNCHANGED orders
    /\ Rerender({}, needsId)

\* 400, 404, 409, 500 or nothing, and no order.
RefuseOrder(c) ==
    /\ At(c, "order", "sent")
    /\ Become(c, AfterFailure(c))
    /\ UNCHANGED <<basket, excused, orders>>
    /\ Rerender({}, needsId)

\* A 500, or the end of the process, between the commit and the DEL.
StopOrder(c) ==
    /\ At(c, "order", "committed")
    /\ Become(c, AfterFailure(c))
    /\ apart' = apart \cup {c}
    /\ UNCHANGED <<basket, excused, orders, panel, needsId>>

ServeOrder(c) ==
    /\ CartStateUnchanged /\ TabUnchanged
    /\ UNCHANGED <<user, accounts, confirmed>>
    /\ CommitOrder(c) \/ ClearBasket(c) \/ RefuseOrder(c) \/ StopOrder(c)

\* Mutant: confirmedOrder outlives its page.
ConfirmedByAnyPage(c) == c

\* setConfirmedOrder does nothing on a page that is not mounted any more.
ConfirmedBy(c) == IF c \in here THEN c ELSE confirmed

\* onPlaced: the page, if it is still the same one, confirms the order; the
\* cart is refreshed without waiting for it.
Placed(c) ==
    /\ At(c, "order", "served")
    /\ confirmed' = ConfirmedBy(c)
    /\ Stage(c, "loading")
    /\ CartStateUnchanged /\ TabUnchanged
    /\ UNCHANGED <<basket, excused, user, accounts, orders>>
    /\ Rerender({}, needsId)

-----------------------------------------------------------------------------
(* Signing in                                                              *)

NobodySubmits == ~\E d \in panel : h[d].kind \in {"signUp", "signIn"}

Submit(c, kind, e) ==
    /\ View = "signIn"
    /\ NobodySubmits
    /\ Start(c, kind, e)
    /\ here' = here \cup {c}
    /\ CartStateUnchanged
    /\ UNCHANGED <<basket, drawer, page, excused, live, elsewhere, moves,
                   user, accounts, orders, confirmed>>
    /\ Rerender({c}, needsId)

\* createUser(email, name), or getUser(id) once an e-mail was taken; the id
\* of an account stands for its e-mail.
SubmitEmail(c) == needsId = NoUser /\ \E e \in Emails : Submit(c, "signUp", e)
SubmitId(c) == needsId # NoUser /\ \E e \in Emails : Submit(c, "signIn", e)

Registered == {accounts[i] : i \in DOMAIN accounts}

\* The answer, for which nobody may be waiting any more.
Answer(c, stage) ==
    IF h[c].gone THEN Become(c, Over) ELSE Stage(c, stage)

\* Any other error is shown and the form stays as it is.
SignInError(c) == Over

\* POST /users, the SELECT: 409 if the e-mail is taken.
CheckEmail(c) ==
    /\ At(c, "signUp", "sent")
    /\ IF h[c].arg \in Registered THEN Answer(c, "taken")
                                  ELSE Stage(c, "checked")
    /\ UNCHANGED accounts

\* INSERT under UNIQUE: that of a second account fails, which is a 500.
InsertUser(c) ==
    /\ At(c, "signUp", "checked")
    /\ IF h[c].arg \notin Registered
       THEN /\ accounts' = Append(accounts, h[c].arg)
            /\ Answer(c, "served") \/ Become(c, SignInError(c))
       ELSE Become(c, SignInError(c)) /\ UNCHANGED accounts

\* GET /users/{id}: the user, or 404.
GetUser(c) ==
    /\ At(c, "signIn", "sent")
    /\ IF h[c].arg \in Registered THEN Answer(c, "served")
                                  ELSE Become(c, SignInError(c))
    /\ UNCHANGED accounts

\* No answer, or a 500.
LoseSignIn(c) ==
    /\ At(c, "signUp", "sent") \/ At(c, "signIn", "sent")
    /\ Become(c, SignInError(c))
    /\ UNCHANGED accounts

ServeSignIn(c) ==
    /\ CheckEmail(c) \/ InsertUser(c) \/ GetUser(c) \/ LoseSignIn(c)
    /\ CartStateUnchanged /\ TabUnchanged
    /\ UNCHANGED <<basket, excused, user, orders, confirmed>>
    /\ Rerender({}, needsId)

\* setUser(created) or setUser(existing), in whatever view the page is.
SignedIn(c) ==
    /\ h[c].kind \in {"signUp", "signIn"} /\ h[c].stage = "served"
    /\ user' = h[c].arg
    /\ Become(c, Over)
    /\ CartStateUnchanged /\ TabUnchanged
    /\ UNCHANGED <<basket, excused, accounts, orders, confirmed>>
    /\ Rerender({}, needsId)

\* "Email already registered": the form asks for the id instead.
AskForId(c) ==
    /\ At(c, "signUp", "taken")
    /\ Become(c, Over)
    /\ CartStateUnchanged /\ TabUnchanged
    /\ UNCHANGED <<basket, excused, user, accounts, orders, confirmed>>
    /\ Rerender({}, IF c \in panel THEN h[c].arg ELSE needsId)

UseAnotherEmail ==
    /\ View = "signIn" /\ needsId # NoUser
    /\ needsId' = NoUser
    /\ UNCHANGED <<screenVars, user, accounts, orders, confirmed, panel, apart>>

\* clearUser: "Sign out", or "Use a different account".
SignOut ==
    /\ user # NoUser
    /\ user' = NoUser
    /\ UNCHANGED <<screenVars, accounts, orders, confirmed>>
    /\ Rerender({}, needsId)

-----------------------------------------------------------------------------
Rendered ==
    /\ UNCHANGED <<user, accounts, orders, confirmed>>
    /\ Rerender({}, needsId)

CartHandler(c) == HandlerOfCart(c) /\ Rendered

\* The foreign key of order_items: a product that was sold keeps its row.
OnNoOrder(p) == \A i \in DOMAIN orders : orders[i].lines[p] = 0

CartSteps ==
    \/ \E c \in Clicks : CartHandler(c)
    \/ /\ \/ \E c \in Clicks, p \in Products : ClickAdd(c, p) \/ ClickRemove(c, p)
          \/ \E p \in Products : OnNoOrder(p) /\ Withdraw(p)
          \/ ToggleDrawer \/ Elsewhere
       /\ Rendered

\* A page that is left or loaded again forgets the order it confirmed.
Moves ==
    /\ (\E p \in Pages : Navigate(p)) \/ (\E c \in Clicks : Reload(c))
    /\ confirmed' = NoClick
    /\ panel' = {}
    /\ needsId' = NoUser
    /\ LeaveBehind
    /\ UNCHANGED <<user, accounts, orders>>

HandlerOfPage(c) ==
    \/ ServeOrder(c) \/ Placed(c)
    \/ ServeSignIn(c) \/ SignedIn(c) \/ AskForId(c)

PageSteps ==
    \/ \E c \in Clicks : \/ ClickOrder(c) \/ SubmitEmail(c) \/ SubmitId(c)
                         \/ HandlerOfPage(c)
    \/ UseAnotherEmail \/ SignOut

BrowserNext == CartSteps \/ Moves \/ PageSteps

\* Every request is answered or given up by the browser or its proxy, and
\* the event loop runs the handler then.  Nothing is owed by the customer.
BrowserFairness ==
    \A c \in Clicks :
        WF_browserVars(CartHandler(c) \/ HandlerOfPage(c))

BrowserSpec == BrowserInit /\ [][BrowserNext]_browserVars /\ BrowserFairness

-----------------------------------------------------------------------------
(* Properties                                                              *)

\* "3. After successful order -> show confirmation" (CheckoutPage.tsx:7): the
\* confirmation stays until the customer goes, although the refresh it starts
\* empties the cart, and other refreshes may fail.
ConfirmationStays ==
    [][View = "confirmation" => View' = "confirmation" \/ moves' # moves
      ]_browserVars

\* What the page confirms has been ordered, by a click on the very page that
\* is mounted: errors and lost answers confirm nothing, and neither do answers
\* to a page that was left (client.ts:40-44, CheckoutPage.tsx:78-82).
ConfirmedIsOrdered ==
    confirmed # NoClick =>
        /\ confirmed \in here
        /\ \E i \in DOMAIN orders : orders[i].click = confirmed

\* A click orders once, whatever is lost or answered with an error: request()
\* never sends a request again (client.ts:32-47).
OneOrderPerClick ==
    \A i, j \in DOMAIN orders : orders[i].click = orders[j].click => i = j

\* One cart, one order: two clicks order the same state of the cart only if
\* the panel of one of them went before its DEL, so that the button of the next
\* panel was enabled again (`submitting` is a state of the panel, CheckoutPage.
\* tsx:199-215), or if one of them failed between its commit and its DEL
\* (orders.py:156-160).  Within one panel no order of clicks and answers does.
CartsAreOrderedOnce ==
    \A i, j \in DOMAIN orders :
        orders[i].click # orders[j].click
        /\ orders[i].version = orders[j].version
            => {orders[i].click, orders[j].click} \cap apart # {}

\* "Loading your cart..." ends, unless the last refresh failed: null stands
\* for "not loaded yet" and for "could not be loaded" (CartContext.tsx:52-61).
SpinnerEnds ==
    View = "loading" ~> View # "loading" \/ failedLoad
=============================================================================
