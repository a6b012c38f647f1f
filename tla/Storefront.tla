----------------------------- MODULE Storefront -----------------------------
(***************************************************************************)
(* The cart endpoints and the checkout over the same stores: Cart.tla and  *)
(* Checkout.tla interleaved step by step.  They share the products table   *)
(* and the cart hashes and nothing else; neither takes notice of the       *)
(* other's requests in flight.                                             *)
(***************************************************************************)
EXTENDS Checkout, Cart

VARIABLE
    disturbed   \* history: the sessions in which something fell into a
                \* request that was still pending

storefrontVars == <<vars, cartVars, disturbed>>

\* The checkout's DEL settles whatever was asked for in that session.
SettleCart ==
    \E r \in Requests :
        /\ ClearCart(r)
        /\ asked' = [asked EXCEPT ![session[r]] = EmptyCart]
        /\ UNCHANGED <<addVars, ever>>

CheckoutSide ==
    \/ SettleCart
    \/ CheckoutNext /\ UNCHANGED <<cart, cartVars>>

CartSide == CartStep /\ UNCHANGED checkoutVars

-----------------------------------------------------------------------------
\* A customer who waits for every answer before the next click (the checkout
\* page disables its button while a checkout runs, CheckoutPage.tsx:195-216),
\* in a session with a single tab, disturbs nothing; nor does Valkey, if the
\* cart is dropped while nothing is pending.
InFlight(r) == pc[r] \notin {"idle"} \cup Ended

NothingPending(s) ==
    /\ \A r \in Requests : InFlight(r) => session[r] # s
    /\ \A a \in Adds : step[a] \in AddInFlight => asks[a].session # s

CheckoutStarts(s) ==
    \E r \in Requests : pc[r] = "idle" /\ pc'[r] # "idle" /\ session'[r] = s

AddStarts(s) ==
    \E a \in Adds :
        step[a] = "unsent" /\ step'[a] # "unsent" /\ asks'[a].session = s

CartDropped(s) == UNCHANGED <<pc, step>> /\ cart'[s] # cart[s]

Disturb ==
    disturbed' = disturbed \cup
        {s \in Sessions : /\ ~NothingPending(s)
                          /\ \/ CheckoutStarts(s)
                             \/ AddStarts(s)
                             \/ CartDropped(s)}

StorefrontInit == CheckoutInit /\ CartInit /\ disturbed = {}

StorefrontNext == (CheckoutSide \/ CartSide) /\ Disturb

StorefrontSpec == StorefrontInit /\ [][StorefrontNext]_storefrontVars

-----------------------------------------------------------------------------
(* Properties                                                              *)

\* No order, whatever was added, removed, cleared or expired while its
\* checkout ran, has more units of a product than were ever put into the
\* carts of its session (orders.py:66-71 reads the cart once, outside of the
\* transaction).
OrdersWereAsked ==
    \A o \in orders, p \in Products : o.items[p] <= ever[o.session][p]

\* "Remove the cart from Redis - it has been fulfilled" (orders.py:159): in an
\* undisturbed session, what the DEL removes has been ordered.  An item added
\* while the checkout runs is deleted without being on the order.
ClearedMeansFulfilled ==
    [][\A r \in Requests :
          pc[r] = "committed" /\ pc'[r] = "cleared"
                             /\ session[r] \notin disturbed
            => \A p \in Products : cart[session[r]][p] <= rawCart[r][p]
      ]_storefrontVars

\* An undisturbed customer pays once: unless a checkout of the session stands,
\* or was stopped, between its commit and its answer, the orders of a session
\* and what its cart still holds come to no more than was put into its carts.
StoppedAfterCommit(s) ==
    \E r \in Requests :
        /\ session[r] = s
        /\ orderId[r] # 0
        /\ pc[r] \in {"committed", "failed"}

OrdersOf(s) == {o \in orders : o.session = s}
OrderedBy(s, p) == Cardinality(UnitsOrdered(OrdersOf(s), p))

PaidOnce ==
    \A s \in Sessions \ disturbed :
        ~StoppedAfterCommit(s) =>
            \A p \in Products :
                (OrderedBy(s, p) + cart[s][p]) <= ever[s][p]
=============================================================================
