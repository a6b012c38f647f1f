---------------------------- MODULE BrowserProofs ----------------------------
(***************************************************************************)
(* Theorems about one browser tab, CheckoutPage.tla on top of              *)
(* CartScreen.tla, for any number of clicks, moves, products and e-mail    *)
(* addresses.                                                              *)
(***************************************************************************)
EXTENDS CheckoutPage, TLAPS

-----------------------------------------------------------------------------
(* The inductive invariant                                                 *)

Args == Emails \cup {NoUser, NoCart} \cup Products
Handlers == [kind : Kinds, stage : Stages, arg : Args,
             got : Carts \cup {NoCart}, gone : BOOLEAN]
Placing == [click : Clicks, lines : [Products -> Nat], version : Nat,
            user : Emails]

StoreOK ==
    /\ basket \in Carts
    /\ live \subseteq Products
    /\ shown \in Carts \cup {NoCart}
    /\ user \in Emails \cup {NoUser}
    /\ accounts \in Seq(Emails)
    /\ orders \in Seq(Placing)
    /\ confirmed \in Clicks \cup {NoClick}

PanelOK ==
    /\ panel \subseteq here
    /\ needsId \in Emails \cup {NoUser}
    /\ apart \subseteq Clicks

TabOK ==
    /\ drawer \in BOOLEAN
    /\ page \in Pages
    /\ here \subseteq Clicks
    /\ elsewhere \in 0 .. MaxElsewhere
    /\ moves \in 0 .. MaxMoves
    /\ PanelOK

\* What a handler was started with: an account or a product.
ArgOK(kind, arg) ==
    /\ kind \in {"order", "signUp", "signIn"} => arg \in Emails
    /\ kind \in {"add", "remove"} => arg \in Products

HandlersOK ==
    /\ h \in [Clicks -> Handlers]
    /\ \A c \in Clicks : ArgOK(h[c].kind, h[c].arg)

BrowserTyped == StoreOK /\ TabOK /\ HandlersOK

\* What a GET has read is what it would have read at some time, and now if it
\* is of the present version; what is on the screen is not newer than the
\* newest that ever was.
ReadsAreOld ==
    /\ newest \in Nat
    /\ shown # NoCart => shown.version <= newest
    /\ \A c \in Clicks : h[c].stage = "read" =>
          /\ h[c].got \in Carts
          /\ h[c].got.version <= basket.version
          /\ h[c].got.version = basket.version => h[c].got = Listing

\* A handler that will bring the cart as it is to the screen.
Brings(c) ==
    \/ h[c].stage = "loading"
    \/ h[c].stage = "read" /\ h[c].got = Listing
    \/ At(c, "order", "served")

ScreenFollows == shown = Listing \/ excused \/ \E c \in Clicks : Brings(c)

ScreenInv == ReadsAreOld /\ ScreenFollows

\* The stages of a click on "Place order" after its order.
Past == {"committed", "served", "loading", "read", "done"}
HasOrdered(c) == \E i \in DOMAIN orders : orders[i].click = c
Ordered(c) == h[c].kind = "order" /\ h[c].stage \in {"committed", "served"}

OrdersInv ==
    /\ OneOrderPerClick
    /\ ConfirmedIsOrdered
    /\ \A i \in DOMAIN orders : h[orders[i].click].stage \in Past
    /\ \A c \in Clicks : Ordered(c) => HasOrdered(c)

TabInv == BrowserTyped /\ ScreenInv /\ OrdersInv

\* Who has ordered the cart as it is still has to delete it, or is on his own.
OrdersAreOld ==
    \A i \in DOMAIN orders :
        /\ orders[i].version <= basket.version
        /\ orders[i].version = basket.version =>
              \/ At(orders[i].click, "order", "committed")
              \/ orders[i].click \in apart

\* An order that is on its way is in a panel and alone there, or on its own.
PanelsServeOne ==
    /\ \A c \in Clicks : OnItsWay(c) => c \in panel \/ c \in apart
    /\ \A c, d \in panel : OnItsWay(c) /\ OnItsWay(d) => c = d

OnceInv == OrdersAreOld /\ PanelsServeOne /\ CartsAreOrderedOnce

BrowserInv == TabInv /\ OnceInv

LEMMA TypesOfBrowser == BrowserTyped => BrowserTypeOK
  BY DEF BrowserTyped, StoreOK, TabOK, PanelOK, HandlersOK, Handlers, Placing,
         BrowserTypeOK, ScreenTypeOK

LEMMA Listed ==
    ASSUME StoreOK
    PROVE  /\ Listing \in Carts /\ Listing.version = basket.version
           /\ basket.version \in Nat /\ basket.lines \in [Products -> Nat]
  BY DEF StoreOK, Listing, Carts

-----------------------------------------------------------------------------
(* What a step does to the handlers                                        *)

Only(c) == /\ h' \in [Clicks -> Handlers]
           /\ \A d \in Clicks \ {c} : h'[d] = h[d]

LEMMA Becomes ==
    ASSUME HandlersOK, NEW c \in Clicks, NEW r \in Handlers, Become(c, r)
    PROVE  Only(c) /\ h'[c] = r
  BY DEF HandlersOK, Become, Only

LEMMA BecomesOver ==
    ASSUME HandlersOK, NEW c \in Clicks, Become(c, Over)
    PROVE  Only(c) /\ h'[c].kind = "none" /\ h'[c].stage = "done" /\ HandlersOK'
  <1>1. Over \in Handlers /\ Over.kind = "none" /\ Over.stage = "done"
    BY DEF Over, Handler, Handlers, Kinds, Stages, Args
  <1>2. Only(c) /\ h'[c] = Over
    BY <1>1, Becomes
  <1> QED
    BY <1>1, <1>2 DEF HandlersOK, ArgOK, Only

LEMMA Starts ==
    ASSUME HandlersOK, NEW c \in Clicks, NEW kind \in Kinds, NEW arg \in Args,
           ArgOK(kind, arg), Start(c, kind, arg)
    PROVE  /\ Only(c) /\ HandlersOK'
           /\ h[c].stage = "idle"
           /\ h'[c].kind = kind /\ h'[c].stage = "sent"
  <1> DEFINE r == Handler(kind, "sent", arg)
  <1>1. r \in Handlers /\ r.kind = kind /\ r.stage = "sent" /\ r.arg = arg
    BY DEF Handler, Handlers, Stages
  <1>2. Only(c) /\ h'[c] = r
    BY <1>1, Becomes DEF Start
  <1>3. h[c] = Idle
    BY DEF Start, IsNext, Clicks
  <1>4. Idle.stage = "idle"
    BY DEF Idle, Handler
  <1>5. HandlersOK'
    BY <1>1, <1>2 DEF HandlersOK, Only
  <1> QED
    BY <1>1, <1>2, <1>3, <1>4, <1>5

LEMMA StageIs ==
    ASSUME HandlersOK, NEW c \in Clicks, NEW s \in Stages, Stage(c, s)
    PROVE  /\ Only(c) /\ HandlersOK'
           /\ h'[c].stage = s /\ h'[c].kind = h[c].kind
           /\ h'[c].got = h[c].got
  <1> DEFINE r == [h[c] EXCEPT !.stage = s]
  <1>1. /\ r \in Handlers /\ r.kind = h[c].kind /\ r.stage = s
        /\ r.arg = h[c].arg /\ r.got = h[c].got
    BY DEF HandlersOK, Handlers
  <1>2. Become(c, r)
    BY DEF Become, Stage
  <1>3. Only(c) /\ h'[c] = r
    BY <1>1, <1>2, Becomes
  <1>4. HandlersOK'
    BY <1>1, <1>3 DEF HandlersOK, Only
  <1> QED
    BY <1>1, <1>3, <1>4

LEMMA Rerenders ==
    ASSUME TabOK, NEW clicks, NEW id \in Emails \cup {NoUser},
           Rerender(clicks, id)
    PROVE  PanelOK'
  BY DEF Rerender, LeaveBehind, TabOK, PanelOK

LEMMA OneMore ==
    ASSUME NEW S, NEW s \in Seq(S), NEW e \in S
    PROVE  /\ Append(s, e) \in Seq(S)
           /\ \A i \in DOMAIN s : /\ i \in DOMAIN Append(s, e)
                                  /\ Append(s, e)[i] = s[i]
           /\ \A i \in DOMAIN Append(s, e) :
                 i \in DOMAIN s \/ (i = Len(s) + 1 /\ Append(s, e)[i] = e)
           /\ Len(s) + 1 \in DOMAIN Append(s, e)
           /\ Append(s, e)[Len(s) + 1] = e
  <1>1. Append(s, e) \in Seq(S)
    OBVIOUS
  <1>2. /\ DOMAIN s = 1 .. Len(s) /\ Len(s) \in Nat
        /\ DOMAIN Append(s, e) = 1 .. Len(s) + 1
    OBVIOUS
  <1>3. \A i \in 1 .. Len(s) : Append(s, e)[i] = s[i]
    OBVIOUS
  <1>4. Append(s, e)[Len(s) + 1] = e
    OBVIOUS
  <1> QED
    BY <1>1, <1>2, <1>3, <1>4

LEMMA ClicksOrder == StoreOK => \A i \in DOMAIN orders : orders[i].click \in Clicks
  <1> SUFFICES ASSUME StoreOK, NEW i \in DOMAIN orders
      PROVE  orders[i].click \in Clicks
    OBVIOUS
  <1>1. orders[i] \in Placing
    BY DEF StoreOK
  <1> QED
    BY <1>1 DEF Placing

-----------------------------------------------------------------------------
(* Steps that concern neither the cart nor the orders                      *)

\* No handler comes to or goes from an order or a refresh.
Aside(d) ==
    /\ Brings(d) => Brings(d)'
    /\ h'[d] = h[d] \/ h'[d].stage # "read"
    /\ h[d].stage \in Past => h'[d].stage \in Past
    /\ Ordered(d)' => Ordered(d)

LEMMA AsideOK ==
    ASSUME TabInv, BrowserTyped',
           UNCHANGED <<basket, live, shown, newest, orders>>,
           excused => excused',
           confirmed' = NoClick
              \/ (confirmed' = confirmed /\ here \subseteq here'),
           \A d \in Clicks : Aside(d)
    PROVE  ScreenInv' /\ OrdersInv'
  <1> USE DEF TabInv
  <1>0. Listing' = Listing
    BY DEF Listing
  <1>1. ReadsAreOld'
    BY <1>0 DEF ScreenInv, ReadsAreOld, Aside
  <1>2. ScreenFollows'
    BY <1>0 DEF ScreenInv, ScreenFollows, Aside
  <1>3. \A i \in DOMAIN orders : orders[i].click \in Clicks
    BY ClicksOrder DEF BrowserTyped
  <1>4. OneOrderPerClick' /\ ConfirmedIsOrdered'
    BY DEF OrdersInv, OneOrderPerClick, ConfirmedIsOrdered
  <1>5. \A i \in DOMAIN orders : h'[orders[i].click].stage \in Past
    BY <1>3 DEF OrdersInv, Aside
  <1>6. \A c \in Clicks : Ordered(c)' => HasOrdered(c)'
    BY DEF OrdersInv, Aside, HasOrdered
  <1> QED
    BY <1>1, <1>2, <1>4, <1>5, <1>6 DEF ScreenInv, OrdersInv

\* A click on a button.
LEMMA StartOK ==
    ASSUME TabInv, NEW c \in Clicks, NEW kind \in Kinds, NEW arg \in Args,
           ArgOK(kind, arg), Start(c, kind, arg),
           here' \in {here, here \cup {c}}, CartStateUnchanged,
           UNCHANGED <<basket, drawer, page, excused, live, elsewhere, moves,
                       user, accounts, orders, confirmed>>,
           PanelOK'
    PROVE  TabInv'
  <1> USE DEF TabInv, BrowserTyped
  <1>1. /\ Only(c) /\ HandlersOK' /\ h[c].stage = "idle"
        /\ h'[c].kind = kind /\ h'[c].stage = "sent"
    BY Starts
  <1>3. StoreOK' /\ TabOK'
    BY DEF StoreOK, TabOK, CartStateUnchanged
  <1>4. \A d \in Clicks : Aside(d)
    <2>1. Listing' = Listing
      BY DEF Listing
    <2> QED
      BY <1>1, <2>1 DEF Only, Aside, Brings, Ordered, At, Past
  <1>5. ScreenInv' /\ OrdersInv'
    BY <1>1, <1>3, <1>4, AsideOK DEF CartStateUnchanged
  <1> QED
    BY <1>1, <1>3, <1>5

\* An answer that is neither a successful order's nor a refresh's.
LEMMA AnswerOK ==
    ASSUME TabInv, NEW c \in Clicks, Only(c), HandlersOK',
           h[c].stage \in {"sent", "checked", "taken", "committed"}
              \/ (h[c].stage = "served" /\ h[c].kind # "order"),
           h'[c].stage \in {"checked", "taken", "done"}
              \/ (h'[c].stage = "served" /\ h'[c].kind # "order"),
           h[c].stage \in {"committed", "served"} => h'[c].stage = "done",
           CartStateUnchanged, TabUnchanged,
           UNCHANGED <<basket, excused, orders, confirmed>>,
           user' \in Emails \cup {NoUser},
           accounts' \in Seq(Emails), PanelOK'
    PROVE  TabInv'
  <1> USE DEF TabInv, BrowserTyped
  <1>2. StoreOK' /\ TabOK'
    BY DEF StoreOK, TabOK, CartStateUnchanged, TabUnchanged
  <1>3. \A d \in Clicks : Aside(d)
    <2>1. Listing' = Listing
      BY DEF Listing, TabUnchanged
    <2> QED
      BY <2>1 DEF Only, Aside, Brings, Ordered, At, Past
  <1>4. ScreenInv' /\ OrdersInv'
    BY <1>2, <1>3, AsideOK DEF CartStateUnchanged, TabUnchanged
  <1> QED
    BY <1>2, <1>4

\* A step that leaves every handler where it is.
LEMMA NoHandlerOK ==
    ASSUME TabInv, TabOK',
           UNCHANGED <<h, basket, live, shown, newest, excused, orders,
                       accounts>>,
           confirmed' = NoClick \/ (confirmed' = confirmed /\ here' = here),
           user' \in Emails \cup {NoUser}
    PROVE  TabInv'
  <1> USE DEF TabInv, BrowserTyped
  <1>1. StoreOK' /\ HandlersOK'
    BY DEF StoreOK, HandlersOK
  <1>2. \A d \in Clicks : Aside(d)
    BY DEF Aside, Brings, Ordered, At, Listing
  <1>3. ScreenInv' /\ OrdersInv'
    BY <1>1, <1>2, AsideOK
  <1> QED
    BY <1>1, <1>3

-----------------------------------------------------------------------------
(* Steps that change the cart                                              *)

LEMMA NewBasket ==
    ASSUME StoreOK, NEW lines \in [Products -> Nat], SetLines(lines)
    PROVE  /\ basket' \in Carts
           /\ basket'.version = basket.version + 1
           /\ basket.version \in Nat
  BY DEF StoreOK, SetLines, Carts

LEMMA NewLine ==
    ASSUME StoreOK, NEW p \in Products, NEW n \in Nat
    PROVE  [basket.lines EXCEPT ![p] = n] \in [Products -> Nat]
  BY Listed

\* Whoever changes the cart is going to refresh it, or has been excused.
LEMMA ChangeOK ==
    ASSUME StoreOK, ReadsAreOld, HandlersOK,
           NEW lines \in [Products -> Nat], SetLines(lines),
           UNCHANGED <<shown, newest>>,
           \A d \in Clicks : h'[d] = h[d] \/ h'[d].stage # "read",
           excused' \/ \E c \in Clicks : Brings(c)'
    PROVE  ScreenInv'
  <1>1. /\ basket'.version = basket.version + 1 /\ basket.version \in Nat
    BY NewBasket
  <1>2. ASSUME NEW d \in Clicks, h'[d].stage = "read"
        PROVE  /\ h'[d].got \in Carts
               /\ h'[d].got.version <= basket'.version
               /\ h'[d].got.version # basket'.version
    <2>1. h'[d] = h[d] /\ h[d].got \in Carts
          /\ h[d].got.version <= basket.version
      BY <1>2 DEF ReadsAreOld
    <2>2. h[d].got.version \in Nat
      BY <2>1 DEF Carts
    <2> QED
      BY <1>1, <2>1, <2>2
  <1>3. ReadsAreOld'
    BY <1>2 DEF ReadsAreOld
  <1> QED
    BY <1>3 DEF ScreenInv, ScreenFollows

\* An answer that a handler of the cart gets.
LEMMA OrdersAside ==
    ASSUME TabInv, UNCHANGED <<orders, confirmed>>, here \subseteq here',
           \A d \in Clicks :
              /\ h[d].stage \in Past => h'[d].stage \in Past
              /\ Ordered(d)' => Ordered(d)
    PROVE  OrdersInv'
  <1> USE DEF TabInv
  <1>1. \A i \in DOMAIN orders : orders[i].click \in Clicks
    BY ClicksOrder DEF BrowserTyped
  <1>2. OneOrderPerClick' /\ ConfirmedIsOrdered'
    BY DEF OrdersInv, OneOrderPerClick, ConfirmedIsOrdered
  <1>3. \A i \in DOMAIN orders : h'[orders[i].click].stage \in Past
    BY <1>1 DEF OrdersInv
  <1>4. \A c \in Clicks : Ordered(c)' => HasOrdered(c)'
    BY DEF OrdersInv, HasOrdered
  <1> QED
    BY <1>2, <1>3, <1>4 DEF OrdersInv

LEMMA CartChangeOK ==
    ASSUME TabInv, NEW c \in Clicks, h[c].stage = "sent",
           h[c].kind \in {"add", "remove"}, NEW n \in Nat, Change(c, n),
           CartStateUnchanged, TabUnchanged, Rendered
    PROVE  TabInv'
  <1> USE DEF TabInv, BrowserTyped
  <1>1. /\ Only(c) /\ HandlersOK'
        /\ \/ h'[c].stage = "loading" /\ h'[c].kind = h[c].kind
           \/ h'[c].stage = "done" /\ h'[c].kind = "none" /\ excused'
    BY StageIs, BecomesOver DEF Change, AfterAnswer, Stages
  <1>2. PanelOK'
    BY Rerenders DEF TabOK, PanelOK, Rendered
  <1>3. PICK lines \in [Products -> Nat] : SetLines(lines)
    <2>1. h[c].arg \in Products
      BY DEF HandlersOK, ArgOK
    <2> QED
      BY <2>1, NewLine DEF Change, SetLine
  <1>4. StoreOK' /\ TabOK'
    BY <1>2, <1>3, NewBasket
       DEF StoreOK, TabOK, CartStateUnchanged, TabUnchanged, Rendered
  <1>5. \A d \in Clicks : h'[d] = h[d] \/ h'[d].stage # "read"
    BY <1>1 DEF Only
  <1>6. excused' \/ \E d \in Clicks : Brings(d)'
    BY <1>1 DEF Brings
  <1>7. ScreenInv'
    BY <1>3, <1>5, <1>6, ChangeOK DEF ScreenInv, CartStateUnchanged
  <1>8. OrdersInv'
    BY <1>1, OrdersAside DEF Only, Past, Ordered, Rendered, TabUnchanged
  <1> QED
    BY <1>1, <1>4, <1>7, <1>8

\* Another tab, the TTL, or a product that goes: nobody here is to blame.
LEMMA OutsideOK ==
    ASSUME TabInv, Elsewhere \/ \E p \in Products : Withdraw(p), Rendered
    PROVE  TabInv'
  <1> USE DEF TabInv, BrowserTyped
  <1>1. /\ Outside
        /\ live' \subseteq Products
        /\ \/ excused' /\ \E lines \in [Products -> Nat] : SetLines(lines)
           \/ UNCHANGED <<basket, excused>> /\ Listing' = Listing
    <2>1. CASE Elsewhere
      <3>1. \E lines \in [Products -> Nat] : SetLines(lines)
        <4>1. ASSUME NEW p \in live, SetLine(p, basket.lines[p] + 1)
              PROVE  \E lines \in [Products -> Nat] : SetLines(lines)
          <5>1. p \in Products /\ basket.lines[p] + 1 \in Nat
            BY Listed DEF StoreOK
          <5> QED
            BY <4>1, <5>1, NewLine DEF SetLine
        <4>2. ASSUME NEW p \in Products, SetLine(p, 0)
              PROVE  \E lines \in [Products -> Nat] : SetLines(lines)
          BY <4>2, NewLine DEF SetLine
        <4>3. NoLines \in [Products -> Nat]
          BY DEF NoLines
        <4> QED
          BY <2>1, <4>1, <4>2, <4>3 DEF Elsewhere
      <3> QED
        BY <2>1, <3>1 DEF Elsewhere, StoreOK
    <2>2. ASSUME NEW p \in Products, Withdraw(p)
          PROVE  /\ Outside
                 /\ live' \subseteq Products
                 /\ \/ /\ excused'
                       /\ \E lines \in [Products -> Nat] : SetLines(lines)
                    \/ UNCHANGED <<basket, excused>> /\ Listing' = Listing
      <3>1. CASE basket.lines[p] > 0
        BY <2>2, <3>1, Listed DEF Withdraw, StoreOK
      <3>2. CASE ~(basket.lines[p] > 0)
        <4>1. /\ basket' = basket /\ live' = live \ {p} /\ excused' = excused
              /\ basket.lines[p] = 0
          BY <2>2, <3>2, Listed DEF Withdraw
        <4>2. [q \in Products |-> IF q \in live' THEN basket'.lines[q] ELSE 0]
              = [q \in Products |-> IF q \in live THEN basket.lines[q] ELSE 0]
          BY <4>1
        <4> QED
          BY <2>2, <4>1, <4>2 DEF Withdraw, StoreOK, Listing
      <3> QED
        BY <3>1, <3>2
    <2> QED
      BY <2>1, <2>2
  <1>2. PanelOK'
    BY Rerenders DEF TabOK, PanelOK, Rendered
  <1>3. elsewhere' \in 0 .. MaxElsewhere
    BY <1>1, ScreenAssumption DEF TabOK, Outside
  <1>4. basket' \in Carts
    BY <1>1, NewBasket DEF StoreOK
  <1>5. StoreOK' /\ TabOK' /\ HandlersOK'
    BY <1>1, <1>2, <1>3, <1>4
       DEF StoreOK, TabOK, HandlersOK, Outside, CartStateUnchanged, Rendered
  <1>6. ScreenInv'
    <2>1. CASE excused' /\ \E lines \in [Products -> Nat] : SetLines(lines)
      BY <1>1, <2>1, ChangeOK DEF ScreenInv, Outside, CartStateUnchanged
    <2>2. CASE UNCHANGED <<basket, excused>> /\ Listing' = Listing
      BY <1>1, <2>2 DEF ScreenInv, ReadsAreOld, ScreenFollows, Brings, At,
                        Outside, CartStateUnchanged
    <2> QED
      BY <1>1, <2>1, <2>2
  <1>7. OrdersInv'
    BY <1>1, OrdersAside DEF Outside, Ordered, Rendered
  <1> QED
    BY <1>5, <1>6, <1>7

-----------------------------------------------------------------------------
(* Orders                                                                  *)

\* A click that is still on its way orders for the first and last time.
LEMMA CommitOK ==
    ASSUME TabInv, NEW c \in Clicks, CommitOrder(c), ServeOrder(c)
    PROVE  TabInv'
  <1> USE DEF TabInv, BrowserTyped
  <1> DEFINE o == [click |-> c, lines |-> basket.lines,
                   version |-> basket.version, user |-> h[c].arg]
  <1>1. /\ Only(c) /\ HandlersOK'
        /\ h[c].kind = "order" /\ h[c].stage = "sent"
        /\ h'[c].stage = "committed" /\ h'[c].kind = "order"
    BY StageIs DEF CommitOrder, Stages, At
  <1>2. orders' = Append(orders, o) /\ orders \in Seq(Placing) /\ o \in Placing
    BY <1>1, Listed DEF CommitOrder, StoreOK, HandlersOK, ArgOK, Placing
  <1>3. /\ orders' \in Seq(Placing)
        /\ \A i \in DOMAIN orders : i \in DOMAIN orders'
                                    /\ orders'[i] = orders[i]
        /\ \A i \in DOMAIN orders' :
              i \in DOMAIN orders \/ (i = Len(orders) + 1 /\ orders'[i] = o)
        /\ Len(orders) + 1 \in DOMAIN orders'
        /\ orders'[Len(orders) + 1] = o
    BY <1>2, OneMore
  <1>4. PanelOK'
    BY Rerenders DEF TabOK, PanelOK, CommitOrder
  <1>5. UNCHANGED <<basket, excused, live, shown, newest, here, confirmed>>
    BY DEF CommitOrder, ServeOrder, CartStateUnchanged, TabUnchanged
  <1>6. StoreOK' /\ TabOK'
    BY <1>3, <1>4, <1>5
       DEF StoreOK, TabOK, ServeOrder, CartStateUnchanged, TabUnchanged
  <1>7. ScreenInv'
    <2>1. Listing' = Listing
      BY <1>5 DEF Listing
    <2>2. \A d \in Clicks : /\ Brings(d) => Brings(d)'
                            /\ h'[d] = h[d] \/ h'[d].stage # "read"
      BY <1>1, <2>1 DEF Only, Brings, At
    <2> QED
      BY <1>5, <2>1, <2>2 DEF ScreenInv, ReadsAreOld, ScreenFollows
  <1>8. OrdersInv'
    <2>1. \A i \in DOMAIN orders : /\ orders[i].click \in Clicks
                                   /\ orders[i].click # c
      BY <1>1, ClicksOrder DEF OrdersInv, Past
    <2>2. o.click = c
      OBVIOUS
    <2>3. OneOrderPerClick'
      BY <1>3, <2>1, <2>2 DEF OrdersInv, OneOrderPerClick
    <2>4. ConfirmedIsOrdered'
      BY <1>3, <1>5 DEF OrdersInv, ConfirmedIsOrdered
    <2>5. ASSUME NEW i \in DOMAIN orders'
          PROVE  h'[orders'[i].click].stage \in Past
      <3>1. CASE i \in DOMAIN orders
        BY <1>1, <1>3, <2>1, <3>1 DEF Only, OrdersInv
      <3>2. CASE orders'[i] = o
        BY <1>1, <2>2, <3>2 DEF Past
      <3> QED
        BY <1>3, <3>1, <3>2
    <2>6. ASSUME NEW d \in Clicks, Ordered(d)'
          PROVE  HasOrdered(d)'
      <3>1. CASE d = c
        BY <1>3, <2>2, <3>1 DEF HasOrdered
      <3>2. CASE d # c
        <4>1. HasOrdered(d)
          BY <1>1, <2>6, <3>2 DEF Only, OrdersInv, Ordered
        <4> QED
          BY <1>3, <4>1 DEF HasOrdered
      <3> QED
        BY <3>1, <3>2
    <2> QED
      BY <2>3, <2>4, <2>5, <2>6 DEF OrdersInv
  <1> QED
    BY <1>1, <1>6, <1>7, <1>8

\* The DEL empties the cart, and the answer starts a refresh, or is lost.
LEMMA ClearOK ==
    ASSUME TabInv, NEW c \in Clicks, ClearBasket(c), ServeOrder(c)
    PROVE  TabInv'
  <1> USE DEF TabInv, BrowserTyped
  <1>1. /\ Only(c) /\ HandlersOK'
        /\ h[c].kind = "order" /\ h[c].stage = "committed"
        /\ \/ h'[c].stage = "served" /\ h'[c].kind = "order"
           \/ h'[c].stage = "done" /\ h'[c].kind = "none" /\ excused'
    BY StageIs, BecomesOver DEF ClearBasket, AfterFailure, Stages, At
  <1>2. NoLines \in [Products -> Nat] /\ SetLines(NoLines)
    BY DEF NoLines, ClearBasket
  <1>3. PanelOK'
    BY Rerenders DEF TabOK, PanelOK, ClearBasket
  <1>4. StoreOK' /\ TabOK'
    BY <1>2, <1>3, NewBasket
       DEF StoreOK, TabOK, ClearBasket, ServeOrder, CartStateUnchanged,
           TabUnchanged
  <1>5. ScreenInv'
    <2>1. excused' \/ Brings(c)'
      BY <1>1 DEF Brings, At
    <2>2. \A d \in Clicks : h'[d] = h[d] \/ h'[d].stage # "read"
      BY <1>1 DEF Only
    <2> QED
      BY <1>2, <2>1, <2>2, ChangeOK
         DEF ScreenInv, ServeOrder, CartStateUnchanged
  <1>6. OrdersInv'
    BY <1>1, OrdersAside
       DEF Only, Past, Ordered, ClearBasket, ServeOrder, TabUnchanged
  <1> QED
    BY <1>1, <1>4, <1>5, <1>6

\* No order, or none that is known of here.
LEMMA FailedOrderOK ==
    ASSUME TabInv, NEW c \in Clicks, RefuseOrder(c) \/ StopOrder(c),
           ServeOrder(c)
    PROVE  TabInv'
  <1> USE DEF TabInv, BrowserTyped
  <1>1. /\ Only(c) /\ HandlersOK'
        /\ h'[c].kind = "none" /\ h'[c].stage = "done"
        /\ h[c].stage \in {"sent", "committed"}
    BY BecomesOver DEF RefuseOrder, StopOrder, AfterFailure, At
  <1>2. PanelOK'
    <2>1. CASE RefuseOrder(c)
      BY <2>1, Rerenders DEF TabOK, PanelOK, RefuseOrder
    <2>2. CASE StopOrder(c)
      BY <2>2 DEF TabOK, PanelOK, StopOrder, ServeOrder, TabUnchanged
    <2> QED
      BY <2>1, <2>2
  <1>3. /\ CartStateUnchanged /\ TabUnchanged
        /\ UNCHANGED <<basket, excused, orders, confirmed>>
        /\ user' \in Emails \cup {NoUser} /\ accounts' \in Seq(Emails)
    BY DEF ServeOrder, RefuseOrder, StopOrder, StoreOK
  <1> QED
    BY <1>1, <1>2, <1>3, AnswerOK

LEMMA PlacedOK ==
    ASSUME TabInv, NEW c \in Clicks, Placed(c)
    PROVE  TabInv'
  <1> USE DEF TabInv, BrowserTyped
  <1>1. /\ Only(c) /\ HandlersOK'
        /\ h[c].kind = "order" /\ h[c].stage = "served"
        /\ h'[c].stage = "loading" /\ h'[c].kind = "order"
    BY StageIs DEF Placed, Stages, At
  <1>2. PanelOK'
    BY Rerenders DEF TabOK, PanelOK, Placed
  <1>3. StoreOK' /\ TabOK'
    BY <1>2
       DEF StoreOK, TabOK, Placed, ConfirmedBy, CartStateUnchanged, TabUnchanged
  <1>4. ScreenInv'
    <2>0. Listing' = Listing
      BY DEF Listing, Placed, TabUnchanged
    <2>1. \A d \in Clicks : /\ Brings(d) => Brings(d)'
                            /\ h'[d] = h[d] \/ h'[d].stage # "read"
      BY <1>1, <2>0 DEF Only, Brings, At
    <2>2. ReadsAreOld'
      BY <2>0, <2>1 DEF ScreenInv, ReadsAreOld, Placed, CartStateUnchanged
    <2> QED
      BY <2>0, <2>1, <2>2
         DEF ScreenInv, ScreenFollows, Placed, CartStateUnchanged
  <1>5. OrdersInv'
    <2>1. \A i \in DOMAIN orders : h'[orders[i].click].stage \in Past
      BY <1>1, ClicksOrder DEF OrdersInv, Only, Past
    <2>2. \A d \in Clicks : Ordered(d)' => HasOrdered(d)'
      BY <1>1 DEF OrdersInv, Only, Ordered, HasOrdered, Placed
    <2>3. ConfirmedIsOrdered'
      <3>1. HasOrdered(c)
        BY <1>1 DEF OrdersInv, Ordered
      <3>2. /\ confirmed' = confirmed \/ (confirmed' = c /\ c \in here)
            /\ orders' = orders /\ here' = here
        BY DEF Placed, ConfirmedBy, TabUnchanged
      <3> QED
        BY <3>1, <3>2 DEF OrdersInv, ConfirmedIsOrdered, HasOrdered
    <2> QED
      BY <2>1, <2>2, <2>3 DEF OrdersInv, OneOrderPerClick, Placed
  <1> QED
    BY <1>1, <1>3, <1>4, <1>5

-----------------------------------------------------------------------------
(* Refreshes                                                               *)

LEMMA ReadOK ==
    ASSUME TabInv, NEW c \in Clicks, ReadBasket(c), Rendered
    PROVE  TabInv'
  <1> USE DEF TabInv, BrowserTyped
  <1> DEFINE r == [h[c] EXCEPT !.stage = "read", !.got = Listing]
  <1>1. /\ r \in Handlers /\ r.stage = "read" /\ r.got = Listing
        /\ r.kind = h[c].kind /\ r.arg = h[c].arg
    BY Listed DEF HandlersOK, Handlers, Stages
  <1>2. Become(c, r)
    BY DEF Become, ReadBasket
  <1>3. Only(c) /\ h'[c] = r
    BY <1>1, <1>2, Becomes
  <1>4. HandlersOK'
    BY <1>1, <1>3 DEF HandlersOK, Only
  <1>5. PanelOK'
    BY Rerenders DEF TabOK, PanelOK, Rendered
  <1>6. StoreOK' /\ TabOK'
    BY <1>5 DEF StoreOK, TabOK, ReadBasket, CartStateUnchanged, TabUnchanged,
                Rendered
  <1>7. ScreenInv'
    <2>0. Listing' = Listing /\ basket' = basket
      BY DEF Listing, ReadBasket, TabUnchanged
    <2>1. Brings(c)'
      BY <1>1, <1>3, <2>0 DEF Brings, ReadBasket
    <2>2. /\ Listing \in Carts /\ Listing.version = basket.version
          /\ basket.version \in Nat
      BY Listed
    <2>3. ASSUME NEW d \in Clicks, h'[d].stage = "read"
          PROVE  /\ h'[d].got \in Carts
                 /\ h'[d].got.version <= basket.version
                 /\ h'[d].got.version = basket.version => h'[d].got = Listing
      <3>1. CASE d = c
        <4>1. h'[d].got = Listing
          BY <1>1, <1>3, <3>1
        <4> QED
          BY <2>2, <4>1
      <3>2. CASE d # c
        BY <1>3, <2>3, <3>2 DEF Only, ScreenInv, ReadsAreOld
      <3> QED
        BY <3>1, <3>2
    <2>4. ReadsAreOld'
      BY <2>0, <2>3 DEF ScreenInv, ReadsAreOld, ReadBasket, CartStateUnchanged
    <2> QED
      BY <2>1, <2>4 DEF ScreenInv, ScreenFollows
  <1>8. OrdersInv'
    BY <1>1, <1>3, OrdersAside
       DEF Only, Past, Ordered, ReadBasket, Rendered, TabUnchanged
  <1> QED
    BY <1>4, <1>6, <1>7, <1>8

\* Either the cart as it is comes to the screen, or an older one over a newer,
\* or somebody else is still going to bring it.
LEMMA ApplyOK ==
    ASSUME TabInv, NEW c \in Clicks, ApplyRefresh(c), Rendered
    PROVE  TabInv'
  <1> USE DEF TabInv, BrowserTyped
  <1>1. Only(c) /\ h'[c].kind = "none" /\ h'[c].stage = "done" /\ HandlersOK'
    BY BecomesOver DEF ApplyRefresh, Finish
  <1>2. /\ h[c].got \in Carts /\ h[c].got.version \in Nat
        /\ h[c].got.version <= basket.version
        /\ h[c].got.version = basket.version => h[c].got = Listing
        /\ basket.version \in Nat /\ newest \in Nat
    BY Listed DEF ScreenInv, ReadsAreOld, ApplyRefresh, Carts
  <1>3. /\ shown' = h[c].got /\ basket' = basket /\ Listing' = Listing
        /\ newest' \in Nat /\ shown'.version <= newest'
    BY <1>2 DEF ApplyRefresh, Listing
  <1>4. PanelOK'
    BY Rerenders DEF TabOK, PanelOK, Rendered
  <1>5. drawer' \in BOOLEAN
    BY DEF ApplyRefresh, Finish, TabOK
  <1>6. StoreOK' /\ TabOK'
    BY <1>2, <1>3, <1>4, <1>5 DEF StoreOK, TabOK, ApplyRefresh, Rendered
  <1>7. ReadsAreOld'
    BY <1>1, <1>3 DEF ScreenInv, ReadsAreOld, Only
  <1>8. ScreenFollows'
    <2>1. CASE h[c].got = Listing
      BY <1>3, <2>1 DEF ScreenFollows
    <2>2. CASE h[c].got # Listing
      <3>1. excused' = (h[c].got.version < newest \/ excused)
        BY <2>2 DEF ApplyRefresh
      <3>2. CASE shown = Listing
        <4>1. basket.version <= newest
          BY <3>2, Listed, NoCartAssumption DEF ScreenInv, ReadsAreOld
        <4>2. h[c].got.version < newest
          BY <1>2, <2>2, <4>1
        <4> QED
          BY <3>1, <4>2 DEF ScreenFollows
      <3>3. CASE excused
        BY <3>1, <3>3 DEF ScreenFollows
      <3>4. ASSUME NEW d \in Clicks, Brings(d) PROVE ScreenFollows'
        <4>1. d # c
          BY <2>2, <3>4 DEF Brings, At, ApplyRefresh
        <4>2. Brings(d)'
          BY <1>1, <1>3, <3>4, <4>1 DEF Only, Brings, At
        <4> QED
          BY <4>2 DEF ScreenFollows
      <3> QED
        BY <3>2, <3>3, <3>4 DEF ScreenInv, ScreenFollows
    <2> QED
      BY <2>1, <2>2
  <1>9. OrdersInv'
    BY <1>1, OrdersAside DEF Only, Past, Ordered, ApplyRefresh, Rendered
  <1> QED
    BY <1>1, <1>6, <1>7, <1>8, <1>9 DEF ScreenInv

LEMMA FailOK ==
    ASSUME TabInv, NEW c \in Clicks, FailRefresh(c), Rendered
    PROVE  TabInv'
  <1> USE DEF TabInv, BrowserTyped
  <1>1. Only(c) /\ h'[c].kind = "none" /\ h'[c].stage = "done" /\ HandlersOK'
    BY BecomesOver DEF FailRefresh, Finish
  <1>2. PanelOK'
    BY Rerenders DEF TabOK, PanelOK, Rendered
  <1>3. drawer' \in BOOLEAN
    BY DEF FailRefresh, Finish, TabOK
  <1>4. StoreOK' /\ TabOK'
    BY <1>2, <1>3 DEF StoreOK, TabOK, FailRefresh, Rendered
  <1>5. ScreenInv'
    <2>1. Listing' = Listing
      BY DEF Listing, FailRefresh
    <2> QED
      BY <1>1, <2>1
         DEF ScreenInv, ReadsAreOld, ScreenFollows, Only, FailRefresh
  <1>6. OrdersInv'
    BY <1>1, OrdersAside DEF Only, Past, Ordered, FailRefresh, Rendered
  <1> QED
    BY <1>1, <1>4, <1>5, <1>6

\* A new page knows nothing and loads the cart; the old handlers are gone.
LEMMA ReloadOK ==
    ASSUME TabInv, NEW c \in Clicks, Reload(c),
           confirmed' = NoClick, PanelOK',
           UNCHANGED <<user, accounts, orders>>
    PROVE  TabInv'
  <1> USE DEF TabInv, BrowserTyped
  <1>1. /\ Over \in Handlers /\ Over.kind = "none" /\ Over.stage = "done"
        /\ FirstLoad \in Handlers /\ FirstLoad.kind = "load"
        /\ FirstLoad.stage = "loading"
    BY DEF Over, FirstLoad, Handler, Handlers, Kinds, Stages, Args
  <1>2. ASSUME NEW d \in Clicks
        PROVE  LET g == [h[d] EXCEPT !.gone = TRUE] IN
               g \in Handlers /\ g.kind = h[d].kind /\ g.stage = h[d].stage
               /\ g.arg = h[d].arg
    BY DEF HandlersOK, Handlers
  <1>3. h[c].stage = "idle"
    <2>1. h[c] = Idle
      BY DEF Reload, IsNext, Clicks
    <2> QED
      BY <2>1 DEF Idle, Handler
  <1>4. \A d \in Clicks :
           /\ h'[d] \in Handlers
           /\ \/ d = c /\ h'[d] = FirstLoad
              \/ h'[d] = Over
              \/ /\ h'[d].stage = h[d].stage /\ h'[d].kind = h[d].kind
                 /\ h'[d].arg = h[d].arg
                 /\ h[d].stage \in {"idle", "done", "sent", "checked",
                                  "committed"}
    BY <1>1, <1>2 DEF Reload, Waiting, HandlersOK
  <1>5. h' = [d \in Clicks |-> h'[d]] /\ h'[c] = FirstLoad
    BY DEF Reload
  <1>6. HandlersOK'
    BY <1>1, <1>4, <1>5 DEF HandlersOK, ArgOK
  <1>7. moves' \in 0 .. MaxMoves
    BY ScreenAssumption DEF TabOK, Reload
  <1>8. StoreOK' /\ TabOK'
    BY <1>7 DEF StoreOK, TabOK, Reload
  <1>9. ScreenInv'
    <2>1. \A d \in Clicks : h'[d].stage # "read"
      BY <1>1, <1>4
    <2>2. Brings(c)'
      BY <1>1, <1>5 DEF Brings
    <2> QED
      BY <2>1, <2>2 DEF ScreenInv, ReadsAreOld, ScreenFollows, Reload
  <1>10. OrdersInv'
    <2>1. \A i \in DOMAIN orders : h'[orders[i].click].stage \in Past
      BY <1>1, <1>3, <1>4, ClicksOrder DEF OrdersInv, Past
    <2>2. \A d \in Clicks : Ordered(d)' => Ordered(d)
      BY <1>1, <1>4 DEF Ordered
    <2> QED
      BY <2>1, <2>2
         DEF OrdersInv, HasOrdered, OneOrderPerClick, ConfirmedIsOrdered
  <1> QED
    BY <1>6, <1>8, <1>9, <1>10

-----------------------------------------------------------------------------
(* The steps of the tab                                                    *)

LEMMA CartStepsOK ==
    ASSUME TabInv, CartSteps
    PROVE  TabInv'
  <1> USE DEF TabInv, BrowserTyped
  <1>1. ASSUME NEW c \in Clicks, HandlerOfCart(c), Rendered
        PROVE  TabInv'
    <2>1. CASE Serve(c)
      <3>1. CASE ServeAdd(c)
        <4>1. basket.lines[h[c].arg] + 1 \in Nat
          BY <3>1, Listed DEF ServeAdd, HandlersOK, ArgOK
        <4> QED
          BY <1>1, <2>1, <3>1, <4>1, CartChangeOK DEF Serve, ServeAdd
      <3>2. CASE ServeRemove(c)
        BY <1>1, <2>1, <3>2, CartChangeOK DEF Serve, ServeRemove
      <3>3. CASE Refuse(c)
        <4>1. /\ Only(c) /\ HandlersOK'
              /\ h'[c].kind = "none" /\ h'[c].stage = "done"
          BY <3>3, BecomesOver DEF Refuse
        <4>2. /\ user \in Emails \cup {NoUser} /\ accounts \in Seq(Emails)
              /\ PanelOK'
          BY <1>1, Rerenders DEF StoreOK, TabOK, PanelOK, Rendered
        <4>3. /\ h[c].stage = "sent" /\ CartStateUnchanged /\ TabUnchanged
              /\ UNCHANGED <<basket, excused, orders, confirmed, user, accounts>>
          BY <1>1, <2>1, <3>3 DEF Serve, Refuse, Rendered
        <4> QED
          BY <4>1, <4>2, <4>3, AnswerOK
      <3> QED
        BY <2>1, <3>1, <3>2, <3>3 DEF Serve
    <2> QED
      BY <1>1, <2>1, ReadOK, ApplyOK, FailOK DEF HandlerOfCart
  <1>2. ASSUME NEW c \in Clicks, NEW p \in Products,
               ClickAdd(c, p) \/ ClickRemove(c, p), Rendered
        PROVE  TabInv'
    <2>1. PICK kind \in {"add", "remove"} : Start(c, kind, p)
      BY <1>2 DEF ClickAdd, ClickRemove
    <2>2. /\ here' \in {here, here \cup {c}} /\ CartStateUnchanged
          /\ UNCHANGED <<basket, drawer, page, excused, live, elsewhere, moves,
                         user, accounts, orders, confirmed>>
      BY <1>2 DEF ClickAdd, ClickRemove, TabUnchanged, Rendered
    <2>3. kind \in Kinds /\ p \in Args /\ ArgOK(kind, p)
      BY DEF Kinds, Args, ArgOK
    <2>4. PanelOK'
      BY <1>2, Rerenders DEF TabOK, PanelOK, Rendered
    <2> QED
      BY <2>1, <2>2, <2>3, <2>4, StartOK
  <1>3. CASE ToggleDrawer /\ Rendered
    <2>1. PanelOK'
      BY <1>3, Rerenders DEF TabOK, PanelOK, Rendered
    <2>2. TabOK'
      BY <1>3, <2>1 DEF TabOK, ToggleDrawer
    <2> QED
      BY <1>3, <2>2, NoHandlerOK
         DEF ToggleDrawer, CartStateUnchanged, Rendered, StoreOK
  <1> QED
    BY <1>1, <1>2, <1>3, OutsideOK DEF CartSteps, CartHandler

LEMMA MovesOK ==
    ASSUME TabInv, Moves
    PROVE  TabInv'
  <1> USE DEF TabInv, BrowserTyped
  <1>0. PanelOK'
    BY DEF Moves, LeaveBehind, TabOK, PanelOK
  <1>1. ASSUME NEW p \in Pages, Navigate(p) PROVE TabInv'
    <2>1. moves' \in 0 .. MaxMoves
      BY <1>1, ScreenAssumption DEF TabOK, Navigate
    <2>2. TabOK'
      BY <1>0, <1>1, <2>1 DEF TabOK, Navigate, Moves
    <2> QED
      BY <1>1, <2>2, NoHandlerOK
         DEF Navigate, Moves, CartStateUnchanged, StoreOK
  <1> QED
    BY <1>0, <1>1, ReloadOK DEF Moves

\* POST /users makes an account for an e-mail that has none.
LEMMA SignInOK ==
    ASSUME TabInv, NEW c \in Clicks, ServeSignIn(c)
    PROVE  TabInv'
  <1> USE DEF TabInv, BrowserTyped
  <1>1. /\ h[c].kind \in {"signUp", "signIn"}
        /\ h[c].stage \in {"sent", "checked"}
        /\ Become(c, Over) \/ \E s \in {"taken", "checked", "served"} : Stage(c, s)
    BY DEF ServeSignIn, CheckEmail, InsertUser, GetUser, LoseSignIn, Answer,
           SignInError, At
  <1>2. /\ Only(c) /\ HandlersOK'
        /\ \/ h'[c].kind = "none" /\ h'[c].stage = "done"
           \/ /\ h'[c].kind = h[c].kind
              /\ h'[c].stage \in {"taken", "checked", "served"}
    BY <1>1, StageIs, BecomesOver DEF Stages
  <1>3. accounts' \in Seq(Emails)
    <2>1. h[c].arg \in Emails
      BY <1>1 DEF HandlersOK, ArgOK
    <2> QED
      BY <2>1 DEF ServeSignIn, CheckEmail, InsertUser, GetUser, LoseSignIn,
                  StoreOK
  <1>4. /\ CartStateUnchanged /\ TabUnchanged
        /\ UNCHANGED <<basket, excused, orders, confirmed>>
        /\ user' \in Emails \cup {NoUser}
        /\ PanelOK'
    BY Rerenders DEF ServeSignIn, StoreOK, TabOK, PanelOK
  <1> QED
    BY <1>1, <1>2, <1>3, <1>4, AnswerOK

LEMMA PageStepsOK ==
    ASSUME TabInv, PageSteps
    PROVE  TabInv'
  <1> USE DEF TabInv, BrowserTyped
  <1>0. needsId \in Emails \cup {NoUser}
    BY DEF TabOK, PanelOK
  <1>1. ASSUME NEW c \in Clicks, ClickOrder(c) PROVE TabInv'
    <2>1. user \in Emails
      BY <1>1 DEF ClickOrder, View, CheckoutView, StoreOK
    <2>2. "order" \in Kinds /\ user \in Args /\ ArgOK("order", user)
      BY <2>1 DEF Kinds, Args, ArgOK
    <2>3. PanelOK'
      BY <1>0, <1>1, Rerenders DEF ClickOrder
    <2> QED
      BY <1>1, <2>2, <2>3, StartOK DEF ClickOrder
  <1>2. ASSUME NEW c \in Clicks, SubmitEmail(c) \/ SubmitId(c) PROVE TabInv'
    <2>1. PICK kind \in {"signUp", "signIn"}, e \in Emails : Submit(c, kind, e)
      BY <1>2 DEF SubmitEmail, SubmitId
    <2>2. kind \in Kinds /\ e \in Args /\ ArgOK(kind, e)
      BY DEF Kinds, Args, ArgOK
    <2>3. PanelOK'
      BY <1>0, <2>1, Rerenders DEF Submit
    <2> QED
      BY <2>1, <2>2, <2>3, StartOK DEF Submit
  <1>3. ASSUME NEW c \in Clicks, ServeOrder(c) PROVE TabInv'
    BY <1>3, CommitOK, ClearOK, FailedOrderOK DEF ServeOrder
  <1>4. ASSUME NEW c \in Clicks, SignedIn(c) \/ AskForId(c) PROVE TabInv'
    <2>1. /\ Only(c) /\ HandlersOK'
          /\ h'[c].kind = "none" /\ h'[c].stage = "done"
      BY <1>4, BecomesOver DEF SignedIn, AskForId
    <2>2. /\ h[c].kind \in {"signUp", "signIn"}
          /\ h[c].stage \in {"served", "taken"}
          /\ h[c].arg \in Emails
      BY <1>4 DEF SignedIn, AskForId, At, HandlersOK, ArgOK
    <2>3. /\ CartStateUnchanged /\ TabUnchanged
          /\ UNCHANGED <<basket, excused, accounts, orders, confirmed>>
          /\ user' \in Emails \cup {NoUser}
      BY <1>4, <2>2 DEF SignedIn, AskForId, StoreOK
    <2>4. PICK id \in Emails \cup {NoUser} : Rerender({}, id)
      BY <1>0, <1>4, <2>2 DEF SignedIn, AskForId
    <2>5. accounts' \in Seq(Emails) /\ PanelOK'
      BY <2>3, <2>4, Rerenders DEF StoreOK
    <2> QED
      BY <2>1, <2>2, <2>3, <2>5, AnswerOK
  <1>5. CASE UseAnotherEmail \/ SignOut
    <2>1. PanelOK'
      <3>1. CASE UseAnotherEmail
        BY <3>1 DEF UseAnotherEmail, TabOK, PanelOK, screenVars
      <3>2. CASE SignOut
        BY <1>0, <3>2, Rerenders DEF SignOut
      <3> QED
        BY <1>5, <3>1, <3>2
    <2>2. TabOK' /\ user' \in Emails \cup {NoUser}
      BY <1>5, <2>1 DEF UseAnotherEmail, SignOut, TabOK, StoreOK, screenVars
    <2> QED
      BY <1>5, <2>2, NoHandlerOK DEF UseAnotherEmail, SignOut, screenVars
  <1> QED
    BY <1>1, <1>2, <1>3, <1>4, <1>5, SignInOK, PlacedOK
       DEF PageSteps, HandlerOfPage

-----------------------------------------------------------------------------
(* One cart, one order                                                     *)

\* No order is made and none comes to its way; who leaves his panel on the way
\* is on his own, and who deletes the cart makes its orders old ones.
LEMMA OnceAside ==
    ASSUME BrowserInv, UNCHANGED orders,
           basket'.version \in Nat, basket.version <= basket'.version,
           apart \subseteq apart',
           \A d \in Clicks :
              /\ OnItsWay(d)' => OnItsWay(d)
              /\ At(d, "order", "committed") =>
                    \/ At(d, "order", "committed")'
                    \/ d \in apart'
                    \/ basket.version # basket'.version
              /\ d \in panel /\ OnItsWay(d)' => d \in panel' \/ d \in apart'
              /\ d \in panel' /\ OnItsWay(d)' => d \in panel,
           panel' \subseteq Clicks
    PROVE  OnceInv'
  <1> USE DEF BrowserInv, OnceInv
  <1>1. basket.version \in Nat
    BY Listed DEF TabInv, BrowserTyped
  <1>2. \A i \in DOMAIN orders : /\ orders[i].click \in Clicks
                                 /\ orders[i].version \in Nat
    <2>1. \A i \in DOMAIN orders : orders[i] \in Placing
      BY DEF TabInv, BrowserTyped, StoreOK
    <2> QED
      BY <2>1 DEF Placing
  <1>3. OrdersAreOld'
    <2>1. ASSUME NEW i \in DOMAIN orders
          PROVE  /\ orders[i].version <= basket'.version
                 /\ orders[i].version = basket'.version =>
                       \/ At(orders[i].click, "order", "committed")'
                       \/ orders[i].click \in apart'
      <3>1. orders[i].version <= basket.version
        BY DEF OrdersAreOld
      <3>2. CASE orders[i].version = basket.version
        BY <1>1, <1>2, <3>1, <3>2 DEF OrdersAreOld
      <3>3. CASE orders[i].version # basket.version
        BY <1>1, <1>2, <3>1, <3>3
      <3> QED
        BY <3>2, <3>3
    <2> QED
      BY <2>1 DEF OrdersAreOld
  <1>4. PanelsServeOne'
    <2>1. \A c \in Clicks : OnItsWay(c)' => c \in panel' \/ c \in apart'
      BY DEF PanelsServeOne
    <2>2. \A c, d \in panel' : OnItsWay(c)' /\ OnItsWay(d)' => c = d
      BY DEF PanelsServeOne
    <2> QED
      BY <2>1, <2>2 DEF PanelsServeOne
  <1>5. CartsAreOrderedOnce'
    BY DEF CartsAreOrderedOnce
  <1> QED
    BY <1>3, <1>4, <1>5

LEMMA RenderedOnce ==
    ASSUME BrowserInv, UNCHANGED orders,
           basket'.version \in Nat, basket.version <= basket'.version,
           LeaveBehind, panel' \subseteq panel,
           \A d \in Clicks :
              /\ OnItsWay(d)' => OnItsWay(d)
              /\ At(d, "order", "committed") =>
                    \/ At(d, "order", "committed")'
                    \/ basket.version # basket'.version
    PROVE  OnceInv'
  <1>1. panel \subseteq Clicks
    BY DEF BrowserInv, TabInv, BrowserTyped, TabOK, PanelOK
  <1>2. apart \subseteq apart'
    BY DEF LeaveBehind
  <1>3. \A d \in Clicks :
           d \in panel /\ OnItsWay(d)' => d \in panel' \/ d \in apart'
    BY DEF LeaveBehind
  <1> QED
    BY <1>1, <1>2, <1>3, OnceAside

\* The same for a step of one handler.
LEMMA HandlerOnce ==
    ASSUME BrowserInv, NEW c \in Clicks, Only(c), UNCHANGED orders,
           basket'.version \in Nat, basket.version <= basket'.version,
           OnItsWay(c)' => OnItsWay(c),
           At(c, "order", "committed") => basket.version # basket'.version,
           NEW id, Rerender({}, id)
    PROVE  OnceInv'
  <1>1. LeaveBehind /\ panel' \subseteq panel
    BY DEF Rerender
  <1>2. \A d \in Clicks :
           /\ OnItsWay(d)' => OnItsWay(d)
           /\ At(d, "order", "committed") =>
                 \/ At(d, "order", "committed")'
                 \/ basket.version # basket'.version
    BY DEF Only, OnItsWay, At
  <1> QED
    BY <1>1, <1>2, RenderedOnce

LEMMA CartStepsOnce ==
    ASSUME BrowserInv, CartSteps
    PROVE  OnceInv'
  <1> USE DEF BrowserInv, TabInv, BrowserTyped
  <1>0. /\ basket.version \in Nat /\ basket.version <= basket.version
        /\ UNCHANGED orders /\ Rerender({}, needsId)
    BY Listed DEF CartSteps, CartHandler, Rendered
  <1>1. ASSUME NEW c \in Clicks, HandlerOfCart(c) PROVE OnceInv'
    <2>1. CASE Serve(c)
      <3>1. h[c].stage = "sent" /\ h[c].kind \in {"add", "remove"}
        BY <2>1 DEF Serve, ServeAdd, ServeRemove, Refuse
      <3>2. /\ Only(c)
            /\ h'[c].kind = h[c].kind \/ h'[c].kind = "none"
        BY <2>1, StageIs, BecomesOver
           DEF Serve, ServeAdd, ServeRemove, Refuse, Change, AfterAnswer, Stages
      <3>3. /\ basket'.version \in Nat /\ basket.version <= basket'.version
        <4>1. CASE Refuse(c)
          BY <1>0, <4>1 DEF Refuse
        <4>2. ASSUME NEW n \in Nat, Change(c, n)
              PROVE  basket'.version = basket.version + 1
          <5>1. h[c].arg \in Products
            BY <3>1 DEF HandlersOK, ArgOK
          <5> QED
            BY <4>2, <5>1, NewLine, NewBasket DEF Change, SetLine
        <4>3. CASE ServeAdd(c)
          <5>1. basket.lines[h[c].arg] + 1 \in Nat
            BY <3>1, Listed DEF HandlersOK, ArgOK
          <5> QED
            BY <1>0, <4>2, <4>3, <5>1 DEF ServeAdd
        <4>4. CASE ServeRemove(c)
          BY <1>0, <4>2, <4>4 DEF ServeRemove
        <4> QED
          BY <2>1, <4>1, <4>3, <4>4 DEF Serve
      <3> QED
        BY <1>0, <3>1, <3>2, <3>3, HandlerOnce DEF OnItsWay, At
    <2>2. CASE ReadBasket(c)
      <3>1. h[c].stage = "loading" /\ basket' = basket
        BY <2>2 DEF ReadBasket
      <3>2. \A d \in Clicks : /\ OnItsWay(d)' => OnItsWay(d)
                              /\ At(d, "order", "committed") =>
                                    At(d, "order", "committed")'
        BY <2>2, <3>1 DEF ReadBasket, OnItsWay, At, HandlersOK, Handlers
      <3>3. LeaveBehind /\ panel' \subseteq panel
        BY <1>0 DEF Rerender
      <3> QED
        BY <1>0, <3>1, <3>2, <3>3, RenderedOnce
    <2>3. CASE ApplyRefresh(c) \/ FailRefresh(c)
      <3>1. /\ h[c].stage \in {"read", "loading"} /\ basket' = basket
            /\ Only(c) /\ h'[c].kind = "none"
        BY <2>3, BecomesOver DEF ApplyRefresh, FailRefresh, Finish
      <3> QED
        BY <1>0, <3>1, HandlerOnce DEF OnItsWay, At
    <2> QED
      BY <1>1, <2>1, <2>2, <2>3 DEF HandlerOfCart
  <1>2. ASSUME NEW c \in Clicks, NEW p \in Products,
               ClickAdd(c, p) \/ ClickRemove(c, p)
        PROVE  OnceInv'
    <2>1. PICK kind \in {"add", "remove"} : Start(c, kind, p)
      BY <1>2 DEF ClickAdd, ClickRemove
    <2>2. kind \in Kinds /\ p \in Args /\ ArgOK(kind, p)
      BY DEF Kinds, Args, ArgOK
    <2>3. /\ Only(c) /\ h[c].stage = "idle" /\ h'[c].kind = kind
      BY <2>1, <2>2, Starts
    <2>4. basket' = basket
      BY <1>2 DEF ClickAdd, ClickRemove
    <2> QED
      BY <1>0, <2>3, <2>4, HandlerOnce DEF OnItsWay, At
  <1>3. ASSUME h' = h, basket'.version \in Nat,
               basket.version <= basket'.version
        PROVE  OnceInv'
    <2>1. LeaveBehind /\ panel' \subseteq panel
      BY <1>0 DEF Rerender
    <2> QED
      BY <1>0, <1>3, <2>1, RenderedOnce DEF OnItsWay, At
  <1>4. CASE ToggleDrawer
    BY <1>0, <1>3, <1>4 DEF ToggleDrawer
  <1>5. ASSUME Elsewhere \/ \E p \in Products : Withdraw(p) PROVE OnceInv'
    <2>1. /\ h' = h
          /\ \/ basket'.version = basket.version + 1
             \/ basket' = basket
      BY <1>5 DEF Elsewhere, Withdraw, Outside, SetLine, SetLines
    <2> QED
      BY <1>0, <1>3, <2>1
  <1> QED
    BY <1>1, <1>2, <1>4, <1>5 DEF CartSteps, CartHandler

LEMMA MovesOnce ==
    ASSUME BrowserInv, Moves
    PROVE  OnceInv'
  <1> USE DEF BrowserInv, TabInv, BrowserTyped
  <1>1. /\ basket.version \in Nat /\ basket' = basket /\ UNCHANGED orders
        /\ LeaveBehind /\ panel' \subseteq panel
    BY Listed DEF Moves, Navigate, Reload
  <1>2. ASSUME NEW d \in Clicks
        PROVE  /\ OnItsWay(d)' => OnItsWay(d)
               /\ At(d, "order", "committed") => At(d, "order", "committed")'
    <2>1. CASE h' = h
      BY <2>1 DEF OnItsWay, At
    <2>2. ASSUME NEW c \in Clicks, Reload(c)
          PROVE  /\ OnItsWay(d)' => OnItsWay(d)
                 /\ At(d, "order", "committed") => At(d, "order", "committed")'
      <3>1. /\ FirstLoad.kind = "load" /\ Over.kind = "none"
            /\ h[c].stage = "idle"
        <4>1. h[c] = Idle
          BY <2>2 DEF Reload, IsNext, Clicks
        <4> QED
          BY <4>1 DEF FirstLoad, Over, Idle, Handler
      <3>2. LET g == [h[d] EXCEPT !.gone = TRUE] IN
            g.kind = h[d].kind /\ g.stage = h[d].stage
        BY DEF HandlersOK, Handlers
      <3>3. \/ h'[d].kind \in {"load", "none"}
               /\ (d = c \/ h[d].stage # "committed")
            \/ h'[d].kind = h[d].kind /\ h'[d].stage = h[d].stage
        BY <2>2, <3>1, <3>2 DEF Reload
      <3> QED
        BY <3>1, <3>3 DEF OnItsWay, At
    <2> QED
      BY <2>1, <2>2 DEF Moves, Navigate
  <1> QED
    BY <1>1, <1>2, RenderedOnce

\* The button was enabled, so that nobody else in this panel is on the way.
LEMMA ClickOnce ==
    ASSUME BrowserInv, NEW c \in Clicks, ClickOrder(c)
    PROVE  OnceInv'
  <1> USE DEF BrowserInv, TabInv, BrowserTyped
  <1>1. Only(c) /\ h[c].stage = "idle"
    <2>1. user \in Emails
      BY DEF ClickOrder, View, CheckoutView, StoreOK
    <2>2. "order" \in Kinds /\ user \in Args /\ ArgOK("order", user)
      BY <2>1 DEF Kinds, Args, ArgOK
    <2> QED
      BY <2>2, Starts DEF ClickOrder
  <1>2. /\ UNCHANGED <<basket, orders, page, shown, confirmed, user>>
        /\ here' = here \cup {c} /\ Rerender({c}, needsId)
    BY DEF ClickOrder, CartStateUnchanged
  <1>3. View' = View
    BY <1>2 DEF View, CheckoutView
  <1>4. panel \subseteq here /\ here \subseteq Clicks
    BY DEF TabOK, PanelOK
  <1>5. panel' = panel \cup {c}
    BY <1>2, <1>3, <1>4 DEF Rerender
  <1>6. apart' = apart
    BY <1>2, <1>5 DEF Rerender, LeaveBehind
  <1>7. \A d \in Clicks :
           /\ At(d, "order", "committed") => At(d, "order", "committed")'
           /\ d # c => (OnItsWay(d)' <=> OnItsWay(d))
    BY <1>1 DEF Only, At, OnItsWay
  <1>8. OrdersAreOld'
    BY <1>2, <1>6, <1>7, ClicksOrder DEF OnceInv, OrdersAreOld
  <1>9. PanelsServeOne'
    <2>1. \A d \in Clicks : OnItsWay(d)' => d \in panel' \/ d \in apart'
      BY <1>5, <1>6, <1>7 DEF OnceInv, PanelsServeOne
    <2>2. \A d \in panel' : OnItsWay(d)' => d = c
      BY <1>4, <1>5, <1>7 DEF ClickOrder, Enabled
    <2> QED
      BY <2>1, <2>2 DEF PanelsServeOne
  <1>10. CartsAreOrderedOnce'
    BY <1>2, <1>6 DEF OnceInv, CartsAreOrderedOnce
  <1> QED
    BY <1>8, <1>9, <1>10 DEF OnceInv

\* Who finds the cart ordered already and not deleted yet is not alone in his
\* panel, or one of the two is on his own.
LEMMA CommitOnce ==
    ASSUME BrowserInv, NEW c \in Clicks, CommitOrder(c), ServeOrder(c)
    PROVE  OnceInv'
  <1> USE DEF BrowserInv, TabInv, BrowserTyped
  <1> DEFINE o == [click |-> c, lines |-> basket.lines,
                   version |-> basket.version, user |-> h[c].arg]
  <1>1. /\ Only(c)
        /\ h[c].kind = "order" /\ h[c].stage = "sent"
        /\ h'[c].stage = "committed" /\ h'[c].kind = "order"
    BY StageIs DEF CommitOrder, Stages, At
  <1>2. orders' = Append(orders, o) /\ orders \in Seq(Placing) /\ o \in Placing
    BY <1>1, Listed DEF CommitOrder, StoreOK, HandlersOK, ArgOK, Placing
  <1>3. /\ \A i \in DOMAIN orders : i \in DOMAIN orders'
                                    /\ orders'[i] = orders[i]
        /\ \A i \in DOMAIN orders' :
              i \in DOMAIN orders \/ (i = Len(orders) + 1 /\ orders'[i] = o)
    BY <1>2, OneMore
  <1>4. basket' = basket /\ basket.version \in Nat
    BY Listed DEF CommitOrder
  <1>5. /\ panel' \subseteq panel /\ apart \subseteq apart' /\ LeaveBehind
    BY DEF CommitOrder, Rerender, LeaveBehind
  <1>6. o.click = c /\ o.version = basket.version
    OBVIOUS
  <1>7. \A i \in DOMAIN orders : orders[i].click \in Clicks
    BY ClicksOrder
  <1>8. OrdersAreOld'
    <2> DEFINE Served(d) == h'[d].kind = "order" /\ h'[d].stage = "committed"
    <2>1. ASSUME NEW i \in DOMAIN orders'
          PROVE  /\ orders'[i].version <= basket.version
                 /\ orders'[i].version = basket.version =>
                       \/ Served(orders'[i].click)
                       \/ orders'[i].click \in apart'
      <3>1. CASE orders'[i] = o
        BY <1>1, <1>4, <1>6, <3>1
      <3>2. CASE i \in DOMAIN orders
        <4>1. \A d \in Clicks : At(d, "order", "committed") => Served(d)
          BY <1>1 DEF Only, At
        <4> QED
          BY <1>3, <1>5, <1>7, <3>2, <4>1 DEF OnceInv, OrdersAreOld
      <3> QED
        BY <1>3, <3>1, <3>2
    <2> QED
      BY <1>4, <2>1 DEF OrdersAreOld, At
  <1>9. PanelsServeOne'
    <2>1. \A d \in Clicks : OnItsWay(d)' <=> OnItsWay(d)
      BY <1>1 DEF Only, OnItsWay
    <2>2. panel \subseteq Clicks
      BY DEF TabOK, PanelOK
    <2>3. \A d \in Clicks : OnItsWay(d)' => d \in panel' \/ d \in apart'
      BY <1>5, <2>1 DEF OnceInv, PanelsServeOne, LeaveBehind
    <2>4. \A d, e \in panel' : OnItsWay(d)' /\ OnItsWay(e)' => d = e
      BY <1>5, <2>1, <2>2 DEF OnceInv, PanelsServeOne
    <2> QED
      BY <2>3, <2>4 DEF PanelsServeOne
  <1>10. CartsAreOrderedOnce'
    <2>1. ASSUME NEW i \in DOMAIN orders, orders[i].version = basket.version,
                 orders[i].click # c
          PROVE  {orders[i].click, c} \cap apart # {}
      <3>1. CASE orders[i].click \in apart
        BY <3>1
      <3>2. CASE At(orders[i].click, "order", "committed")
        <4>1. OnItsWay(c) /\ OnItsWay(orders[i].click)
          BY <1>1, <3>2 DEF OnItsWay, At
        <4> QED
          BY <1>7, <2>1, <4>1 DEF OnceInv, PanelsServeOne
      <3> QED
        BY <2>1, <3>1, <3>2 DEF OnceInv, OrdersAreOld
    <2>2. ASSUME NEW i \in DOMAIN orders', NEW j \in DOMAIN orders',
                 orders'[i].click # orders'[j].click,
                 orders'[i].version = orders'[j].version
          PROVE  {orders'[i].click, orders'[j].click} \cap apart' # {}
      <3>1. CASE i \in DOMAIN orders /\ j \in DOMAIN orders
        BY <1>3, <1>5, <2>2, <3>1 DEF OnceInv, CartsAreOrderedOnce
      <3>2. CASE i \in DOMAIN orders /\ orders'[j] = o
        BY <1>3, <1>5, <1>6, <2>1, <2>2, <3>2
      <3>3. CASE orders'[i] = o /\ j \in DOMAIN orders
        BY <1>3, <1>5, <1>6, <2>1, <2>2, <3>3
      <3>4. CASE orders'[i] = o /\ orders'[j] = o
        BY <2>2, <3>4
      <3> QED
        BY <1>3, <3>1, <3>2, <3>3, <3>4
    <2> QED
      BY <2>2 DEF CartsAreOrderedOnce
  <1> QED
    BY <1>8, <1>9, <1>10 DEF OnceInv

LEMMA PageStepsOnce ==
    ASSUME BrowserInv, PageSteps
    PROVE  OnceInv'
  <1> USE DEF BrowserInv, TabInv, BrowserTyped
  <1>0. /\ basket.version \in Nat /\ basket.version <= basket.version
        /\ basket.version <= basket.version + 1
        /\ basket.version + 1 \in Nat /\ basket.version # basket.version + 1
    BY Listed
  <1>1. ASSUME NEW c \in Clicks, SubmitEmail(c) \/ SubmitId(c) PROVE OnceInv'
    <2>1. PICK kind \in {"signUp", "signIn"}, e \in Emails : Submit(c, kind, e)
      BY <1>1 DEF SubmitEmail, SubmitId
    <2>2. kind \in Kinds /\ e \in Args /\ ArgOK(kind, e)
      BY DEF Kinds, Args, ArgOK
    <2>3. Only(c) /\ h[c].stage = "idle" /\ h'[c].kind = kind
      BY <2>1, <2>2, Starts DEF Submit
    <2>4. basket' = basket /\ orders' = orders /\ Rerender({c}, needsId)
      BY <2>1 DEF Submit
    <2>5. \A d \in Clicks :
             /\ OnItsWay(d)' => OnItsWay(d)
             /\ At(d, "order", "committed") => At(d, "order", "committed")'
      BY <2>3 DEF Only, OnItsWay, At
    <2>6. ~OnItsWay(c)'
      BY <2>3 DEF OnItsWay
    <2>7. panel \subseteq Clicks
      BY DEF TabOK, PanelOK
    <2>8. /\ LeaveBehind /\ apart \subseteq apart'
          /\ panel' \subseteq panel \cup {c}
      BY <2>4 DEF Rerender, LeaveBehind
    <2>9. \A d \in Clicks :
             /\ d \in panel /\ OnItsWay(d)' => d \in panel' \/ d \in apart'
             /\ d \in panel' /\ OnItsWay(d)' => d \in panel
      BY <2>5, <2>6, <2>8 DEF LeaveBehind
    <2> QED
      BY <1>0, <2>4, <2>5, <2>7, <2>8, <2>9, OnceAside
  <1>2. ASSUME NEW c \in Clicks, ServeOrder(c) PROVE OnceInv'
    <2>1. CASE CommitOrder(c)
      BY <1>2, <2>1, CommitOnce
    <2>2. CASE ClearBasket(c)
      <3>1. /\ Only(c) /\ h[c].kind = "order" /\ h[c].stage = "committed"
            /\ h'[c].stage \in {"served", "done"}
        BY <2>2, StageIs, BecomesOver DEF ClearBasket, AfterFailure, Stages, At
      <3>2. /\ basket'.version = basket.version + 1 /\ orders' = orders
            /\ Rerender({}, needsId)
        BY <2>2 DEF ClearBasket, SetLines
      <3> QED
        BY <1>0, <3>1, <3>2, HandlerOnce DEF OnItsWay, At
    <2>3. CASE RefuseOrder(c)
      <3>1. Only(c) /\ h[c].stage = "sent" /\ h'[c].stage = "done"
        BY <2>3, BecomesOver DEF RefuseOrder, AfterFailure, At
      <3> QED
        BY <1>0, <2>3, <3>1, HandlerOnce DEF RefuseOrder, OnItsWay, At
    <2>4. CASE StopOrder(c)
      <3>1. Only(c) /\ h'[c].stage = "done"
        BY <2>4, BecomesOver DEF StopOrder, AfterFailure
      <3>2. /\ UNCHANGED <<basket, orders, panel>> /\ apart' = apart \cup {c}
        BY <2>4 DEF StopOrder
      <3>3. \A d \in Clicks :
               /\ OnItsWay(d)' => OnItsWay(d)
               /\ At(d, "order", "committed") =>
                     At(d, "order", "committed")' \/ d \in apart'
        BY <3>1, <3>2 DEF Only, OnItsWay, At
      <3>4. panel \subseteq Clicks
        BY DEF TabOK, PanelOK
      <3> QED
        BY <1>0, <3>2, <3>3, <3>4, OnceAside
    <2> QED
      BY <1>2, <2>1, <2>2, <2>3, <2>4 DEF ServeOrder
  <1>3. ASSUME NEW c \in Clicks, Placed(c) PROVE OnceInv'
    <2>1. Only(c) /\ h[c].stage = "served" /\ h'[c].stage = "loading"
      BY <1>3, StageIs DEF Placed, Stages, At
    <2> QED
      BY <1>0, <1>3, <2>1, HandlerOnce DEF Placed, OnItsWay, At
  <1>4. ASSUME NEW c \in Clicks, ServeSignIn(c) PROVE OnceInv'
    <2>1. /\ h[c].kind \in {"signUp", "signIn"}
          /\ \/ Become(c, Over)
             \/ \E s \in {"taken", "checked", "served"} : Stage(c, s)
      BY <1>4 DEF ServeSignIn, CheckEmail, InsertUser, GetUser, LoseSignIn,
                  Answer, SignInError, At
    <2>2. Only(c) /\ h'[c].kind # "order"
      BY <2>1, StageIs, BecomesOver DEF Stages
    <2> QED
      BY <1>0, <1>4, <2>1, <2>2, HandlerOnce DEF ServeSignIn, OnItsWay, At
  <1>5. ASSUME NEW c \in Clicks, SignedIn(c) \/ AskForId(c) PROVE OnceInv'
    <2>1. Only(c) /\ h'[c].kind = "none" /\ h[c].kind # "order"
      BY <1>5, BecomesOver DEF SignedIn, AskForId, At
    <2>2. PICK id : Rerender({}, id)
      BY <1>5 DEF SignedIn, AskForId
    <2>3. basket' = basket /\ orders' = orders
      BY <1>5 DEF SignedIn, AskForId
    <2> QED
      BY <1>0, <2>1, <2>2, <2>3, HandlerOnce DEF OnItsWay, At
  <1>6. CASE UseAnotherEmail \/ SignOut
    <2>1. /\ UNCHANGED <<basket, orders, h>>
      BY <1>6 DEF UseAnotherEmail, SignOut, screenVars
    <2>2. /\ panel' \subseteq panel /\ LeaveBehind
      BY <1>6 DEF UseAnotherEmail, SignOut, Rerender, LeaveBehind
    <2> QED
      BY <1>0, <2>1, <2>2, RenderedOnce DEF OnItsWay, At
  <1> QED
    BY <1>1, <1>2, <1>3, <1>4, <1>5, <1>6, ClickOnce
       DEF PageSteps, HandlerOfPage

-----------------------------------------------------------------------------
(* Theorems                                                                *)

LEMMA TabStart == BrowserInit => TabInv
  <1> SUFFICES ASSUME BrowserInit PROVE TabInv
    OBVIOUS
  <1>1. /\ FirstLoad \in Handlers /\ FirstLoad.kind = "load"
        /\ FirstLoad.stage = "loading"
        /\ Idle \in Handlers /\ Idle.kind = "none" /\ Idle.stage = "idle"
    BY DEF FirstLoad, Idle, Handler, Handlers, Kinds, Stages, Args
  <1>2. /\ h \in [Clicks -> Handlers]
        /\ \A c \in Clicks : h[c] = FirstLoad \/ h[c] = Idle
        /\ 1 \in Clicks /\ h[1] = FirstLoad
    BY <1>1, ScreenAssumption DEF BrowserInit, ScreenInit, Clicks
  <1>3. HandlersOK
    BY <1>1, <1>2 DEF HandlersOK, ArgOK
  <1>4. orders = <<>> /\ accounts = <<>> /\ basket \in Carts
    BY DEF BrowserInit, ScreenInit, Carts, NoLines
  <1>5. 0 \in 0 .. MaxElsewhere /\ 0 \in 0 .. MaxMoves
    BY ScreenAssumption
  <1>6. StoreOK
    BY <1>4 DEF StoreOK, BrowserInit, ScreenInit
  <1>7. TabOK
    BY <1>5 DEF TabOK, PanelOK, BrowserInit, ScreenInit, Pages
  <1>8. ScreenInv
    <2>1. Brings(1)
      BY <1>1, <1>2 DEF Brings
    <2>2. ReadsAreOld
      BY <1>1, <1>2 DEF ReadsAreOld, BrowserInit, ScreenInit
    <2> QED
      BY <1>2, <2>1, <2>2 DEF ScreenInv, ScreenFollows
  <1>9. OrdersInv
    BY <1>1, <1>2, <1>4
       DEF OrdersInv, OneOrderPerClick, ConfirmedIsOrdered, BrowserInit, Ordered
  <1> QED
    BY <1>3, <1>4, <1>6, <1>7, <1>8, <1>9
       DEF TabInv, BrowserTyped

LEMMA BrowserStart == BrowserInit => BrowserInv
  <1> SUFFICES ASSUME BrowserInit PROVE OnceInv
    BY TabStart DEF BrowserInv
  <1>1. ASSUME NEW c \in Clicks PROVE ~OnItsWay(c)
    BY DEF BrowserInit, ScreenInit, FirstLoad, Idle, Handler, OnItsWay
  <1>2. orders = <<>> /\ panel = {}
    BY DEF BrowserInit
  <1> QED
    BY <1>1, <1>2 DEF OnceInv, OrdersAreOld, PanelsServeOne, CartsAreOrderedOnce

\* The invariant from which the theorems below follow: handlers keep their
\* arguments, a cart that changed is on its way to the screen or excused
\* (ScreenFollows), who confirms has ordered, and who has ordered the cart as
\* it is still has to delete it or is on his own (OrdersAreOld).
THEOREM BrowserInvariance == BrowserSpec => []BrowserInv
  <1>1. BrowserInv /\ [BrowserNext]_browserVars => BrowserInv'
    <2>1. ASSUME BrowserInv, UNCHANGED browserVars PROVE BrowserInv'
      <3>1. TabOK' /\ user' \in Emails \cup {NoUser}
        BY <2>1 DEF BrowserInv, TabInv, BrowserTyped, TabOK, PanelOK, StoreOK,
                    browserVars, screenVars, pageVars
      <3>2. TabInv'
        BY <2>1, <3>1, NoHandlerOK
           DEF BrowserInv, browserVars, screenVars, pageVars
      <3>3. OnceInv'
        BY <2>1 DEF BrowserInv, OnceInv, OrdersAreOld, PanelsServeOne,
                    CartsAreOrderedOnce, OnItsWay, At,
                    browserVars, screenVars, pageVars
      <3> QED
        BY <3>2, <3>3 DEF BrowserInv
    <2>2. ASSUME BrowserInv, BrowserNext PROVE BrowserInv'
      <3>1. TabInv'
        BY <2>2, CartStepsOK, MovesOK, PageStepsOK DEF BrowserInv, BrowserNext
      <3>2. OnceInv'
        BY <2>2, CartStepsOnce, MovesOnce, PageStepsOnce DEF BrowserNext
      <3> QED
        BY <3>1, <3>2 DEF BrowserInv
    <2> QED
      BY <2>1, <2>2
  <1> QED
    BY <1>1, BrowserStart, PTL DEF BrowserSpec

\* Types of a tab and of what it knows of the server.
THEOREM BrowserTypeCorrect == BrowserSpec => []BrowserTypeOK
  <1>1. BrowserInv => BrowserTypeOK
    BY TypesOfBrowser DEF BrowserInv, TabInv
  <1> QED
    BY <1>1, BrowserInvariance, PTL

\* When all is quiet, the screen shows what GET /cart would answer unless there
\* is an excuse, however many handlers there were and in whatever order they
\* were answered (CartContext.tsx:55-62, CartDrawer.tsx:19-27, cart.py:162-191).
THEOREM LateScreensHaveReasons == BrowserSpec => []ScreenLagsForAReason
  <1>1. BrowserInv => ScreenLagsForAReason
    BY DEF BrowserInv, TabInv, ScreenInv, ScreenFollows, ScreenLagsForAReason,
           Quiet, Waiting, Brings, At
  <1> QED
    BY <1>1, BrowserInvariance, PTL

\* What a page confirms was ordered by a click on the page that is mounted
\* (CheckoutPage.tsx:78-82, client.ts:40-44).
THEOREM ConfirmationsAreTrue == BrowserSpec => []ConfirmedIsOrdered
  <1>1. BrowserInv => ConfirmedIsOrdered
    BY DEF BrowserInv, TabInv, OrdersInv
  <1> QED
    BY <1>1, BrowserInvariance, PTL

\* A click orders at most once: no request is sent twice (client.ts:32-47).
THEOREM ClicksOrderOnce == BrowserSpec => []OneOrderPerClick
  <1>1. BrowserInv => OneOrderPerClick
    BY DEF BrowserInv, TabInv, OrdersInv
  <1> QED
    BY <1>1, BrowserInvariance, PTL

\* Two clicks order the same cart only if one of them lost its panel before the
\* DEL or failed behind its commit (CheckoutPage.tsx:199-215, orders.py:156-160).
THEOREM CartsOrderOnce == BrowserSpec => []CartsAreOrderedOnce
  <1>1. BrowserInv => CartsAreOrderedOnce
    BY DEF BrowserInv, OnceInv
  <1> QED
    BY <1>1, BrowserInvariance, PTL

\* Only a move of the customer takes the confirmation away, no answer and no
\* other handler does (CheckoutPage.tsx:7).
THEOREM ConfirmationsStay == BrowserSpec => ConfirmationStays
  <1>1. BrowserInv /\ [BrowserNext]_browserVars
            => [View = "confirmation" => View' = "confirmation" \/ moves' # moves
               ]_browserVars
    <2> SUFFICES ASSUME BrowserInv, BrowserNext, View = "confirmation",
                        moves' = moves
        PROVE  View' = "confirmation"
      OBVIOUS
    <2>1. page = "checkout" /\ confirmed # NoClick
      BY DEF View, CheckoutView
    <2>2. page' = page /\ (confirmed' = confirmed \/ confirmed' \in Clicks)
      <3>1. CASE Moves
        <4>1. moves' = moves + 1 /\ moves \in Nat
          BY <3>1 DEF Moves, Navigate, Reload, BrowserInv, TabInv, BrowserTyped,
                      TabOK
        <4> QED
          BY <4>1
      <3>2. CASE CartSteps
        BY <3>2 DEF CartSteps, CartHandler, HandlerOfCart, Serve, ReadBasket,
                    ApplyRefresh, FailRefresh, ClickAdd, ClickRemove,
                    ToggleDrawer, Elsewhere, Withdraw, Outside, TabUnchanged,
                    Rendered
      <3>3. CASE PageSteps
        BY <3>3 DEF PageSteps, HandlerOfPage, ClickOrder, SubmitEmail, SubmitId,
                    Submit, ServeOrder, Placed, ConfirmedBy, ServeSignIn,
                    SignedIn, AskForId, UseAnotherEmail, SignOut, TabUnchanged,
                    screenVars
      <3> QED
        BY <3>1, <3>2, <3>3 DEF BrowserNext
    <2>3. confirmed' # NoClick
      BY <2>1, <2>2, NoClickAssumption
    <2> QED
      BY <2>1, <2>2, <2>3 DEF View, CheckoutView
  <1> QED
    BY <1>1, BrowserInvariance, PTL DEF BrowserSpec, ConfirmationStays
=============================================================================
