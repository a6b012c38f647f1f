----------------------------- MODULE ProductPage -----------------------------
(***************************************************************************)
(* pages/ProductPage.tsx: one product with the quantity to be added.  From *)
(* one product to another the page stays mounted and its effect runs       *)
(* again; the image never fails (getProductImageUrl catches), so the pair  *)
(* of requests is answered or fails with GET /products/{id}.  What the     *)
(* Add-to-cart button does is in CartScreen.tla.                           *)
(***************************************************************************)
EXTENDS Client

CONSTANTS
    Products, StockLevels,
    Invalid,        \* an id that is not a number
    NoId            \* the page is not mounted, or no effect has run yet

ASSUME StockAssumption == StockLevels \subseteq Nat

VARIABLES
    productId,      \* Number(id) of the URL, or NoId
    productKey,     \* the id with which the effect ran last, or NoId
    detail          \* the hooks: [product, stock, quantity, loading, error]

productVars == <<productId, productKey, detail>>

Ids == Products \cup {Invalid}

ProductTypeOK ==
    /\ productId \in Ids \cup {NoId}
    /\ productKey \in Ids \cup {NoId}
    /\ detail \in [product : Products \cup {NoId},
                   stock : StockLevels \cup {0}, quantity : Nat,
                   loading : BOOLEAN, error : BOOLEAN]

\* Quantities are counted in halves: a fraction passes the clamp of the input
\* as well (and the int of POST /cart answers it with 422).
One == 2

FreshDetail == [product |-> NoId, stock |-> 0, quantity |-> One,
                loading |-> TRUE, error |-> FALSE]

ProductInit == productId = NoId /\ productKey = NoId /\ detail = FreshDetail

\* The route "/products/:id" is entered, or its id changes.
ProductOpen(id) ==
    /\ productId' = id
    /\ UNCHANGED <<productKey, detail, calls>>

ProductLeave ==
    /\ productId # NoId
    /\ productId' = NoId /\ productKey' = NoId /\ detail' = FreshDetail
    /\ Cancel("product")

NoNumber == productId = Invalid

\* useEffect: an id that is not a number fails without a request, after the
\* cleanup of the former effect.
ProductEffect ==
    /\ productId # NoId /\ productId # productKey
    /\ productKey' = productId
    /\ IF NoNumber
       THEN /\ detail' = [detail EXCEPT !.loading = FALSE, !.error = TRUE]
            /\ Cancel("product")
       ELSE /\ detail' = [detail EXCEPT !.loading = TRUE, !.error = FALSE]
            /\ CancelAndSend("product", productId)
    /\ UNCHANGED productId

\* Mutant: "if (cancelled) return" is forgotten.
WantedAlways(c) == TRUE

Wanted(c) == calls[c].live

\* Mutant: the quantity of the former product is kept.
FirstQuantityKept == detail.quantity

\* "Reset the quantity input when navigating between products."
FirstQuantity == One

ProductAnswered(c) ==
    /\ calls[c].api = "product"
    /\ Over(c)
    /\ \E n \in StockLevels :
          detail' = IF Wanted(c)
                    THEN [product |-> calls[c].key, stock |-> n,
                          quantity |-> FirstQuantity,
                          loading |-> FALSE, error |-> detail.error]
                    ELSE detail
    /\ UNCHANGED <<productId, productKey>>

\* 404, or no answer.
ProductFailed(c) ==
    /\ calls[c].api = "product"
    /\ Over(c)
    /\ detail' = IF Wanted(c)
                 THEN [detail EXCEPT !.error = TRUE, !.loading = FALSE]
                 ELSE detail
    /\ UNCHANGED <<productId, productKey>>

ProductPhase ==
    CASE productKey = NoId -> "blank"
      [] productKey # NoId /\ detail.loading -> "loading"
      [] productKey # NoId /\ ~detail.loading
            /\ (detail.error \/ detail.product = NoId) -> "failed"
      [] OTHER -> "ready"

ShowsProduct == ProductPhase = "ready"

ProductShown == IF ShowsProduct THEN detail.product ELSE NoId

MaxQuantity == IF detail.stock > 1 THEN detail.stock ELSE 1

\* The input clamps to [1, stock], whole or not; it is there unless the stock
\* is 0.
ChangeQuantity ==
    /\ ShowsProduct /\ detail.stock # 0
    /\ \E n \in One .. One * MaxQuantity : detail' = [detail EXCEPT !.quantity = n]
    /\ UNCHANGED <<productId, productKey, calls>>

ProductEnds(c) == ProductAnswered(c) \/ ProductFailed(c)

ProductStep ==
    \/ ProductEffect \/ ChangeQuantity
    \/ \E c \in Calls : ProductEnds(c)

-----------------------------------------------------------------------------
(* Properties                                                              *)

\* The page shows the product of its URL or an error, whichever answers come
\* late: what is added to the cart is what the customer went to
\* (ProductPage.tsx:48-77).
ProductView == INSTANCE View WITH
    Keys <- Ids, NoKey <- NoId, asked <- productKey,
    phase <- ProductPhase, shown <- ProductShown

ProductImplementsView == ProductView!ViewSpec

\* "Cap the quantity input at the current stock so the user can't request
\* more than is available" (ProductPage.tsx:115-118): also for the next
\* product, which may have less of it.
QuantityWithinStock ==
    ShowsProduct => detail.quantity \in One .. One * MaxQuantity
=============================================================================
