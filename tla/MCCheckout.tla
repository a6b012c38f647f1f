----------------------------- MODULE MCCheckout -----------------------------
(* Small instances of Checkout for TLC. *)
EXTENDS Checkout, TLC

CONSTANTS p1, p2, p3, s1, s2, s3

Symmetry ==
    Permutations(Products) \cup Permutations(Requests)
        \cup Permutations(Sessions)

\* Three carts that overlap pairwise, so that the checkouts can wait for each
\* other in cycles of two and of three; too little stock for everybody, and
\* no administrator.
CyclicInit ==
    /\ CheckoutInit
    /\ row = [p \in Products |-> "live"]
    /\ stock = [p \in Products |-> 2]
    /\ cart = (s1 :> (p1 :> 1 @@ p2 :> 1 @@ p3 :> 0))
           @@ (s2 :> (p1 :> 0 @@ p2 :> 1 @@ p3 :> 1))
           @@ (s3 :> (p1 :> 1 @@ p2 :> 0 @@ p3 :> 2))

CyclicNext ==
    \E r \in Requests : HandlerStep(r) \/ DeadlockVictim(r) \/ Abort(r)

CyclicSpec == CyclicInit /\ [][CyclicNext]_vars /\ CheckoutFairness
=============================================================================
