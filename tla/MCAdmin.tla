------------------------------ MODULE MCAdmin ------------------------------
(* Small instances of AdminPage for TLC. *)
EXTENDS AdminPage

const_Fills == {[price |-> 1, stock |-> 1]}

\* 3 stands for a price with more than two decimals.
const_Rounded == [p \in Prices |-> IF p = 3 THEN 2 ELSE p]
=============================================================================
