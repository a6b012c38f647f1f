----------------------------- MODULE MCBrowser -----------------------------
(* A small instance of CheckoutPage for TLC; its bounds are in the cfg. *)
EXTENDS CheckoutPage
=============================================================================
