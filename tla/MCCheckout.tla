----------------------------- MODULE MCCheckout -----------------------------
(* Values of the constants that a .cfg cannot write down.                  *)
EXTENDS CheckoutProperties
=============================================================================
