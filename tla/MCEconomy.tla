----------------------------- MODULE MCEconomy -----------------------------
(* Values of the constants that a .cfg cannot write down.                  *)
EXTENDS EconomyProperties

PricesOfSlots == <<1, 2>>
=============================================================================
