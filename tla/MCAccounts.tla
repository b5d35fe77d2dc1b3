----------------------------- MODULE MCAccounts -----------------------------
(* Values of the constants that a .cfg cannot write down.                  *)
EXTENDS AccountProperties
=============================================================================
