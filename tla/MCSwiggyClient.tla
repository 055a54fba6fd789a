--------------------------- MODULE MCSwiggyClient ---------------------------
(* Model-checking instance of SwiggyClient: the bounds are in the .cfg.     *)
EXTENDS SwiggyClient
=============================================================================
