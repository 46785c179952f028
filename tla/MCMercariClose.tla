--------------------------- MODULE MCMercariClose ---------------------------
(* TLC instance of MercariClose. *)
EXTENDS MercariClose
=============================================================================
