------------------------------ MODULE MCBreaker ------------------------------
(***************************************************************************)
(* The instance of CircuitBreaker for TLC; its constants are in the .cfg.  *)
(***************************************************************************)
EXTENDS CircuitBreaker
=============================================================================
