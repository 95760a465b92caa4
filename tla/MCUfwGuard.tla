------------------------------ MODULE MCUfwGuard ------------------------------
(***************************************************************************)
(* UfwGuard has no parameters but its bound.                               *)
(***************************************************************************)
EXTENDS UfwGuard
===============================================================================
