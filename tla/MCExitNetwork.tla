---------------------------- MODULE MCExitNetwork ----------------------------
(***************************************************************************)
(* Small instances of ExitNetwork: two of the five keys, two interfaces.   *)
(***************************************************************************)
EXTENDS ExitNetwork
===============================================================================
