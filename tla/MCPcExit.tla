------------------------------- MODULE MCPcExit -------------------------------
(***************************************************************************)
(* Small instances of PcExit; the constants are in the configurations.     *)
(* Two calls let the second one meet what the first one left behind.       *)
(***************************************************************************)
EXTENDS PcExit
===============================================================================
