------------------------------ MODULE MCPcInstall ------------------------------
(***************************************************************************)
(* Small instances of PcInstall: three UUIDs, so that a fresh one is       *)
(* always to be had, and two egress addresses.                             *)
(***************************************************************************)
EXTENDS PcInstall
===============================================================================
