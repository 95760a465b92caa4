-------------------------------- MODULE MCFront --------------------------------
(***************************************************************************)
(* Small instances of FrontTransaction.  The constants are given in the    *)
(* configurations.  The empty text is always among the owner's, so that an *)
(* edit may be one that leaves nothing to put the block in front of.       *)
(***************************************************************************)
EXTENDS FrontTransaction
===============================================================================
