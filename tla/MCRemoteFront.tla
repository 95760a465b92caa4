----------------------------- MODULE MCRemoteFront -----------------------------
(***************************************************************************)
(* One call; the number of failures is in the configuration.               *)
(***************************************************************************)
EXTENDS RemoteFront
===============================================================================
