---------------------------- MODULE MCExitInstaller ----------------------------
(***************************************************************************)
(* Small instances of ExitInstaller.  The requests: one, the same from a   *)
(* program with another template, another port, and another client.        *)
(***************************************************************************)
EXTENDS ExitInstaller

SomeRequests ==
  {[client |-> "c1", port |-> 1, build |-> 1],
   [client |-> "c1", port |-> 1, build |-> 2],
   [client |-> "c1", port |-> 2, build |-> 1],
   [client |-> "c2", port |-> 1, build |-> 1]}
===============================================================================
