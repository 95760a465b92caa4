----------------------------- MODULE GuardedExit -----------------------------
(***************************************************************************)
(* What the PC promises about an exit host (the docstring of apply_pc_exit *)
(* in xhttp_setup/pc_orchestrator.py): the exit is installed only behind   *)
(* the complete pair of UFW rules, and the pair is taken away only while   *)
(* no installed exit needs it.  PcExit implements this specification.      *)
(***************************************************************************)
EXTENDS FiniteSets

VARIABLES
  rules,    \* the managed UFW rules of the host: a subset of Pair
  install   \* the exit: "none", "done", or "half" after a broken rollback

\* allow from the frontend's /32, deny for everybody else.
Pair == {"allow", "deny"}

vars == <<rules, install>>

Init ==
  \/ rules = {} /\ install = "none"
  \/ rules = Pair /\ install \in {"none", "done"}

AddRule ==
  /\ \E rule \in Pair \ rules : rules' = rules \cup {rule}
  /\ UNCHANGED install

RemoveRule ==
  /\ install # "done"
  /\ \E rule \in rules : rules' = rules \ {rule}
  /\ UNCHANGED install

\* An installation succeeds, or fails without restoring what was there.
Install ==
  /\ rules = Pair
  /\ install' \in {"done", "half"}
  /\ UNCHANGED rules

Next == AddRule \/ RemoveRule \/ Install

Spec == Init /\ [][Next]_vars

\* An installed exit is never without its rules.
Guarded == install = "done" => rules = Pair
===============================================================================
