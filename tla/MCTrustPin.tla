------------------------------ MODULE MCTrustPin ------------------------------
(***************************************************************************)
(* Three wizards, two of them of one domain.                               *)
(***************************************************************************)
EXTENDS TrustPin

CONSTANTS w1, w2, w3, d1, d2

MCHome == [w \in {w1, w2, w3} |-> IF w = w3 THEN d2 ELSE d1]
===============================================================================
