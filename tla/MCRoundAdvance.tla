--------------------------- MODULE MCRoundAdvance ---------------------------
(***************************************************************************)
(* Instances of RoundAdvance.                                              *)
(***************************************************************************)
EXTENDS RoundAdvance

CONSTANTS k0, k1, k2

(***************************************************************************)
(* The committee of four of the repository in three parts: its quorum is   *)
(* three units of stake, and k1 or k2 may be missing.                      *)
(***************************************************************************)
Keys3 == <<k0, k1, k2>>
Stake3 == [a \in {k0, k1, k2} |-> IF a = k0 THEN 2 ELSE 1]
=============================================================================
