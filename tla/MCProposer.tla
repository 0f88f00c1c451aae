----------------------------- MODULE MCProposer -----------------------------
(***************************************************************************)
(* Instances of Proposer, in the committee of four of the repository.      *)
(***************************************************************************)
EXTENDS Proposer

CONSTANTS k0, k1, k2, k3

Keys4  == <<k0, k1, k2, k3>>
Stake4 == [a \in {k0, k1, k2, k3} |-> 1]
=============================================================================
