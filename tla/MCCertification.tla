-------------------------- MODULE MCCertification --------------------------
(***************************************************************************)
(* Instances of Certification: committees of two and of four.              *)
(***************************************************************************)
EXTENDS Certification

CONSTANTS k0, k1, k2, k3

\* The smallest committee in which nobody is a quorum alone.
Keys2  == <<k0, k1>>
Stake2 == [a \in {k0, k1} |-> 1]

\* A committee of three, one of them with half of the stake: the quorums are
\* the heavy authority with at least one light one.
Keys3  == <<k0, k1, k2>>
Stake3 == [a \in {k0, k1, k2} |-> IF a = k0 THEN 2 ELSE 1]

\* The committee the repository generates: four authorities of stake one.
Keys4  == <<k0, k1, k2, k3>>
Stake4 == [a \in {k0, k1, k2, k3} |-> 1]
=============================================================================
