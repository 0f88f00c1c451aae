----------------------------- MODULE MCPayload -----------------------------
(***************************************************************************)
(* Instances of Payload: a committee of three and one batch.               *)
(***************************************************************************)
EXTENDS Payload

CONSTANTS k0, k1, k2, d1

\* The authority k0 has half of the stake: the quorums are k0 with k1 or k2.
Keys3  == <<k0, k1, k2>>
Stake3 == [a \in {k0, k1, k2} |-> IF a = k0 THEN 2 ELSE 1]

\* Every batch is of the light authority k1.
OfK1 == [d \in Digest |-> k1]
=============================================================================
