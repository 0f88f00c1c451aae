----------------------------- MODULE Committee -----------------------------
(***************************************************************************)
(* The committee of authorities of config/src/lib.rs: who votes, with how  *)
(* much stake, which stake makes a quorum and who leads a round.           *)
(***************************************************************************)
EXTENDS Naturals, FiniteSets, Sequences

CONSTANTS
    Keys,   \* the authorities' public keys, sorted, as a sequence
    Stake   \* the voting power of each authority

Authority == {Keys[i] : i \in 1..Len(Keys)}

(***************************************************************************)
(* A committee has at least one authority, no key twice (a BTreeMap's keys *)
(* are distinct), and a stake of at least one for each of them, as every   *)
(* committee file the repository generates.                                *)
(***************************************************************************)
ASSUME CommitteeAssumption ==
    /\ Keys \in Seq(Authority)
    /\ Len(Keys) > 0
    /\ \A i, j \in 1..Len(Keys) : Keys[i] = Keys[j] => i = j
    /\ Stake \in [Authority -> Nat \ {0}]

(***************************************************************************)
(* The stake of a set of authorities: the number of units of stake that    *)
(* they hold.  Counting units, instead of folding a sum over the set,      *)
(* makes the arithmetic of quorums provable for every committee.           *)
(***************************************************************************)
StakeUnits(S) == UNION {{a} \X (1..Stake[a]) : a \in S}
StakeOf(S)    == Cardinality(StakeUnits(S))

TotalStake == StakeOf(Authority)

quorum_threshold   == (2 * TotalStake) \div 3 + 1
validity_threshold == (TotalStake + 2) \div 3

IsQuorum(S) == StakeOf(S) >= quorum_threshold
IsValid(S)  == StakeOf(S) >= validity_threshold

\* The round-robin leader: keys[seed % size], with seed the round.
leader(seed) == Keys[(seed % Len(Keys)) + 1]
=============================================================================
