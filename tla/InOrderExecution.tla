-------------------------- MODULE InOrderExecution --------------------------
(***************************************************************************)
(* What the execution of the ordered batches promises: each client holds   *)
(* the batches from the first one to some last one, one block each, in the *)
(* order of consensus, and only ever adds the next ones.  Two clients thus *)
(* differ at most in how far they are.                                     *)
(***************************************************************************)
EXTENDS Naturals

CONSTANTS Client, N, Txs

VARIABLE chain   \* of each client

FirstBlocks(n) == [i \in 1..n |-> Txs[i]]

Init == chain = [c \in Client |-> FirstBlocks(0)]

Execute(c) ==
    \E n, m \in 0..N :
        /\ n < m
        /\ chain[c] = FirstBlocks(n)
        /\ chain' = [chain EXCEPT ![c] = FirstBlocks(m)]

Next == \E c \in Client : Execute(c)

Spec == Init /\ [][Next]_chain
=============================================================================
