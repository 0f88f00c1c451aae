---------------------------- MODULE MCExecution ----------------------------
(***************************************************************************)
(* Instances of Execution: two batches with transactions, the second of    *)
(* them and an empty one in the second certificate.                        *)
(***************************************************************************)
EXTENDS Execution

CONSTANTS t1, t2, e1, e2

Txs3 == <<{t1}, {t2}, {}>>

Clients1 == <<e1>>
Clients2 == <<e1, e2>>

Deploy(p, S) == [producer : {p}, script : S]

AllDeployments ==
    Deploy("extractor", {"retry", "retry2", "retry3", "new"})
    \cup Deploy("raw2", {"with_retry"})
    \cup Deploy("send_tx_batches", {"main"})
    \cup Deploy("send_tx_with_fc", {"main"})

Retry3Deployment == Deploy("extractor", {"retry3"})
=============================================================================
