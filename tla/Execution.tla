----------------------------- MODULE Execution -----------------------------
(***************************************************************************)
(* The execution layer of one node: a producer and a driver that share the *)
(* batch file, the driver's clients, and what the node appends to its      *)
(* order.  Any process may be killed between two of its steps, and started *)
(* again.                                                                  *)
(***************************************************************************)
EXTENDS Extraction, Feeder, RetryDriver, EndpointDriver

CONSTANT Deployments   \* the pairs of a producer and a driver that are used

Producers == {"extractor", "raw2", "send_tx_batches", "send_tx_with_fc"}

ASSUME DeploymentsAssumption ==
    /\ Deployments \subseteq
         [producer : Producers, script : RetryScripts \cup EndpointScripts]
    /\ \A d \in Deployments : d.script = "new" => d.producer = "extractor"

deployment == <<producer, script>>
vars == <<deployment, disk, certificates, extractor, feeder, node, driver>>

Init ==
    /\ \E d \in Deployments : producer = d.producer /\ script = d.script
    /\ file = Empty /\ replaced = FALSE
    /\ ExtractionInit /\ FeederInit /\ NodeInit /\ DriverInit

Extraction == producer = "extractor" /\ (Output \/ Extractor)

\* execution.sh runs raw2_batches_main.py and the driver in turn.
Feeding ==
    /\ producer # "extractor"
    /\ producer = "raw2" => pc = "off"
    /\ Feeder

Driving ==
    /\ producer = "raw2" => feeding = "off"
    /\ RetryDriver \/ EndpointDriver \/ Die

\* Neither the extractor nor state_transition_new.py sends transactions to the
\* clients; somebody else does.
Arrive ==
    /\ script = "new"
    /\ \E e \in Endpoint : \E b \in 1..N :
         ~(Txs[b] \subseteq pool[e]) /\ sendRawTransaction(e, Txs[b])
    /\ UNCHANGED <<disk, head, known>>

Next ==
    \/ Extraction /\ UNCHANGED <<deployment, feeder, node, driver>>
    \/ Feeding    /\ UNCHANGED <<deployment, certificates, extractor, driver>>
    \/ Driving    /\ UNCHANGED <<deployment, certificates, extractor, feeder>>
    \/ Arrive     /\ UNCHANGED <<deployment, certificates, extractor, feeder, driver>>

Spec == Init /\ [][Next]_vars

-----------------------------------------------------------------------------
\* Type correctness of the files, the clients and the processes.
TypeOK ==
    /\ [producer |-> producer, script |-> script] \in Deployments
    /\ IsFile(file) /\ IsFile(out_records) /\ IsFile(copy) /\ IsFile(batches)
    /\ ordered \in 0..N /\ tail \in {"none", "open", "torn"}
    /\ stage \in {"off", "scan"} /\ cursor \in 0..ordered /\ tries \in Nat
    /\ feeding \in {"off", "send", "save", "write", "mark"}
    /\ chunk \in 0..N /\ marker \in 0..N
    /\ feeding # "off" => chunk # 0
    /\ head \in [Endpoint -> Block] /\ pool \in [Endpoint -> SUBSET Tx]
    /\ known \in [Endpoint -> SUBSET Block]
    /\ pc \in {"off", "send", "attempt", "submit", "final", "save", "write",
               "endpoint", "check", "record", "store", "finalize"}
    /\ pc # "off" => key \in DOMAIN batches
    /\ base \in Block /\ built \in Block /\ count \in Nat
    /\ pc \in {"endpoint", "check", "record", "store", "finalize"} => count < Len(ENDPOINTS)
    /\ extractors \in Nat /\ feeders \in Nat /\ drivers \in Nat
    /\ replaced \in BOOLEAN /\ unadopted \subseteq Block

\* The extractor numbers the batches without gaps, repetitions or exchanges,
\* in the order of consensus, whatever copy of the file is written over which
\* and wherever the processes are killed
\* (extract_batches_from_ordered_certs.py:208-307).
FileFollowsOrder ==
    producer = "extractor" =>
        IsPrefix(file) /\ IsPrefix(out_records) /\ IsPrefix(batches)

\* Every block that a client ever accepts has the transactions of exactly one
\* batch, although the clients choose from all transactions that are pending
\* (nm_state_transition_with_retry3.py:92-111).
BlockPerBatch ==
    \A e \in Endpoint : \A b \in known[e] : \A i \in 1..Len(b) :
        \E n \in 1..N : b[i] = Txs[n]

\* A recorded block executes the very batch it is recorded for, and a client
\* has accepted it.
RecordedIsKnown ==
    \A k \in DOMAIN file :
        LET b == file[k].block
        IN  b # NoBlock =>
              /\ b # << >> /\ b[Len(b)] = Txs[file[k].batch]
              /\ \E e \in Endpoint : b \in known[e]

\* The scripts that set the head before they save record only blocks of the
\* client's canonical chain, but for those whose forkchoice the client answered
\* without adopting them: lost answers, blocks that are built again and old
\* copies of the file that other processes write change nothing of it
\* (nm_state_transition_with_retry3.py:191-284).
RecordedOnChain ==
    script \in RetryScripts =>
        \A k \in DOMAIN file :
            LET b == file[k].block
            IN  b # NoBlock => Ancestor(b, head[First]) \/ b \in unadopted

\* The block that state_transition_new.py records for a batch executes all
\* batches up to this one, in their order, each in a block of its own: the
\* keys of the file, the height of the first client and the order of consensus
\* agree (state_transition_new.py:219-224).
RecordedExecutes ==
    script = "new" =>
        \A k \in DOMAIN file :
            file[k].block # NoBlock => file[k].block = [i \in 1..(k + 1) |-> Txs[i]]

\* state_transition_new.py, which stops when the height is not the key of the
\* batch, implements the in-order execution of the batches.
Executed ==
    IF script = "new" THEN head ELSE [e \in Endpoint |-> [i \in 1..0 |-> Txs[i]]]

InOrder == INSTANCE InOrderExecution WITH Client <- Endpoint, chain <- Executed

ExecutesInOrder == InOrder!Spec

\* "Batch-by-batch" (README.md:201): a batch with a higher index has a higher
\* block.
BatchByBatch ==
    \A i, j \in DOMAIN file :
        i < j /\ file[i].block # NoBlock /\ file[j].block # NoBlock =>
            Len(file[i].block) < Len(file[j].block)
=============================================================================
