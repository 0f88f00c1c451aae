------------------------------- MODULE Feeder -------------------------------
(***************************************************************************)
(* raw2_batches_main.py, send_tx_batches.py and send_tx_with_fc.py: they   *)
(* make batches without the node, and append one record per run.           *)
(***************************************************************************)
EXTENDS Nethermind

CONSTANT MaxFeeders   \* bound: how often a feeder is started

VARIABLES
    producer,  \* what makes the batches: the extractor or one of the scripts
    feeding,   \* the feeder's next step, "off" when it does not run
    copy,      \* its copy of the batch file
    chunk,     \* the batch it makes
    marker,    \* the file with the number of chunks already taken
    feeders    \* how often it was started

feeder == <<feeding, copy, chunk, marker, feeders>>

FeederInit ==
    /\ feeding = "off" /\ copy = Empty /\ chunk = 0
    /\ marker = 0
    /\ feeders = 0

StartFeeder ==
    /\ feeding = "off" /\ feeders < MaxFeeders
    /\ feeding' = "send"
    /\ copy' = file
    /\ feeders' = feeders + 1
    /\ UNCHANGED <<disk, node, marker>>

\* Transactions are signed with the nonces the first client expects, so they
\* are the same again until they reach it.
StartRaw2 ==
    /\ producer = "raw2"
    /\ StartFeeder
    /\ chunk' \in Least({b \in 1..N : Txs[b] # {} /\ Txs[b] \cap pool[First] = {}})

\* The chunks end where the file of raw transactions ends.
StartChunk ==
    /\ producer \in {"send_tx_batches", "send_tx_with_fc"}
    /\ marker < N /\ Txs[marker + 1] # {}
    /\ StartFeeder
    /\ chunk' = marker + 1

\* A client may refuse a transaction; the script goes on.
SendRaw ==
    /\ feeding = "send" /\ producer # "send_tx_with_fc"
    /\ \E S \in [Endpoint -> SUBSET Txs[chunk]] :
         pool' = [e \in Endpoint |-> pool[e] \cup S[e]]
    /\ feeding' = "save"
    /\ UNCHANGED <<disk, head, known, copy, chunk, marker, feeders>>

\* The transactions are in a forkchoice call of a version the clients do not
\* have, and are not sent otherwise.
SendForkchoice ==
    /\ feeding = "send" /\ producer = "send_tx_with_fc"
    /\ feeding' = "save"
    /\ UNCHANGED <<disk, node, copy, chunk, marker, feeders>>

Done == feeding' = "off" /\ copy' = Empty /\ chunk' = 0

OpenBatches ==
    /\ feeding = "save"
    /\ Truncate
    /\ feeding' = "write"
    /\ UNCHANGED <<node, copy, chunk, marker, feeders>>

SaveBatch ==
    /\ feeding = "write"
    /\ Write(Put(copy, next_index(copy, 1), NewRecord(chunk)))
    /\ IF producer = "raw2"
         THEN Done
         ELSE feeding' = "mark" /\ UNCHANGED <<copy, chunk>>
    /\ UNCHANGED <<node, marker, feeders>>

SaveMarker ==
    /\ feeding = "mark"
    /\ marker' = chunk
    /\ Done
    /\ UNCHANGED <<disk, node, feeders>>

\* A marker that is not a number counts as 0.
TornMarker ==
    /\ feeding = "mark"
    /\ marker' = 0
    /\ Done
    /\ UNCHANGED <<disk, node, feeders>>

FeederDies == feeding # "off" /\ Done /\ UNCHANGED <<disk, node, marker, feeders>>

Feeder ==
    \/ StartRaw2 \/ StartChunk \/ SendRaw \/ SendForkchoice \/ OpenBatches
    \/ SaveBatch \/ SaveMarker \/ TornMarker \/ FeederDies
=============================================================================
