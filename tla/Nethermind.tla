----------------------------- MODULE Nethermind -----------------------------
(***************************************************************************)
(* External: the execution clients, as the scripts use them through the    *)
(* Engine API.  They are isolated from each other (README: no p2p).        *)
(***************************************************************************)
EXTENDS Batches

CONSTANT ENDPOINTS   \* the clients' URLs, in the order of the command line

Endpoint == {ENDPOINTS[i] : i \in 1..Len(ENDPOINTS)}
First    == ENDPOINTS[1]

ASSUME EndpointsAssumption == Len(ENDPOINTS) > 0 /\ ENDPOINTS \in Seq(Endpoint)

VARIABLES
    head,    \* the head of each client's canonical chain
    known,   \* the blocks each client has accepted
    pool     \* the transactions each client was ever sent

node == <<head, known, pool>>

NodeInit ==
    /\ head  = [e \in Endpoint |-> << >>]
    /\ known = [e \in Endpoint |-> {<< >>}]
    /\ pool  = [e \in Endpoint |-> {}]

Ancestor(a, b) == Len(a) <= Len(b) /\ \A i \in 1..Len(a) : a[i] = b[i]

Included(b) == UNION {b[i] : i \in 1..Len(b)}

\* engine_forkchoiceUpdatedV3: an unknown head is not adopted, and one that
\* the canonical chain already extends is ignored.
Adopts(e, b) == b \in known[e] /\ ~(Ancestor(b, head[e]) /\ b # head[e])

forkchoiceUpdated(e, b) ==
    head' = IF Adopts(e, b) THEN [head EXCEPT ![e] = b] ELSE head

\* engine_getPayloadV4: any of the valid transactions that have arrived.
Payloads(e, b) == SUBSET (pool[e] \ Included(b))

\* engine_newPayloadV4, answered VALID.
newPayload(e, b) == known' = [known EXCEPT ![e] = @ \cup {b}]

\* eth_sendRawTransaction, for the transactions that got through.
sendRawTransaction(e, S) == pool' = [pool EXCEPT ![e] = @ \cup S]
=============================================================================
