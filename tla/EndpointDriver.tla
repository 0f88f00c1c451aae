--------------------------- MODULE EndpointDriver ---------------------------
(***************************************************************************)
(* state_transition_new.py, state_transition_main.py (with _old and        *)
(* _chota) and state_transition_with_retry.py: one batch per run, built on *)
(* every client in turn on the head of the first one.  None of them sends  *)
(* transactions.                                                           *)
(***************************************************************************)
EXTENDS Driver

EndpointScripts == {"new", "main", "with_retry"}

Begin ==
    /\ pc = "off" /\ drivers < MaxDrivers
    /\ pc' = "endpoint"
    /\ batches' = file
    /\ key' \in Least(Pending(file))
    /\ base' = head[First]
    /\ built' = << >> /\ count' = 0
    /\ drivers' = drivers + 1
    /\ UNCHANGED <<disk, node, unadopted>>

\* Each script compares the key of the batch with the height in its own way.
height == Len(head[First])

\* Mutant: the comparison of the other script.
StartNew_main  == script = "new"        /\ Begin /\ key' >= height

StartNew       == script = "new"        /\ Begin /\ key' = height
StartMain      == script = "main"       /\ Begin /\ key' >= height
StartWithRetry == script = "with_retry" /\ Begin /\ key' > height

url == ENDPOINTS[count + 1]

NextEndpoint(bs) ==
    IF count + 1 = Len(ENDPOINTS)
      THEN Off
      ELSE /\ pc' = "endpoint" /\ count' = count + 1 /\ batches' = bs
           /\ built' = << >> /\ UNCHANGED <<key, base>>

\* The client has no payload to offer, as when it does not know the head; or
\* it has made it its head and refuses the attributes of the payload.
NoPayloadId ==
    /\ pc = "endpoint"
    /\ forkchoiceUpdated(url, base) \/ UNCHANGED head
    /\ NextEndpoint(batches)
    /\ UNCHANGED <<disk, known, pool, history>>

Match ==
    /\ pc = "endpoint" /\ Adopts(url, base)
    /\ forkchoiceUpdated(url, base)
    /\ ExpectedTxs \in Payloads(url, base)
    /\ pc' = "check" /\ built' = Append(base, ExpectedTxs)
    /\ UNCHANGED <<disk, known, pool, batches, key, base, count, history>>

\* Other transactions, or the same in another order: the script exits.
Mismatch ==
    /\ pc = "endpoint" /\ Adopts(url, base)
    /\ forkchoiceUpdated(url, base)
    /\ Off
    /\ UNCHANGED <<disk, known, pool, history>>

NewPayload ==
    /\ pc = "check"
    /\ newPayload(url, built)
    /\ pc' = "record"
    /\ UNCHANGED <<disk, head, pool, memory, history>>

\* Mutant: the status is not looked at.
NotValid_records ==
    /\ pc = "check"
    /\ pc' = "record"
    /\ UNCHANGED <<disk, node, memory, history>>

\* Neither VALID nor ACCEPTED: state_transition_new.py exits, as it may in any
\* step, the others go on to the next client.
NotValid ==
    /\ pc = "check" /\ script # "new"
    /\ NextEndpoint(batches)
    /\ UNCHANGED <<disk, node, history>>

\* The block is recorded before it becomes the head.
OpenRecord ==
    /\ pc = "record" /\ script # "new"
    /\ Truncate
    /\ pc' = "store"
    /\ UNCHANGED <<node, memory, history>>

RecordBlock ==
    /\ pc = "store"
    /\ Write(Recorded) /\ batches' = Recorded
    /\ pc' = "finalize"
    /\ UNCHANGED <<node, key, base, built, count, history>>

\* state_transition_new.py replaces the file, and goes on if that fails.
ReplaceRecord ==
    /\ pc = "record" /\ script = "new"
    /\ Replace(Recorded) \/ UNCHANGED disk
    /\ batches' = Recorded
    /\ pc' = "finalize"
    /\ UNCHANGED <<node, key, base, built, count, history>>

\* Any answer will do.
FinalizeHead ==
    /\ pc = "finalize"
    /\ forkchoiceUpdated(url, built) \/ UNCHANGED head
    /\ NextEndpoint(batches)
    /\ UNCHANGED <<disk, known, pool, history>>

EndpointDriver ==
    \/ StartNew \/ StartMain \/ StartWithRetry \/ NoPayloadId \/ Match \/ Mismatch
    \/ NewPayload \/ NotValid \/ OpenRecord \/ RecordBlock \/ ReplaceRecord
    \/ FinalizeHead
=============================================================================
