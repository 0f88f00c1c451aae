------------------------------ MODULE Payload ------------------------------
(***************************************************************************)
(* How batches reach headers and votes: the workers (worker/src) seal,     *)
(* broadcast, store and report batches and fetch missing ones; their       *)
(* primaries put the digests into headers, vote for headers whose batches  *)
(* their own worker reported, and suspend the others (payload_receiver.rs, *)
(* missing_payload of synchronizer.rs, SyncBatches of header_waiter.rs).   *)
(*                                                                         *)
(* A batch is its digest, and a header is the one batch it carries; every  *)
(* authority has one worker.  The workers restart, and whatever the        *)
(* SimpleSender carries may be lost.                                       *)
(***************************************************************************)
EXTENDS Committee

CONSTANTS
    Digest,       \* the batches that clients fill
    owner,        \* the authority whose worker seals each of them
    Restartable,  \* the authorities whose worker may restart
    Silent,       \* the authorities whose worker never answers
    MaxRestarts,  \* bound: how often a worker restarts
    MaxLosses     \* bound: how many messages are lost

ASSUME PayloadAssumption ==
    /\ owner \in [Digest -> Authority]
    /\ Restartable \subseteq Authority /\ Silent \subseteq Authority
    /\ MaxRestarts \in Nat /\ MaxLosses \in Nat

VARIABLES
    sealed,     \* the batches sealed so far
    sending,    \* <<batch, peer>> of the ReliableSenders, not acknowledged
    acked,      \* per batch, the peers that acknowledged it
    waiting,    \* per worker, the queue of the QuorumWaiter
    inbox,      \* per worker, <<batch, own>> in front of the Processors
    writes,     \* per worker, the writes in the channel of the store
    store,      \* per worker, the batches in the store
    pending,    \* per worker, the batches its Synchronizer waits for
    mail,       \* the messages of the SimpleSenders
    lost,       \* those of them, and the acknowledgements, that were lost
    restarts,   \* per worker, the restarts so far
    digests,    \* per primary, its own batches, for the next header
    headers,    \* the headers that were broadcast
    payload,    \* per primary, the others' batches its worker reported
    suspended,  \* per primary, the headers in the HeaderWaiter
    voted       \* per primary, the headers voted for

worker   == <<sealed, sending, acked, waiting, inbox, writes, store, pending>>
primary  == <<digests, headers, payload, suspended, voted>>
vars     == <<worker, mail, lost, restarts, primary>>

Message ==
    [kind : {"OurBatch", "OthersBatch", "Synchronize", "Batch", "Ack"}, to : Authority, batch : Digest]
        \cup [kind : {"BatchRequest"}, to : Authority, batch : Digest, requestor : Authority]

OurBatch(w, d)          == [kind |-> "OurBatch", to |-> w, batch |-> d]
OthersBatch(w, d)       == [kind |-> "OthersBatch", to |-> w, batch |-> d]
Synchronize(w, d)       == [kind |-> "Synchronize", to |-> w, batch |-> d]
Ack(n, d)               == [kind |-> "Ack", to |-> n, batch |-> d]
Batch(w, d)             == [kind |-> "Batch", to |-> w, batch |-> d]
BatchRequest(w, d, req) ==
    [kind |-> "BatchRequest", to |-> w, batch |-> d, requestor |-> req]

Init ==
    /\ sealed = {} /\ sending = {} /\ mail = {} /\ lost = {} /\ headers = {}
    /\ acked = [d \in Digest |-> {}]
    /\ waiting = [a \in Authority |-> <<>>]
    /\ restarts = [a \in Authority |-> 0]
    /\ LET none == [a \in Authority |-> {}]
       IN  /\ inbox = none /\ writes = none /\ store = none /\ pending = none
           /\ digests = none /\ payload = none /\ suspended = none /\ voted = none

-----------------------------------------------------------------------------
\* The worker, from the clients' transactions to the digest.

Others(w) == Authority \ {w}

\* BatchMaker: a batch is full, or its timer has expired.
seal(d) ==
    LET w == owner[d]
    IN  /\ d \notin sealed
        /\ sealed' = sealed \cup {d}
        /\ sending' = sending \cup ({d} \X Others(w))
        /\ waiting' = [waiting EXCEPT ![w] = Append(@, d)]
        /\ UNCHANGED <<acked, inbox, writes, store, pending, mail, lost, restarts, primary>>

\* WorkerReceiverHandler: a peer acknowledges the batch, and only then queues
\* it.
Receive(d, n) ==
    /\ <<d, n>> \in sending
    /\ n \notin Silent
    /\ inbox' = [inbox EXCEPT ![n] = @ \cup {<<d, FALSE>>}]
    /\ UNCHANGED <<sealed, waiting, writes, store, pending, mail, restarts, primary>>

dispatch(d, n) ==
    /\ Receive(d, n)
    /\ acked' = [acked EXCEPT ![d] = @ \cup {n}]
    /\ sending' = sending \ {<<d, n>>}
    /\ UNCHANGED lost

\* The acknowledgement is lost with the connection: the batch is sent again.
dispatch_unanswered(d, n) ==
    /\ Receive(d, n)
    /\ Cardinality(lost) < MaxLosses
    /\ lost' = lost \cup {Ack(n, d)}
    /\ UNCHANGED <<acked, sending>>

\* Whether the QuorumWaiter still holds the handlers of a batch.
Awaited(d) == \E i \in DOMAIN waiting[owner[d]] : waiting[owner[d]][i] = d

\* Connection: a batch whose handler was dropped is not sent any more.
skip(d, n) ==
    /\ <<d, n>> \in sending /\ ~Awaited(d)
    /\ sending' = sending \ {<<d, n>>}
    /\ UNCHANGED <<sealed, acked, waiting, inbox, writes, store, pending, mail, lost, restarts,
                   primary>>

\* Mutants: handlers that were dropped count; every peer has to answer.
Delivered_dropped(w, d) == TRUE
Delivered_all(w, d) == acked[d] = Others(w)

\* Enough peers acknowledged batch d of w; the stake is compared after each.
Delivered(w, d) == acked[d] # {} /\ IsQuorum(acked[d] \cup {w})

\* QuorumWaiter: the first batch of the queue has its acknowledgements.
deliver(w) ==
    /\ waiting[w] # <<>>
    /\ LET d == Head(waiting[w])
       IN  /\ Delivered(w, d)
           /\ inbox' = [inbox EXCEPT ![w] = @ \cup {<<d, TRUE>>}]
    /\ waiting' = [waiting EXCEPT ![w] = Tail(@)]
    /\ UNCHANGED <<sealed, sending, acked, writes, store, pending, mail, lost, restarts, primary>>

\* Mutants: batches of others are reported without being stored; what is
\* stored is not under the digest.
Kept_own(m) == IF m[2] THEN {m[1]} ELSE {}
Kept_entry(m) == {m}

\* The key that is written for an entry of the inbox.
Kept(m) == {m[1]}

\* Processor: hands the batch to the store and reports its digest, without
\* waiting for the write.
process(w, m) ==
    /\ m \in inbox[w]
    /\ inbox' = [inbox EXCEPT ![w] = @ \ {m}]
    /\ writes' = [writes EXCEPT ![w] = @ \cup Kept(m)]
    /\ mail' = mail \cup {IF m[2] THEN OurBatch(w, m[1]) ELSE OthersBatch(w, m[1])}
    /\ UNCHANGED <<sealed, sending, acked, waiting, store, pending, lost, restarts, primary>>

\* Store: the write is done.
write(w, d) ==
    /\ d \in writes[w]
    /\ writes' = [writes EXCEPT ![w] = @ \ {d}]
    /\ store' = [store EXCEPT ![w] = @ \cup {d}]
    /\ UNCHANGED <<sealed, sending, acked, waiting, inbox, pending, mail, lost, restarts, primary>>

\* What a read finds: it stands behind the writes in the store's channel.
Known(w) == store[w] \cup writes[w]

-----------------------------------------------------------------------------
\* The primary.

\* Proposer: an own batch is there for the next header.
recv_our_batch(w, d) ==
    /\ OurBatch(w, d) \in mail
    /\ mail' = mail \ {OurBatch(w, d)}
    /\ digests' = [digests EXCEPT ![w] = @ \cup {d}]
    /\ UNCHANGED <<worker, lost, restarts, headers, payload, suspended, voted>>

\* PayloadReceiver: another authority's batch is at hand.
recv_others_batch(w, d) ==
    /\ OthersBatch(w, d) \in mail
    /\ mail' = mail \ {OthersBatch(w, d)}
    /\ payload' = [payload EXCEPT ![w] = @ \cup {d}]
    /\ UNCHANGED <<worker, lost, restarts, digests, headers, suspended, voted>>

make_header(p, d) ==
    /\ d \in digests[p]
    /\ digests' = [digests EXCEPT ![p] = @ \ {d}]
    /\ headers' = headers \cup {d}
    /\ UNCHANGED <<worker, mail, lost, restarts, payload, suspended, voted>>

\* The header of d comes, and its batch is at hand.
process_header(p, d) ==
    /\ d \in headers /\ owner[d] # p
    /\ d \in payload[p] /\ d \notin voted[p]
    /\ voted' = [voted EXCEPT ![p] = @ \cup {d}]
    /\ UNCHANGED <<worker, mail, lost, restarts, digests, headers, payload, suspended>>

\* HeaderWaiter: a header is suspended once, and the worker of its author is
\* told to synchronise.
SyncBatches(p, d) ==
    /\ d \notin suspended[p]
    /\ suspended' = [suspended EXCEPT ![p] = @ \cup {d}]
    /\ mail' = mail \cup {Synchronize(owner[d], d)}

\* The header of d comes, and its batch is not at hand.
missing_payload(p, d) ==
    /\ d \in headers /\ owner[d] # p
    /\ d \notin payload[p]
    /\ SyncBatches(p, d)
    /\ UNCHANGED <<worker, lost, restarts, digests, headers, payload, voted>>

\* The batch of a suspended header is reported: the header is processed again.
loopback(p, d) ==
    /\ d \in suspended[p] \cap payload[p]
    /\ suspended' = [suspended EXCEPT ![p] = @ \ {d}]
    /\ voted' = [voted EXCEPT ![p] = @ \cup {d}]
    /\ UNCHANGED <<worker, mail, lost, restarts, digests, headers, payload>>

-----------------------------------------------------------------------------
\* The worker's Synchronizer and Helper.

\* The primary's message names the author's worker as the one to ask.
synchronize(w, d) ==
    /\ Synchronize(w, d) \in mail
    /\ pending' = [pending EXCEPT ![w] = @ \cup {d}]
    /\ mail' = (mail \ {Synchronize(w, d)}) \cup
            (IF d \in pending[w] \cup Known(w) THEN {} ELSE {BatchRequest(owner[d], d, w)})
    /\ UNCHANGED <<sealed, sending, acked, waiting, inbox, writes, store, lost, restarts, primary>>

\* A waiter has read the batch.
resolve(w, d) ==
    /\ d \in pending[w] \cap store[w]
    /\ pending' = [pending EXCEPT ![w] = @ \ {d}]
    /\ UNCHANGED <<sealed, sending, acked, waiting, inbox, writes, store, mail, lost, restarts,
                   primary>>

\* The timer: what is still missing is requested from n.
retry(w, n) ==
    /\ pending[w] # {} /\ n \notin {w} \cup Silent
    /\ mail' = mail \cup {BatchRequest(n, d, w) : d \in pending[w]}
    /\ UNCHANGED <<worker, lost, restarts, primary>>

\* Mutant: the reply does not leave the worker.
requestor_self(m) == m.to

\* Where the reply to a request goes.
requestor(m) == m.requestor

\* Helper: replies with the batch, if it is there.
help(m) ==
    /\ m \in mail /\ m.kind = "BatchRequest" /\ m.to \notin Silent
    /\ mail' = (mail \ {m}) \cup
            (IF m.batch \in Known(m.to) THEN {Batch(requestor(m), m.batch)} ELSE {})
    /\ UNCHANGED <<worker, lost, restarts, primary>>

\* Mutant: a batch that comes back to its author passes for a new one.
Own_author(w, d) == owner[d] = w

\* The batches that other workers send are not the worker's own.
Own(w, d) == FALSE

recv_batch(w, d) ==
    /\ Batch(w, d) \in mail
    /\ mail' = mail \ {Batch(w, d)}
    /\ inbox' = [inbox EXCEPT ![w] = @ \cup {<<d, Own(w, d)>>}]
    /\ UNCHANGED <<sealed, sending, acked, waiting, writes, store, pending, lost, restarts, primary>>

-----------------------------------------------------------------------------
\* Failures.

\* A SimpleSender drops what it cannot send.
lose(m) ==
    /\ m \in mail
    /\ Cardinality(lost) < MaxLosses
    /\ mail' = mail \ {m}
    /\ lost' = lost \cup {m}
    /\ UNCHANGED <<worker, restarts, primary>>

\* What worker w, its primary or a helper may hold in a channel.
Queued(w) ==
    {m \in mail : m.to = w \/ m.kind = "Batch" \/ (m.kind = "BatchRequest" /\ m.requestor = w)}

\* A worker restarts with its store; what did not leave its channels is gone.
Restart(w) ==
    /\ w \in Restartable /\ restarts[w] < MaxRestarts
    /\ restarts' = [restarts EXCEPT ![w] = @ + 1]
    /\ waiting' = [waiting EXCEPT ![w] = <<>>]
    /\ inbox' = [inbox EXCEPT ![w] = {}]
    /\ writes' = [writes EXCEPT ![w] = {}]
    /\ pending' = [pending EXCEPT ![w] = {}]
    /\ \E gone \in SUBSET Queued(w) : mail' = mail \ gone
    /\ UNCHANGED <<sealed, sending, acked, store, lost, primary>>

Next ==
    \/ \E d \in Digest : seal(d)
    \/ \E d \in Digest, n \in Authority :
        dispatch(d, n) \/ dispatch_unanswered(d, n) \/ skip(d, n)
    \/ \E w \in Authority : deliver(w) \/ Restart(w)
    \/ \E w \in Authority : \E m \in inbox[w] : process(w, m)
    \/ \E w \in Authority, d \in Digest :
        \/ write(w, d) \/ recv_our_batch(w, d) \/ recv_others_batch(w, d)
        \/ make_header(w, d) \/ process_header(w, d) \/ missing_payload(w, d) \/ loopback(w, d)
        \/ synchronize(w, d) \/ resolve(w, d) \/ recv_batch(w, d)
    \/ \E w, n \in Authority : retry(w, n)
    \/ \E m \in mail : help(m) \/ lose(m)

Spec == Init /\ [][Next]_vars

(***************************************************************************)
(* Every task keeps running: a batch is sent again until it is             *)
(* acknowledged or cancelled (ReliableSender), messages that are not lost  *)
(* arrive, and the Synchronizer's timer reaches every peer in the end.     *)
(***************************************************************************)
FairSpec ==
    /\ Spec
    /\ \A d \in Digest, n \in Authority : WF_vars(Awaited(d) /\ dispatch(d, n))
    /\ \A w \in Authority :
        /\ WF_vars(deliver(w))
        /\ WF_vars(\E m \in inbox[w] : process(w, m))
        /\ WF_vars(\E d \in Digest : write(w, d))
        /\ WF_vars(\E d \in Digest : recv_our_batch(w, d) \/ recv_others_batch(w, d))
        /\ WF_vars(\E d \in Digest : make_header(w, d))
        /\ WF_vars(\E d \in Digest : process_header(w, d) \/ missing_payload(w, d))
        /\ WF_vars(\E d \in Digest : loopback(w, d) \/ resolve(w, d))
        /\ WF_vars(\E d \in Digest : synchronize(w, d) \/ recv_batch(w, d))
        /\ \A n \in Authority : WF_vars(retry(w, n))
        /\ WF_vars(\E m \in mail : m.to = w /\ help(m))

-----------------------------------------------------------------------------
(***************************************************************************)
(* Properties.                                                             *)
(***************************************************************************)

\* Every variable has its type, and a QuorumWaiter holds only sealed batches
\* of its own.
TypeOK ==
    /\ sealed \subseteq Digest
    /\ sending \subseteq sealed \X Authority
    /\ acked \in [Digest -> SUBSET Authority]
    /\ waiting \in [Authority -> Seq(Digest)]
    /\ \A w \in Authority : \A i \in DOMAIN waiting[w] :
        waiting[w][i] \in sealed /\ owner[waiting[w][i]] = w
    /\ inbox \in [Authority -> SUBSET (Digest \X BOOLEAN)]
    /\ writes \in [Authority -> SUBSET Digest]
    /\ store \in [Authority -> SUBSET Digest]
    /\ pending \in [Authority -> SUBSET Digest]
    /\ mail \subseteq Message /\ lost \subseteq Message
    /\ restarts \in [Authority -> Nat]
    /\ digests \in [Authority -> SUBSET Digest]
    /\ headers \subseteq Digest
    /\ payload \in [Authority -> SUBSET Digest]
    /\ suspended \in [Authority -> SUBSET Digest]
    /\ voted \in [Authority -> SUBSET Digest]

Restarted == {w \in Authority : restarts[w] > 0}

\* The workers that have a batch, or that queued it for their Processor.
Holders(d) == {w \in Authority : d \in Known(w) \/ <<d, FALSE>> \in inbox[w]}

\* The batch of a header that was made is held by workers of f+1 stake, as
\* long as workers of less than f+1 restart, although a peer acknowledges a
\* batch before it stores it ("we consider the batch delivered",
\* quorum_waiter.rs:70-72).
ProposedIsHeld ==
    \A d \in headers : ~IsValid(Restarted) => IsValid(Holders(d))

\* A primary votes only for headers whose batch its own worker stores, or has
\* in front of the store, unless that worker restarted between the report and
\* the write (missing_payload, synchronizer.rs:58-73; processor.rs:53-69).
VotedIsStored ==
    \A p \in Authority : \A d \in voted[p] : d \in Known(p) \/ p \in Restarted

\* A batch is proposed once: it does not come back to the proposer when its
\* author's worker lost it and fetched it again (own_digest, processor.rs:55).
ProposedOnce ==
    \A p \in Authority : \A d \in headers :
        d \notin digests[p] /\ OurBatch(p, d) \notin mail

\* A sealed batch gets into a header although the workers that never answer
\* are as many as the quorum can spare, unless its worker restarts or the
\* report to the primary, which is sent once, is lost (quorum_waiter.rs:74-84,
\* primary_connector.rs:31-37).
SealedIsProposed ==
    \A d \in Digest :
        (d \in sealed) ~> \/ d \in headers
                          \/ owner[d] \in Restarted
                          \/ OurBatch(owner[d], d) \in lost

\* A Synchronizer does not wait for ever, if a worker that answers stores the
\* batch: requests and replies may be lost, the timer asks again
\* (worker/src/synchronizer.rs:191-222).  The one that is told to synchronise
\* is the author's.
RequestsEnd ==
    \A d \in Digest : LET w == owner[d] IN
        (d \in pending[w]) ~>
            (d \notin pending[w] \/ \A n \in Others(w) \ Silent : d \notin store[n])

\* A header that is suspended for its payload is processed again ("synchronize
\* with other nodes (through our workers), and re-schedule processing of the
\* header for when we will have its complete payload", synchronizer.rs:47-49).
PayloadArrives ==
    \A p \in Authority, d \in Digest : (d \in suspended[p]) ~> (d \notin suspended[p])
=============================================================================
