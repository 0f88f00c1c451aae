-------------------------- MODULE PayloadTheorems --------------------------
(***************************************************************************)
(* The safety of the payload layer, for every committee, every assignment  *)
(* of batches to workers, and every number of restarts and losses.         *)
(*                                                                         *)
(* A batch of worker w passes the stages waiting, inbox (as an own one),   *)
(* the report OurBatch, digests and headers.  StageInv says that it is in  *)
(* one of them at a time, OwnInv that it stays with its author, QuorumInv  *)
(* that it leaves the first one only acknowledged by a quorum, and HeldInv *)
(* that who acknowledged or reported a batch has it, or restarted.         *)
(***************************************************************************)
EXTENDS Payload, CommitteeTheorems

-----------------------------------------------------------------------------
\* The inductive invariant.

\* Worker w has the batch in its store or in front of it, or forgot it.
Has(w, d) == d \in Known(w) \/ restarts[w] > 0

\* The batch is with worker w, or on its way to the store.
HasOrQueued(w, d) == <<d, FALSE>> \in inbox[w] \/ Has(w, d)

\* The stages of a batch on its way to a header.
Queues(w, d)     == \E i \in DOMAIN waiting[w] : waiting[w][i] = d
Collected(w, d)  == <<d, TRUE>> \in inbox[w]
Reported(w, d)   == OurBatch(w, d) \in mail
Proposable(w, d) == d \in digests[w]

\* The batch left its QuorumWaiter, or its worker's primary has it.
Delivering(w, d) == Collected(w, d) \/ Reported(w, d) \/ Proposable(w, d)

\* Somebody relies on worker w for the batch.
ReliedOn(w, d) ==
    \/ OthersBatch(w, d) \in mail
    \/ d \in payload[w]
    \/ Reported(w, d)
    \/ Proposable(w, d)
    \/ d \in headers /\ owner[d] = w

HeldInv ==
    \A w \in Authority, d \in Digest :
        /\ ReliedOn(w, d) => Has(w, d)
        /\ w \in acked[d] => HasOrQueued(w, d)

VotedInv == \A w \in Authority : voted[w] \subseteq payload[w]

OwnInv ==
    \A w \in Authority, d \in Digest : Delivering(w, d) => owner[d] = w /\ d \in sealed

QuorumInv ==
    \A w \in Authority, d \in Digest :
        Delivering(w, d) \/ d \in headers => IsQuorum(acked[d] \cup {owner[d]})

StageInv ==
    \A w \in Authority, d \in Digest :
        /\ Queues(w, d) => ~Delivering(w, d) /\ d \notin headers
        /\ Collected(w, d) => ~Reported(w, d) /\ ~Proposable(w, d)
        /\ Reported(w, d) => ~Proposable(w, d)
        /\ d \in headers => d \in sealed /\ ~Delivering(w, d)

QueueInv ==
    \A w \in Authority : \A i, j \in DOMAIN waiting[w] : waiting[w][i] = waiting[w][j] => i = j

PInv == TypeOK /\ HeldInv /\ VotedInv /\ OwnInv /\ QuorumInv /\ StageInv /\ QueueInv

-----------------------------------------------------------------------------
\* Messages.

\* The constructors make messages.
LEMMA MessageTypes ==
    ASSUME NEW w \in Authority, NEW d \in Digest, NEW r \in Authority
    PROVE  /\ OurBatch(w, d) \in Message /\ OthersBatch(w, d) \in Message
           /\ Synchronize(w, d) \in Message /\ Ack(w, d) \in Message
           /\ Batch(w, d) \in Message /\ BatchRequest(w, d, r) \in Message
BY DEF Message, OurBatch, OthersBatch, Synchronize, Ack, Batch, BatchRequest

\* What a constructor puts into a message can be read from it.
LEMMA MessageFields ==
    ASSUME NEW w, NEW d, NEW r
    PROVE  /\ OurBatch(w, d).kind = "OurBatch" /\ OurBatch(w, d).to = w
           /\ OurBatch(w, d).batch = d
           /\ OthersBatch(w, d).kind = "OthersBatch" /\ OthersBatch(w, d).to = w
           /\ OthersBatch(w, d).batch = d
           /\ Synchronize(w, d).kind = "Synchronize"
           /\ Batch(w, d).kind = "Batch" /\ BatchRequest(w, d, r).kind = "BatchRequest"
BY DEF OurBatch, OthersBatch, Synchronize, Batch, BatchRequest

-----------------------------------------------------------------------------
\* Types.

LEMMA InitType == ASSUME Init PROVE TypeOK
BY DEF Init, TypeOK

LEMMA TypeSeal ==
    ASSUME TypeOK, NEW d \in Digest, seal(d)
    PROVE  TypeOK'
<1>1. owner[d] \in Authority
  BY PayloadAssumption
<1>2. waiting' \in [Authority -> Seq(Digest)]
  BY <1>1 DEF TypeOK, seal
<1>3. \A w \in Authority : \A i \in DOMAIN waiting'[w] :
        waiting'[w][i] \in sealed' /\ owner[waiting'[w][i]] = w
  BY <1>1 DEF TypeOK, seal
<1>. QED  BY <1>1, <1>2, <1>3 DEF TypeOK, seal, primary, Others

LEMMA TypeReceive ==
    ASSUME TypeOK, NEW d \in Digest, NEW n \in Authority,
           dispatch(d, n) \/ dispatch_unanswered(d, n) \/ skip(d, n)
    PROVE  TypeOK'
<1>. DEFINE e == <<d, FALSE>>
<1>e. e \in Digest \X BOOLEAN
  OBVIOUS
<1>. HIDE DEF e
<1>i. ASSUME Receive(d, n) PROVE inbox' \in [Authority -> SUBSET (Digest \X BOOLEAN)]
  <2>1. inbox' = [inbox EXCEPT ![n] = @ \cup {e}]
    BY <1>i DEF Receive, e
  <2>. QED  BY <2>1, <1>e DEF TypeOK
<1>1. CASE dispatch(d, n)
  BY <1>1, <1>i DEF TypeOK, dispatch, Receive, primary
<1>2. CASE dispatch_unanswered(d, n)
  <2>1. lost' \subseteq Message
    BY <1>2, MessageTypes DEF TypeOK, dispatch_unanswered
  <2>. QED  BY <1>2, <1>i, <2>1 DEF TypeOK, dispatch_unanswered, Receive, primary
<1>3. CASE skip(d, n)
  BY <1>3 DEF TypeOK, skip, primary
<1>. QED  BY <1>1, <1>2, <1>3

LEMMA TypeDeliver ==
    ASSUME TypeOK, NEW w \in Authority, deliver(w)
    PROVE  TypeOK'
<1>1. waiting[w] \in Seq(Digest) /\ waiting[w] # <<>>
  BY DEF TypeOK, deliver
<1>2. Head(waiting[w]) \in Digest
  BY <1>1
<1>3. waiting' \in [Authority -> Seq(Digest)]
  BY <1>1 DEF TypeOK, deliver
<1>4. \A v \in Authority : \A i \in DOMAIN waiting'[v] :
        waiting'[v][i] \in sealed' /\ owner[waiting'[v][i]] = v
  BY <1>1 DEF TypeOK, deliver
<1>5. inbox' \in [Authority -> SUBSET (Digest \X BOOLEAN)]
  <2>. DEFINE e == <<Head(waiting[w]), TRUE>>
  <2>1. e \in Digest \X BOOLEAN
    BY <1>2
  <2>2. inbox' = [inbox EXCEPT ![w] = @ \cup {e}]
    BY DEF deliver
  <2>. HIDE DEF e
  <2>. QED  BY <2>1, <2>2 DEF TypeOK
<1>. QED  BY <1>3, <1>4, <1>5 DEF TypeOK, deliver, primary

LEMMA TypeProcess ==
    ASSUME TypeOK, NEW w \in Authority, NEW m \in inbox[w], process(w, m)
    PROVE  TypeOK'
<1>1. m \in Digest \X BOOLEAN
  BY DEF TypeOK
<1>2. mail' \subseteq Message
  BY <1>1, MessageTypes DEF TypeOK, process
<1>. QED  BY <1>1, <1>2 DEF TypeOK, process, Kept, primary

LEMMA TypeWorker ==
    ASSUME TypeOK, NEW w \in Authority, NEW d \in Digest,
           write(w, d) \/ synchronize(w, d) \/ resolve(w, d) \/ recv_batch(w, d)
    PROVE  TypeOK'
<1>1. CASE write(w, d)
  BY <1>1 DEF TypeOK, write, primary
<1>2. CASE synchronize(w, d)
  <2>1. BatchRequest(owner[d], d, w) \in Message
    BY MessageTypes, PayloadAssumption
  <2>. QED  BY <1>2, <2>1 DEF TypeOK, synchronize, primary
<1>3. CASE resolve(w, d)
  BY <1>3 DEF TypeOK, resolve, primary
<1>4. CASE recv_batch(w, d)
  <2>. DEFINE e == <<d, FALSE>>
  <2>1. e \in Digest \X BOOLEAN
    OBVIOUS
  <2>2. inbox' = [inbox EXCEPT ![w] = @ \cup {e}]
    BY <1>4 DEF recv_batch, Own
  <2>. HIDE DEF e
  <2>3. inbox' \in [Authority -> SUBSET (Digest \X BOOLEAN)]
    BY <2>1, <2>2 DEF TypeOK
  <2>. QED  BY <1>4, <2>3 DEF TypeOK, recv_batch, primary
<1>. QED  BY <1>1, <1>2, <1>3, <1>4

LEMMA TypePrimary ==
    ASSUME TypeOK, NEW w \in Authority, NEW d \in Digest,
           \/ recv_our_batch(w, d) \/ recv_others_batch(w, d) \/ make_header(w, d)
           \/ process_header(w, d) \/ missing_payload(w, d) \/ loopback(w, d)
    PROVE  TypeOK'
<1>1. CASE recv_our_batch(w, d)
  BY <1>1 DEF TypeOK, recv_our_batch, worker
<1>2. CASE recv_others_batch(w, d)
  BY <1>2 DEF TypeOK, recv_others_batch, worker
<1>3. CASE make_header(w, d)
  BY <1>3 DEF TypeOK, make_header, worker
<1>4. CASE process_header(w, d)
  BY <1>4 DEF TypeOK, process_header, worker
<1>5. CASE missing_payload(w, d)
  <2>1. Synchronize(owner[d], d) \in Message
    BY MessageTypes, PayloadAssumption
  <2>. QED  BY <1>5, <2>1 DEF TypeOK, missing_payload, SyncBatches, worker
<1>6. CASE loopback(w, d)
  BY <1>6 DEF TypeOK, loopback, worker
<1>. QED  BY <1>1, <1>2, <1>3, <1>4, <1>5, <1>6

LEMMA TypeRetry ==
    ASSUME TypeOK, NEW w \in Authority, NEW n \in Authority, retry(w, n)
    PROVE  TypeOK'
<1>1. mail' \subseteq Message
  BY MessageTypes DEF TypeOK, retry
<1>. QED  BY <1>1 DEF TypeOK, retry, worker, primary

LEMMA TypeMail ==
    ASSUME TypeOK, NEW m \in mail, help(m) \/ lose(m)
    PROVE  TypeOK'
<1>1. CASE help(m)
  <2>1. m \in Message /\ m.kind = "BatchRequest"
    BY <1>1 DEF TypeOK, help
  <2>2. m.requestor \in Authority /\ m.batch \in Digest
    BY <2>1 DEF Message
  <2>3. Batch(requestor(m), m.batch) \in Message
    BY <2>2, MessageTypes DEF requestor
  <2>. QED  BY <1>1, <2>3 DEF TypeOK, help, worker, primary
<1>2. CASE lose(m)
  BY <1>2 DEF TypeOK, lose, worker, primary
<1>. QED  BY <1>1, <1>2

LEMMA TypeRestart ==
    ASSUME TypeOK, NEW w \in Authority, Restart(w)
    PROVE  TypeOK'
<1>1. waiting' \in [Authority -> Seq(Digest)]
  BY DEF TypeOK, Restart
<1>2. \A v \in Authority : \A i \in DOMAIN waiting'[v] :
        waiting'[v][i] \in sealed' /\ owner[waiting'[v][i]] = v
  BY DEF TypeOK, Restart
<1>3. restarts' \in [Authority -> Nat]
  BY DEF TypeOK, Restart
<1>4. mail' \subseteq Message
  BY DEF TypeOK, Restart
<1>. QED  BY <1>1, <1>2, <1>3, <1>4 DEF TypeOK, Restart, primary

\* Every step keeps the types.
LEMMA NextType ==
    ASSUME TypeOK, [Next]_vars
    PROVE  TypeOK'
<1>1. CASE \E d \in Digest : seal(d)
  BY <1>1, TypeSeal
<1>2. CASE \E d \in Digest, n \in Authority :
        dispatch(d, n) \/ dispatch_unanswered(d, n) \/ skip(d, n)
  BY <1>2, TypeReceive
<1>3. CASE \E w \in Authority : deliver(w) \/ Restart(w)
  BY <1>3, TypeDeliver, TypeRestart
<1>4. CASE \E w \in Authority : \E m \in inbox[w] : process(w, m)
  BY <1>4, TypeProcess
<1>5. CASE \E w \in Authority, d \in Digest :
        \/ write(w, d) \/ recv_our_batch(w, d) \/ recv_others_batch(w, d)
        \/ make_header(w, d) \/ process_header(w, d) \/ missing_payload(w, d) \/ loopback(w, d)
        \/ synchronize(w, d) \/ resolve(w, d) \/ recv_batch(w, d)
  BY <1>5, TypeWorker, TypePrimary
<1>6. CASE \E w, n \in Authority : retry(w, n)
  BY <1>6, TypeRetry
<1>7. CASE \E m \in mail : help(m) \/ lose(m)
  BY <1>7, TypeMail
<1>8. CASE UNCHANGED vars
  BY <1>8 DEF TypeOK, vars, worker, primary
<1>. QED  BY <1>1, <1>2, <1>3, <1>4, <1>5, <1>6, <1>7, <1>8 DEF Next

-----------------------------------------------------------------------------
\* Who has a batch keeps it, or restarts.

LEMMA HasKept ==
    ASSUME TypeOK, [Next]_vars, NEW w \in Authority, NEW d \in Digest
    PROVE  /\ Has(w, d) => Has(w, d)'
           /\ HasOrQueued(w, d) => HasOrQueued(w, d)'
<1>. DEFINE Goal == /\ Has(w, d) => Has(w, d)'
                    /\ HasOrQueued(w, d) => HasOrQueued(w, d)'
<1>0. ASSUME UNCHANGED <<writes, store, restarts>>, inbox[w] \subseteq inbox'[w]
      PROVE  Goal
  BY <1>0 DEF Has, HasOrQueued, Known
<1>1. ASSUME NEW e \in Digest, seal(e) PROVE Goal
  BY <1>1, <1>0 DEF seal
<1>2. ASSUME NEW e \in Digest, NEW n \in Authority,
             dispatch(e, n) \/ dispatch_unanswered(e, n) \/ skip(e, n)
      PROVE  Goal
  <2>1. CASE Receive(e, n)
    <3>1. inbox[w] \subseteq inbox'[w]
      BY <2>1 DEF TypeOK, Receive
    <3>. QED  BY <2>1, <3>1, <1>0 DEF Receive
  <2>2. CASE skip(e, n)
    BY <2>2, <1>0 DEF skip
  <2>. QED  BY <1>2, <2>1, <2>2 DEF dispatch, dispatch_unanswered
<1>3. ASSUME NEW v \in Authority, deliver(v) PROVE Goal
  <2>1. inbox[w] \subseteq inbox'[w]
    BY <1>3 DEF TypeOK, deliver
  <2>. QED  BY <1>3, <2>1, <1>0 DEF deliver
<1>4. ASSUME NEW v \in Authority, Restart(v) PROVE Goal
  <2>1. CASE v = w
    BY <1>4, <2>1 DEF TypeOK, Restart, Has, HasOrQueued
  <2>2. CASE v # w
    <3>1. writes'[w] = writes[w] /\ restarts'[w] = restarts[w] /\ inbox'[w] = inbox[w]
      BY <1>4, <2>2 DEF TypeOK, Restart
    <3>. QED  BY <1>4, <3>1 DEF Restart, Has, HasOrQueued, Known
  <2>. QED  BY <2>1, <2>2
<1>5. ASSUME NEW v \in Authority, NEW m \in inbox[v], process(v, m) PROVE Goal
  <2>1. /\ writes' = [writes EXCEPT ![v] = @ \cup {m[1]}]
        /\ inbox' = [inbox EXCEPT ![v] = @ \ {m}]
        /\ UNCHANGED <<store, restarts>>
    BY <1>5 DEF process, Kept
  <2>2. writes[w] \subseteq writes'[w]
    BY <2>1 DEF TypeOK
  <2>3. Has(w, d) => Has(w, d)'
    BY <2>1, <2>2 DEF Has, Known
  <2>4. ASSUME <<d, FALSE>> \in inbox[w], <<d, FALSE>> \notin inbox'[w]
        PROVE  d \in writes'[w]
    <3>1. v = w /\ m = <<d, FALSE>>
      BY <2>1, <2>4 DEF TypeOK
    <3>. QED  BY <2>1, <3>1 DEF TypeOK
  <2>. QED  BY <2>3, <2>4 DEF HasOrQueued, Has, Known
<1>6. ASSUME NEW v \in Authority, NEW e \in Digest, write(v, e) PROVE Goal
  <2>1. Known(w)' = Known(w)
    BY <1>6 DEF TypeOK, write, Known
  <2>. QED  BY <1>6, <2>1 DEF write, Has, HasOrQueued
<1>7. ASSUME NEW v \in Authority, NEW e \in Digest,
             \/ recv_our_batch(v, e) \/ recv_others_batch(v, e)
             \/ make_header(v, e) \/ process_header(v, e) \/ missing_payload(v, e) \/ loopback(v, e)
      PROVE  Goal
  BY <1>7, <1>0 DEF recv_our_batch, recv_others_batch, make_header, process_header,
     missing_payload, SyncBatches, loopback, worker
<1>8. ASSUME NEW v \in Authority, NEW e \in Digest, synchronize(v, e) \/ resolve(v, e)
      PROVE  Goal
  BY <1>8, <1>0 DEF synchronize, resolve
<1>9. ASSUME NEW v \in Authority, NEW e \in Digest, recv_batch(v, e) PROVE Goal
  <2>1. inbox[w] \subseteq inbox'[w]
    BY <1>9 DEF TypeOK, recv_batch
  <2>. QED  BY <1>9, <2>1, <1>0 DEF recv_batch
<1>10. ASSUME NEW v \in Authority, NEW n \in Authority, retry(v, n) PROVE Goal
  BY <1>10, <1>0 DEF retry, worker
<1>11. ASSUME NEW m \in mail, help(m) \/ lose(m) PROVE Goal
  BY <1>11, <1>0 DEF help, lose, worker
<1>12. CASE UNCHANGED vars
  BY <1>12, <1>0 DEF vars, worker
<1>. QED
  BY <1>1, <1>2, <1>3, <1>4, <1>5, <1>6, <1>7, <1>8, <1>9, <1>10, <1>11, <1>12 DEF Next

\* Whoever relies on a worker, or was acknowledged by it, has it after a step
\* that adds no others.
LEMMA HeldStep ==
    ASSUME PInv, [Next]_vars,
           \A w \in Authority, d \in Digest : ReliedOn(w, d)' => ReliedOn(w, d) \/ Has(w, d)',
           \A w \in Authority, d \in Digest :
               w \in acked'[d] => w \in acked[d] \/ HasOrQueued(w, d)'
    PROVE  HeldInv'
<1>1. SUFFICES ASSUME NEW w \in Authority, NEW d \in Digest
               PROVE  /\ ReliedOn(w, d)' => Has(w, d)'
                      /\ w \in acked'[d] => HasOrQueued(w, d)'
  BY DEF HeldInv
<1>. QED  BY HasKept DEF PInv, HeldInv

-----------------------------------------------------------------------------
\* Steps that move no batch towards a header.

Leaves ==
    /\ sealed' = sealed /\ headers' = headers
    /\ \A d \in Digest : acked[d] \subseteq acked'[d]
    /\ \A w \in Authority : waiting'[w] = waiting[w] \/ waiting'[w] = <<>>
    /\ \A w \in Authority, d \in Digest :
        /\ Collected(w, d)' => Collected(w, d)
        /\ Reported(w, d)' => Reported(w, d)
        /\ Proposable(w, d)' => Proposable(w, d)

LEMMA StagesLeft ==
    ASSUME PInv, TypeOK', Leaves
    PROVE  OwnInv' /\ QuorumInv' /\ StageInv' /\ QueueInv'
<1>1. \A w \in Authority, d \in Digest : Delivering(w, d)' => Delivering(w, d)
  BY DEF Leaves, Delivering
<1>2. \A w \in Authority, d \in Digest : Queues(w, d)' => Queues(w, d)
  <2>1. SUFFICES ASSUME NEW w \in Authority, NEW d \in Digest, Queues(w, d)'
                 PROVE  Queues(w, d)
    OBVIOUS
  <2>2. waiting'[w] = waiting[w] \/ waiting'[w] = <<>>
    BY DEF Leaves
  <2>. QED  BY <2>1, <2>2 DEF Queues
<1>3. OwnInv'
  BY <1>1 DEF PInv, OwnInv, Leaves
<1>4. QuorumInv'
  <2>1. SUFFICES ASSUME NEW w \in Authority, NEW d \in Digest,
                        Delivering(w, d)' \/ d \in headers'
                 PROVE  IsQuorum(acked'[d] \cup {owner[d]})
    BY DEF QuorumInv
  <2>2. IsQuorum(acked[d] \cup {owner[d]})
    BY <1>1, <2>1 DEF PInv, QuorumInv, Leaves
  <2>3. acked'[d] \cup {owner[d]} \in SUBSET Authority
    BY PayloadAssumption DEF TypeOK
  <2>4. acked[d] \cup {owner[d]} \subseteq acked'[d] \cup {owner[d]}
    BY DEF Leaves
  <2>. QED  BY <2>2, <2>3, <2>4, QuorumMonotone
<1>5. StageInv'
  BY <1>1, <1>2 DEF PInv, StageInv, Leaves
<1>6. QueueInv'
  BY DEF PInv, QueueInv, Leaves
<1>. QED  BY <1>3, <1>4, <1>5, <1>6

\* Steps of the worker that move no batch towards a header.
LEMMA WorkerStays ==
    ASSUME PInv, TypeOK', NEW w \in Authority, NEW d \in Digest,
           write(w, d) \/ synchronize(w, d) \/ resolve(w, d) \/ recv_batch(w, d)
    PROVE  Leaves
<1>1. CASE write(w, d)
  BY <1>1 DEF write, Leaves, primary, Collected, Reported, Proposable
<1>2. CASE synchronize(w, d)
  <2>1. \A v \in Authority, e \in Digest : Reported(v, e)' => Reported(v, e)
    BY <1>2, MessageFields DEF synchronize, Reported
  <2>. QED  BY <1>2, <2>1 DEF synchronize, Leaves, primary, Collected, Proposable
<1>3. CASE resolve(w, d)
  BY <1>3 DEF resolve, Leaves, primary, Collected, Reported, Proposable
<1>4. CASE recv_batch(w, d)
  <2>1. inbox' = [inbox EXCEPT ![w] = @ \cup {<<d, FALSE>>}]
    BY <1>4 DEF recv_batch, Own
  <2>2. \A v \in Authority, e \in Digest : Collected(v, e)' => Collected(v, e)
    BY <2>1 DEF PInv, TypeOK, Collected
  <2>. QED  BY <1>4, <2>2 DEF recv_batch, Leaves, primary, Reported, Proposable
<1>. QED  BY <1>1, <1>2, <1>3, <1>4

\* Transmissions of batches.
LEMMA ReceiveStays ==
    ASSUME PInv, TypeOK', NEW d \in Digest, NEW n \in Authority,
           dispatch(d, n) \/ dispatch_unanswered(d, n) \/ skip(d, n)
    PROVE  Leaves
<1>1. ASSUME Receive(d, n), NEW v \in Authority, NEW e \in Digest, Collected(v, e)'
      PROVE  Collected(v, e)
  <2>1. inbox' = [inbox EXCEPT ![n] = @ \cup {<<d, FALSE>>}]
    BY <1>1 DEF Receive
  <2>. QED  BY <1>1, <2>1 DEF PInv, TypeOK, Collected
<1>2. CASE dispatch(d, n)
  <2>1. \A e \in Digest : acked[e] \subseteq acked'[e]
    BY <1>2 DEF PInv, TypeOK, dispatch
  <2>. QED  BY <1>2, <1>1, <2>1 DEF dispatch, Receive, Leaves, primary, Reported, Proposable
<1>3. CASE dispatch_unanswered(d, n)
  BY <1>3, <1>1 DEF dispatch_unanswered, Receive, Leaves, primary, Reported, Proposable
<1>4. CASE skip(d, n)
  BY <1>4 DEF skip, Leaves, primary, Collected, Reported, Proposable
<1>. QED  BY <1>2, <1>3, <1>4

\* Steps of the primary that move no batch towards a header.
LEMMA PrimaryStays ==
    ASSUME PInv, TypeOK', NEW w \in Authority, NEW d \in Digest,
           \/ recv_others_batch(w, d) \/ process_header(w, d)
           \/ missing_payload(w, d) \/ loopback(w, d)
    PROVE  Leaves
<1>1. CASE recv_others_batch(w, d)
  BY <1>1 DEF recv_others_batch, Leaves, worker, Collected, Reported, Proposable
<1>2. CASE process_header(w, d)
  BY <1>2 DEF process_header, Leaves, worker, Collected, Reported, Proposable
<1>3. CASE missing_payload(w, d)
  <2>1. \A v \in Authority, e \in Digest : Reported(v, e)' => Reported(v, e)
    BY <1>3, MessageFields DEF missing_payload, SyncBatches, Reported
  <2>. QED  BY <1>3, <2>1 DEF missing_payload, SyncBatches, Leaves, worker, Collected, Proposable
<1>4. CASE loopback(w, d)
  BY <1>4 DEF loopback, Leaves, worker, Collected, Reported, Proposable
<1>. QED  BY <1>1, <1>2, <1>3, <1>4

\* Requests, replies and losses.
LEMMA MailStays ==
    ASSUME PInv, TypeOK', NEW m \in mail, help(m) \/ lose(m)
    PROVE  Leaves
<1>1. CASE help(m)
  <2>1. \A v \in Authority, e \in Digest : Reported(v, e)' => Reported(v, e)
    BY <1>1, MessageFields DEF help, Reported
  <2>. QED  BY <1>1, <2>1 DEF help, Leaves, worker, primary, Collected, Proposable
<1>2. CASE lose(m)
  BY <1>2 DEF lose, Leaves, worker, primary, Collected, Reported, Proposable
<1>. QED  BY <1>1, <1>2

LEMMA RetryStays ==
    ASSUME PInv, TypeOK', NEW w \in Authority, NEW n \in Authority, retry(w, n)
    PROVE  Leaves
<1>1. ASSUME NEW v \in Authority, NEW e \in Digest, Reported(v, e)'
      PROVE  Reported(v, e)
  <2>1. ASSUME NEW c
        PROVE  OurBatch(v, e) # BatchRequest(n, c, w)
    <3>1. OurBatch(v, e).kind = "OurBatch" /\ BatchRequest(n, c, w).kind = "BatchRequest"
      BY MessageFields
    <3>. QED  BY <3>1
  <2>. QED  BY <1>1, <2>1 DEF retry, Reported
<1>. QED  BY <1>1 DEF retry, Leaves, worker, primary, Collected, Proposable

LEMMA RestartStays ==
    ASSUME PInv, TypeOK', NEW w \in Authority, Restart(w)
    PROVE  Leaves
<1>1. \A v \in Authority : waiting'[v] = waiting[v] \/ waiting'[v] = <<>>
  BY DEF PInv, TypeOK, Restart
<1>2. \A v \in Authority, e \in Digest : Collected(v, e)' => Collected(v, e)
  BY DEF PInv, TypeOK, Restart, Collected
<1>3. mail' \subseteq mail
  BY DEF Restart
<1>4. sealed' = sealed /\ acked' = acked /\ UNCHANGED primary
  BY DEF Restart
<1>. QED  BY <1>1, <1>2, <1>3, <1>4 DEF Leaves, primary, Reported, Proposable

-----------------------------------------------------------------------------
\* Steps that move a batch towards a header.

\* The next stage takes a batch from the stage before.
LEMMA Advance ==
    ASSUME PInv, UNCHANGED <<sealed, acked, waiting>>,
           \A w \in Authority, d \in Digest : Delivering(w, d)' => Delivering(w, d),
           \A d \in headers' : d \in headers \/ \E w \in Authority : Delivering(w, d),
           headers' \subseteq Digest
    PROVE  OwnInv' /\ QuorumInv' /\ QueueInv'
<1>1. OwnInv'
  BY DEF PInv, OwnInv
<1>2. QuorumInv'
  BY DEF PInv, QuorumInv
<1>3. QueueInv'
  BY DEF PInv, QueueInv
<1>. QED  BY <1>1, <1>2, <1>3

\* A new batch is nowhere yet.
LEMMA SealMoves ==
    ASSUME PInv, NEW d \in Digest, seal(d)
    PROVE  OwnInv' /\ QuorumInv' /\ StageInv' /\ QueueInv'
<1>. DEFINE o == owner[d]
<1>1. o \in Authority
  BY PayloadAssumption
<1>2. /\ d \notin sealed /\ sealed' = sealed \cup {d}
      /\ waiting' = [waiting EXCEPT ![o] = Append(@, d)]
      /\ UNCHANGED <<acked, inbox, mail, digests, headers>>
  BY DEF seal, primary
<1>3. \A w \in Authority, e \in Digest : Delivering(w, e)' = Delivering(w, e)
  BY <1>2 DEF Delivering, Collected, Reported, Proposable
<1>4. \A w \in Authority : ~Delivering(w, d)
  BY <1>2 DEF PInv, OwnInv
<1>5. d \notin headers
  BY <1>1, <1>2 DEF PInv, StageInv
<1>6. ASSUME NEW w \in Authority, w # o
      PROVE  waiting'[w] = waiting[w]
  BY <1>2, <1>6 DEF PInv, TypeOK
<1>7. /\ waiting[o] \in Seq(Digest)
      /\ waiting'[o] = Append(waiting[o], d)
  BY <1>1, <1>2 DEF PInv, TypeOK
<1>8. \A i \in DOMAIN waiting[o] : waiting[o][i] # d
  BY <1>1, <1>2 DEF PInv, TypeOK
<1>9. ASSUME NEW w \in Authority, NEW e \in Digest, Queues(w, e)'
      PROVE  Queues(w, e) \/ e = d
  BY <1>6, <1>7, <1>9 DEF Queues
<1>10. OwnInv'
  BY <1>2, <1>3 DEF PInv, OwnInv
<1>11. QuorumInv'
  BY <1>2, <1>3 DEF PInv, QuorumInv
<1>12. StageInv'
  <2>1. SUFFICES ASSUME NEW w \in Authority, NEW e \in Digest
                 PROVE  /\ Queues(w, e)' => ~Delivering(w, e) /\ e \notin headers
                        /\ Collected(w, e) => ~Reported(w, e) /\ ~Proposable(w, e)
                        /\ Reported(w, e) => ~Proposable(w, e)
                        /\ e \in headers => e \in sealed' /\ ~Delivering(w, e)
    BY <1>2, <1>3 DEF StageInv, Collected, Reported, Proposable
  <2>. QED  BY <1>2, <1>4, <1>5, <1>9 DEF PInv, StageInv
<1>13. QueueInv'
  <2>1. SUFFICES ASSUME NEW w \in Authority, NEW i \in DOMAIN waiting'[w],
                        NEW j \in DOMAIN waiting'[w], waiting'[w][i] = waiting'[w][j]
                 PROVE  i = j
    BY DEF QueueInv
  <2>2. CASE w = o
    <3>. DEFINE n == Len(waiting[o])
    <3>1. /\ n \in Nat /\ DOMAIN waiting[o] = 1..n /\ DOMAIN waiting'[o] = 1..(n + 1)
          /\ waiting'[o][n + 1] = d
          /\ \A k \in 1..n : waiting'[o][k] = waiting[o][k]
      BY <1>7
    <3>. HIDE DEF n
    <3>2. i \in 1..(n + 1) /\ j \in 1..(n + 1)
      BY <2>1, <2>2, <3>1
    <3>3. CASE i = n + 1 \/ j = n + 1
      BY <1>8, <2>1, <2>2, <3>1, <3>2, <3>3
    <3>4. CASE i \in 1..n /\ j \in 1..n
      BY <1>1, <2>1, <2>2, <3>1, <3>4 DEF PInv, QueueInv
    <3>. QED  BY <3>1, <3>2, <3>3, <3>4
  <2>3. CASE w # o
    BY <1>6, <2>1, <2>3 DEF PInv, QueueInv
  <2>. QED  BY <2>2, <2>3
<1>. QED  BY <1>10, <1>11, <1>12, <1>13

\* The first batch of a queue has a quorum.
LEMMA DeliverMoves ==
    ASSUME PInv, TypeOK', NEW w \in Authority, deliver(w)
    PROVE  OwnInv' /\ QuorumInv' /\ StageInv' /\ QueueInv'
<1>. DEFINE d == Head(waiting[w])
<1>1. waiting[w] \in Seq(Digest) /\ waiting[w] # <<>>
  BY DEF PInv, TypeOK, deliver
<1>2. /\ IsQuorum(acked[d] \cup {w})
      /\ inbox' = [inbox EXCEPT ![w] = @ \cup {<<d, TRUE>>}]
      /\ waiting' = [waiting EXCEPT ![w] = Tail(@)]
      /\ UNCHANGED <<sealed, acked, mail, digests, headers>>
  BY DEF deliver, Delivered, primary
<1>3. /\ d \in Digest /\ d = waiting[w][1] /\ 1 \in DOMAIN waiting[w]
      /\ waiting'[w] = Tail(waiting[w])
  BY <1>1, <1>2 DEF PInv, TypeOK
<1>4. d \in sealed /\ owner[d] = w
  BY <1>3 DEF PInv, TypeOK
<1>5. Queues(w, d)
  BY <1>3 DEF Queues
<1>. HIDE DEF d
<1>6. \A v \in Authority, e \in Digest :
        /\ Collected(v, e)' <=> Collected(v, e) \/ (v = w /\ e = d)
        /\ Reported(v, e)' = Reported(v, e)
        /\ Proposable(v, e)' = Proposable(v, e)
  BY <1>2 DEF PInv, TypeOK, Collected, Reported, Proposable
<1>7. \A v \in Authority, e \in Digest :
        Delivering(v, e)' <=> Delivering(v, e) \/ (v = w /\ e = d)
  BY <1>6 DEF Delivering
<1>8. \A v \in Authority : v # w => waiting'[v] = waiting[v]
  BY <1>2 DEF PInv, TypeOK
<1>9. \A i \in DOMAIN waiting'[w] :
        i + 1 \in DOMAIN waiting[w] /\ i \in Nat /\ i # 0 /\ waiting'[w][i] = waiting[w][i + 1]
  BY <1>1, <1>3
<1>10. ASSUME NEW v \in Authority, NEW e \in Digest, Queues(v, e)'
       PROVE  Queues(v, e) /\ ~(v = w /\ e = d)
  <2>1. PICK i \in DOMAIN waiting'[v] : waiting'[v][i] = e
    BY <1>10 DEF Queues
  <2>2. CASE v = w
    <3>1. i + 1 \in DOMAIN waiting[w] /\ waiting[w][i + 1] = e /\ i + 1 # 1
      BY <1>9, <2>1, <2>2
    <3>2. e # d
      BY <1>3, <3>1 DEF PInv, QueueInv
    <3>. QED  BY <2>2, <3>1, <3>2 DEF Queues
  <2>3. CASE v # w
    BY <1>8, <2>1, <2>3 DEF Queues
  <2>. QED  BY <2>2, <2>3
<1>11. OwnInv'
  BY <1>2, <1>4, <1>7 DEF PInv, OwnInv
<1>12. QuorumInv'
  BY <1>2, <1>4, <1>7 DEF PInv, QuorumInv
<1>13. StageInv'
  <2>1. ~Delivering(w, d) /\ d \notin headers
    BY <1>3, <1>5 DEF PInv, StageInv
  <2>2. ASSUME NEW v \in Authority, NEW e \in Digest
        PROVE  /\ Queues(v, e)' => ~Delivering(v, e)' /\ e \notin headers'
               /\ Collected(v, e)' => ~Reported(v, e)' /\ ~Proposable(v, e)'
               /\ Reported(v, e)' => ~Proposable(v, e)'
               /\ e \in headers' => e \in sealed' /\ ~Delivering(v, e)'
    <3>1. Queues(v, e)' => ~Delivering(v, e)' /\ e \notin headers'
      BY <1>2, <1>7, <1>10 DEF PInv, StageInv
    <3>2. Collected(v, e)' => ~Reported(v, e)' /\ ~Proposable(v, e)'
      BY <1>6, <2>1 DEF PInv, StageInv, Delivering
    <3>3. Reported(v, e)' => ~Proposable(v, e)'
      BY <1>6 DEF PInv, StageInv
    <3>4. e \in headers' => e \in sealed' /\ ~Delivering(v, e)'
      BY <1>2, <1>7, <2>1 DEF PInv, StageInv
    <3>. QED  BY <3>1, <3>2, <3>3, <3>4
  <2>. QED  BY <2>2 DEF StageInv
<1>14. QueueInv'
  <2>1. SUFFICES ASSUME NEW v \in Authority, NEW i \in DOMAIN waiting'[v],
                        NEW j \in DOMAIN waiting'[v], waiting'[v][i] = waiting'[v][j]
                 PROVE  i = j
    BY DEF QueueInv
  <2>2. CASE v = w
    <3>1. i + 1 = j + 1
      BY <1>9, <2>1, <2>2 DEF PInv, QueueInv
    <3>. QED  BY <1>9, <2>2, <3>1
  <2>3. CASE v # w
    BY <1>8, <2>1, <2>3 DEF PInv, QueueInv
  <2>. QED  BY <2>2, <2>3
<1>. QED  BY <1>11, <1>12, <1>13, <1>14

\* A processed batch is reported, an own one as such.
LEMMA ProcessMoves ==
    ASSUME PInv, TypeOK', NEW w \in Authority, NEW m \in inbox[w], process(w, m)
    PROVE  OwnInv' /\ QuorumInv' /\ StageInv' /\ QueueInv'
<1>1. PICK d \in Digest, own \in BOOLEAN : m = <<d, own>>
  BY DEF PInv, TypeOK
<1>2. /\ inbox' = [inbox EXCEPT ![w] = @ \ {<<d, own>>}]
      /\ mail' = mail \cup {IF own THEN OurBatch(w, d) ELSE OthersBatch(w, d)}
      /\ UNCHANGED <<sealed, acked, waiting, digests, headers>>
  BY <1>1 DEF process, primary
<1>3. CASE ~own
  <2>1. \A v \in Authority, e \in Digest : Collected(v, e)' => Collected(v, e)
    BY <1>2 DEF PInv, TypeOK, Collected
  <2>2. \A v \in Authority, e \in Digest : Reported(v, e)' => Reported(v, e)
    BY <1>2, <1>3, MessageFields DEF Reported
  <2>3. Leaves
    BY <1>2, <2>1, <2>2 DEF Leaves, Proposable
  <2>. QED  BY <2>3, StagesLeft
<1>4. CASE own
  <2>1. Collected(w, d)
    BY <1>1, <1>4 DEF Collected
  <2>2. \A v \in Authority, e \in Digest :
          /\ Collected(v, e)' <=> Collected(v, e) /\ ~(v = w /\ e = d)
          /\ Proposable(v, e)' = Proposable(v, e)
    BY <1>2, <1>4 DEF PInv, TypeOK, Collected, Proposable
  <2>3. \A v \in Authority, e \in Digest :
          Reported(v, e)' <=> Reported(v, e) \/ (v = w /\ e = d)
    BY <1>2, <1>4, MessageFields DEF Reported
  <2>4. \A v \in Authority, e \in Digest : Delivering(v, e)' => Delivering(v, e)
    BY <2>1, <2>2, <2>3 DEF Delivering
  <2>5. OwnInv' /\ QuorumInv' /\ QueueInv'
    BY <1>2, <2>4, Advance DEF PInv, TypeOK
  <2>6. StageInv'
    <3>1. ASSUME NEW v \in Authority, NEW e \in Digest
          PROVE  /\ Queues(v, e)' => ~Delivering(v, e)' /\ e \notin headers'
                 /\ Collected(v, e)' => ~Reported(v, e)' /\ ~Proposable(v, e)'
                 /\ Reported(v, e)' => ~Proposable(v, e)'
                 /\ e \in headers' => e \in sealed' /\ ~Delivering(v, e)'
      <4>1. Queues(v, e)' = Queues(v, e)
        BY <1>2 DEF Queues
      <4>. QED  BY <1>2, <2>1, <2>2, <2>3, <2>4, <4>1 DEF PInv, StageInv
    <3>. QED  BY <3>1 DEF StageInv
  <2>. QED  BY <2>5, <2>6
<1>. QED  BY <1>3, <1>4

\* The proposer takes a report.
LEMMA ReportMoves ==
    ASSUME PInv, NEW w \in Authority, NEW d \in Digest, recv_our_batch(w, d)
    PROVE  OwnInv' /\ QuorumInv' /\ StageInv' /\ QueueInv'
<1>1. /\ Reported(w, d)
      /\ mail' = mail \ {OurBatch(w, d)}
      /\ digests' = [digests EXCEPT ![w] = @ \cup {d}]
      /\ UNCHANGED <<sealed, acked, waiting, inbox, headers>>
  BY DEF recv_our_batch, Reported, worker
<1>2. \A v \in Authority, e \in Digest :
        /\ Collected(v, e)' = Collected(v, e)
        /\ Proposable(v, e)' <=> Proposable(v, e) \/ (v = w /\ e = d)
  BY <1>1 DEF PInv, TypeOK, Collected, Proposable
<1>3. \A v \in Authority, e \in Digest :
        Reported(v, e)' <=> Reported(v, e) /\ ~(v = w /\ e = d)
  BY <1>1, MessageFields DEF Reported
<1>4. \A v \in Authority, e \in Digest : Delivering(v, e)' => Delivering(v, e)
  BY <1>1, <1>2, <1>3 DEF Delivering
<1>5. OwnInv' /\ QuorumInv' /\ QueueInv'
  BY <1>1, <1>4, Advance DEF PInv, TypeOK
<1>6. StageInv'
  <2>1. ASSUME NEW v \in Authority, NEW e \in Digest
        PROVE  /\ Queues(v, e)' => ~Delivering(v, e)' /\ e \notin headers'
               /\ Collected(v, e)' => ~Reported(v, e)' /\ ~Proposable(v, e)'
               /\ Reported(v, e)' => ~Proposable(v, e)'
               /\ e \in headers' => e \in sealed' /\ ~Delivering(v, e)'
    <3>1. Queues(v, e)' = Queues(v, e)
      BY <1>1 DEF Queues
    <3>. QED  BY <1>1, <1>2, <1>3, <1>4, <3>1 DEF PInv, StageInv
  <2>. QED  BY <2>1 DEF StageInv
<1>. QED  BY <1>5, <1>6

\* The proposer makes a header.
LEMMA HeaderMoves ==
    ASSUME PInv, NEW p \in Authority, NEW d \in Digest, make_header(p, d)
    PROVE  OwnInv' /\ QuorumInv' /\ StageInv' /\ QueueInv'
<1>1. /\ Proposable(p, d)
      /\ digests' = [digests EXCEPT ![p] = @ \ {d}]
      /\ headers' = headers \cup {d}
      /\ UNCHANGED <<sealed, acked, waiting, inbox, mail>>
  BY DEF make_header, Proposable, worker
<1>2. Delivering(p, d) /\ owner[d] = p /\ d \in sealed
  BY <1>1 DEF PInv, OwnInv, Delivering
<1>3. \A v \in Authority, e \in Digest :
        /\ Collected(v, e)' = Collected(v, e)
        /\ Reported(v, e)' = Reported(v, e)
        /\ Proposable(v, e)' <=> Proposable(v, e) /\ ~(v = p /\ e = d)
  BY <1>1 DEF PInv, TypeOK, Collected, Reported, Proposable
<1>4. \A v \in Authority, e \in Digest : Delivering(v, e)' => Delivering(v, e)
  BY <1>3 DEF Delivering
<1>5. \A v \in Authority : ~Delivering(v, d)'
  <2>1. ~Delivering(p, d)'
    BY <1>1, <1>3 DEF PInv, StageInv, Delivering
  <2>2. ASSUME NEW v \in Authority, v # p PROVE ~Delivering(v, d)'
    BY <1>2, <1>4, <2>2 DEF PInv, OwnInv
  <2>. QED  BY <2>1, <2>2
<1>6. \A v \in Authority : ~Queues(v, d)
  BY <1>2 DEF PInv, TypeOK, StageInv, Queues
<1>7. OwnInv' /\ QuorumInv' /\ QueueInv'
  <2>1. headers' \subseteq Digest
    BY <1>1 DEF PInv, TypeOK
  <2>. QED  BY <1>1, <1>2, <1>4, <2>1, Advance
<1>8. StageInv'
  <2>1. ASSUME NEW v \in Authority, NEW e \in Digest
        PROVE  /\ Queues(v, e)' => ~Delivering(v, e)' /\ e \notin headers'
               /\ Collected(v, e)' => ~Reported(v, e)' /\ ~Proposable(v, e)'
               /\ Reported(v, e)' => ~Proposable(v, e)'
               /\ e \in headers' => e \in sealed' /\ ~Delivering(v, e)'
    <3>1. Queues(v, e)' = Queues(v, e)
      BY <1>1 DEF Queues
    <3>2. CASE e = d
      BY <1>2, <1>3, <1>1, <1>5, <1>6, <3>1, <3>2 DEF PInv, StageInv
    <3>3. CASE e # d
      BY <1>1, <1>3, <1>4, <3>1, <3>3 DEF PInv, StageInv
    <3>. QED  BY <3>2, <3>3
  <2>. QED  BY <2>1 DEF StageInv
<1>. QED  BY <1>7, <1>8

\* Every step keeps the stages apart, with their authors and quorums.
LEMMA NextStages ==
    ASSUME PInv, [Next]_vars
    PROVE  OwnInv' /\ QuorumInv' /\ StageInv' /\ QueueInv'
<1>. DEFINE Goal == OwnInv' /\ QuorumInv' /\ StageInv' /\ QueueInv'
<1>0. TypeOK'
  BY NextType DEF PInv
<1>1. CASE \E d \in Digest : seal(d)
  BY <1>1, SealMoves
<1>2. CASE \E d \in Digest, n \in Authority :
        dispatch(d, n) \/ dispatch_unanswered(d, n) \/ skip(d, n)
  BY <1>0, <1>2, ReceiveStays, StagesLeft
<1>3. CASE \E w \in Authority : deliver(w) \/ Restart(w)
  BY <1>0, <1>3, DeliverMoves, RestartStays, StagesLeft
<1>4. CASE \E w \in Authority : \E m \in inbox[w] : process(w, m)
  BY <1>0, <1>4, ProcessMoves
<1>5. ASSUME NEW w \in Authority, NEW d \in Digest,
             \/ write(w, d) \/ recv_our_batch(w, d) \/ recv_others_batch(w, d)
             \/ make_header(w, d) \/ process_header(w, d) \/ missing_payload(w, d)
             \/ loopback(w, d) \/ synchronize(w, d) \/ resolve(w, d) \/ recv_batch(w, d)
      PROVE  Goal
  BY <1>0, <1>5, WorkerStays, PrimaryStays, ReportMoves, HeaderMoves, StagesLeft
<1>6. CASE \E w, n \in Authority : retry(w, n)
  BY <1>0, <1>6, RetryStays, StagesLeft
<1>7. CASE \E m \in mail : help(m) \/ lose(m)
  BY <1>0, <1>7, MailStays, StagesLeft
<1>8. CASE UNCHANGED vars
  <2>1. Leaves
    BY <1>8 DEF vars, worker, primary, Leaves, Collected, Reported, Proposable
  <2>. QED  BY <1>0, <2>1, StagesLeft
<1>. QED  BY <1>1, <1>2, <1>3, <1>4, <1>5, <1>6, <1>7, <1>8 DEF Next

-----------------------------------------------------------------------------
\* Who is relied on has the batch.

LEMMA NextHeld ==
    ASSUME PInv, [Next]_vars
    PROVE  HeldInv'
<1>0. TypeOK'
  BY NextType DEF PInv
<1>. DEFINE NewMail == {m \in mail' \ mail : m.kind = "OthersBatch"}
<1>a. ASSUME Leaves, acked' = acked, NewMail = {},
             \A w \in Authority : payload'[w] \subseteq payload[w]
      PROVE  HeldInv'
  <2>1. ASSUME NEW w \in Authority, NEW d \in Digest, OthersBatch(w, d) \in mail'
        PROVE  OthersBatch(w, d) \in mail
    BY <1>a, <2>1, MessageFields
  <2>2. \A w \in Authority, d \in Digest : ReliedOn(w, d)' => ReliedOn(w, d)
    BY <1>a, <2>1 DEF ReliedOn, Leaves
  <2>. QED  BY <1>a, <2>2, HeldStep
<1>b. ASSUME acked' = acked, UNCHANGED <<mail, digests, headers, payload>>
      PROVE  HeldInv'
  <2>1. \A w \in Authority, d \in Digest : ReliedOn(w, d)' => ReliedOn(w, d)
    BY <1>b DEF ReliedOn, Reported, Proposable
  <2>. QED  BY <1>b, <2>1, HeldStep
<1>1. ASSUME NEW d \in Digest, seal(d) PROVE HeldInv'
  BY <1>1, <1>b DEF seal, primary
<1>2. ASSUME NEW d \in Digest, NEW n \in Authority, dispatch(d, n) PROVE HeldInv'
  <2>1. UNCHANGED <<mail, digests, headers, payload>>
    BY <1>2 DEF dispatch, Receive, primary
  <2>2. \A w \in Authority, e \in Digest : ReliedOn(w, e)' => ReliedOn(w, e)
    BY <2>1 DEF ReliedOn, Reported, Proposable
  <2>3. HasOrQueued(n, d)'
    BY <1>2 DEF PInv, TypeOK, dispatch, Receive, HasOrQueued
  <2>4. \A w \in Authority, e \in Digest :
          w \in acked'[e] => w \in acked[e] \/ (w = n /\ e = d)
    BY <1>2 DEF PInv, TypeOK, dispatch
  <2>. QED  BY <2>2, <2>3, <2>4, HeldStep
<1>3. ASSUME NEW d \in Digest, NEW n \in Authority,
             dispatch_unanswered(d, n) \/ skip(d, n)
      PROVE  HeldInv'
  BY <1>3, <1>b DEF dispatch_unanswered, Receive, skip, primary
<1>4. ASSUME NEW w \in Authority, deliver(w) PROVE HeldInv'
  BY <1>4, <1>b DEF deliver, primary
<1>5. ASSUME NEW w \in Authority, Restart(w) PROVE HeldInv'
  <2>1. mail' \subseteq mail
    BY <1>5 DEF Restart
  <2>. QED  BY <1>0, <1>5, <2>1, <1>a, RestartStays DEF Restart, primary
<1>6. ASSUME NEW w \in Authority, NEW m \in inbox[w], process(w, m) PROVE HeldInv'
  <2>1. PICK d \in Digest, own \in BOOLEAN : m = <<d, own>>
    BY DEF PInv, TypeOK
  <2>2. /\ mail' = mail \cup {IF own THEN OurBatch(w, d) ELSE OthersBatch(w, d)}
        /\ writes' = [writes EXCEPT ![w] = @ \cup {d}]
        /\ UNCHANGED <<acked, digests, headers, payload>>
    BY <1>6, <2>1 DEF process, Kept, primary
  <2>3. Has(w, d)'
    BY <2>2 DEF PInv, TypeOK, Has, Known
  <2>4. ASSUME NEW v \in Authority, NEW e \in Digest, ReliedOn(v, e)'
        PROVE  ReliedOn(v, e) \/ (v = w /\ e = d)
    BY <2>2, <2>4, MessageFields DEF ReliedOn, Reported, Proposable
  <2>. QED  BY <2>2, <2>3, <2>4, HeldStep
<1>7. ASSUME NEW w \in Authority, NEW d \in Digest, write(w, d) \/ resolve(w, d) \/ recv_batch(w, d)
      PROVE  HeldInv'
  <2>1. acked' = acked /\ payload' = payload /\ mail' \subseteq mail
    BY <1>7 DEF write, resolve, recv_batch, primary
  <2>. QED  BY <1>0, <1>7, <2>1, <1>a, WorkerStays
<1>8. ASSUME NEW w \in Authority, NEW d \in Digest, synchronize(w, d) PROVE HeldInv'
  <2>1. acked' = acked /\ payload' = payload
    BY <1>8 DEF synchronize, primary
  <2>2. mail' \subseteq mail \cup {BatchRequest(owner[d], d, w)}
    BY <1>8 DEF synchronize
  <2>3. NewMail = {}
    BY <2>2, MessageFields
  <2>. QED  BY <1>0, <1>8, <2>1, <2>3, <1>a, WorkerStays
<1>9. ASSUME NEW w \in Authority, NEW d \in Digest, recv_our_batch(w, d) PROVE HeldInv'
  <2>1. /\ Reported(w, d) /\ mail' \subseteq mail
        /\ digests' = [digests EXCEPT ![w] = @ \cup {d}]
        /\ UNCHANGED <<acked, headers, payload>>
    BY <1>9 DEF recv_our_batch, Reported, worker
  <2>2. ASSUME NEW v \in Authority, NEW e \in Digest, ReliedOn(v, e)'
        PROVE  ReliedOn(v, e)
    BY <2>1, <2>2 DEF PInv, TypeOK, ReliedOn, Reported, Proposable
  <2>. QED  BY <2>1, <2>2, HeldStep
<1>10. ASSUME NEW w \in Authority, NEW d \in Digest, recv_others_batch(w, d) PROVE HeldInv'
  <2>1. /\ OthersBatch(w, d) \in mail /\ mail' \subseteq mail
        /\ payload' = [payload EXCEPT ![w] = @ \cup {d}]
        /\ UNCHANGED <<acked, headers, digests>>
    BY <1>10 DEF recv_others_batch, worker
  <2>2. ASSUME NEW v \in Authority, NEW e \in Digest, ReliedOn(v, e)'
        PROVE  ReliedOn(v, e)
    BY <2>1, <2>2 DEF PInv, TypeOK, ReliedOn, Reported, Proposable
  <2>. QED  BY <2>1, <2>2, HeldStep
<1>11. ASSUME NEW p \in Authority, NEW d \in Digest, make_header(p, d) PROVE HeldInv'
  <2>1. /\ Proposable(p, d) /\ headers' = headers \cup {d}
        /\ digests' = [digests EXCEPT ![p] = @ \ {d}]
        /\ UNCHANGED <<acked, mail, payload>>
    BY <1>11 DEF make_header, Proposable, worker
  <2>2. owner[d] = p
    BY <2>1 DEF PInv, OwnInv, Delivering
  <2>3. ASSUME NEW v \in Authority, NEW e \in Digest, ReliedOn(v, e)'
        PROVE  ReliedOn(v, e)
    BY <2>1, <2>2, <2>3 DEF PInv, TypeOK, ReliedOn, Reported, Proposable
  <2>. QED  BY <2>1, <2>3, HeldStep
<1>12. ASSUME NEW w \in Authority, NEW d \in Digest, process_header(w, d) \/ loopback(w, d)
       PROVE  HeldInv'
  BY <1>12, <1>b DEF process_header, loopback, worker
<1>13. ASSUME NEW w \in Authority, NEW d \in Digest, missing_payload(w, d) PROVE HeldInv'
  <2>1. acked' = acked /\ payload' = payload
    BY <1>13 DEF missing_payload, SyncBatches, worker
  <2>2. mail' = mail \cup {Synchronize(owner[d], d)}
    BY <1>13 DEF missing_payload, SyncBatches
  <2>3. NewMail = {}
    BY <2>2, MessageFields
  <2>. QED  BY <1>0, <1>13, <2>1, <2>3, <1>a, PrimaryStays
<1>14. ASSUME NEW w \in Authority, NEW n \in Authority, retry(w, n) PROVE HeldInv'
  <2>1. acked' = acked /\ payload' = payload
    BY <1>14 DEF retry, worker, primary
  <2>2. ASSUME NEW m \in mail' \ mail PROVE m.kind # "OthersBatch"
    <3>1. PICK c : m = BatchRequest(n, c, w)
      BY <1>14, <2>2 DEF retry
    <3>. QED  BY <3>1, MessageFields
  <2>3. NewMail = {}
    BY <2>2
  <2>. QED  BY <1>0, <1>14, <2>1, <2>3, <1>a, RetryStays
<1>15. ASSUME NEW m \in mail, help(m) PROVE HeldInv'
  <2>1. acked' = acked /\ payload' = payload
    BY <1>15 DEF help, worker, primary
  <2>2. mail' \subseteq mail \cup {Batch(requestor(m), m.batch)}
    BY <1>15 DEF help
  <2>3. NewMail = {}
    BY <2>2, MessageFields
  <2>. QED  BY <1>0, <1>15, <2>1, <2>3, <1>a, MailStays
<1>16. ASSUME NEW m \in mail, lose(m) PROVE HeldInv'
  <2>1. acked' = acked /\ payload' = payload /\ mail' \subseteq mail
    BY <1>16 DEF lose, worker, primary
  <2>. QED  BY <1>0, <1>16, <2>1, <1>a, MailStays
<1>17. CASE UNCHANGED vars
  BY <1>17, <1>b DEF vars, worker, primary
<1>. QED
  BY <1>1, <1>2, <1>3, <1>4, <1>5, <1>6, <1>7, <1>8, <1>9, <1>10, <1>11, <1>12, <1>13, <1>14,
     <1>15, <1>16, <1>17 DEF Next

\* Votes follow reports.
LEMMA NextVoted ==
    ASSUME PInv, [Next]_vars
    PROVE  VotedInv'
<1>1. ASSUME UNCHANGED <<voted, payload>> PROVE VotedInv'
  BY <1>1 DEF PInv, VotedInv
<1>2. ASSUME NEW w \in Authority, NEW d \in Digest, recv_others_batch(w, d) PROVE VotedInv'
  BY <1>2 DEF PInv, TypeOK, VotedInv, recv_others_batch
<1>3. ASSUME NEW w \in Authority, NEW d \in Digest, process_header(w, d) PROVE VotedInv'
  BY <1>3 DEF PInv, TypeOK, VotedInv, process_header
<1>4. ASSUME NEW w \in Authority, NEW d \in Digest, loopback(w, d) PROVE VotedInv'
  BY <1>4 DEF PInv, TypeOK, VotedInv, loopback
<1>5. ASSUME NEW w \in Authority, NEW d \in Digest,
             \/ write(w, d) \/ recv_our_batch(w, d) \/ make_header(w, d) \/ missing_payload(w, d)
             \/ synchronize(w, d) \/ resolve(w, d) \/ recv_batch(w, d)
      PROVE  VotedInv'
  BY <1>5, <1>1 DEF primary, worker, write, recv_our_batch, make_header, missing_payload,
     SyncBatches, synchronize, resolve, recv_batch
<1>6. ASSUME NEW d \in Digest, NEW n \in Authority,
             dispatch(d, n) \/ dispatch_unanswered(d, n) \/ skip(d, n)
      PROVE  VotedInv'
  BY <1>6, <1>1 DEF primary, dispatch, dispatch_unanswered, Receive, skip
<1>7. ASSUME NEW w \in Authority, deliver(w) \/ Restart(w) PROVE VotedInv'
  BY <1>7, <1>1 DEF primary, deliver, Restart
<1>8. ASSUME NEW w \in Authority, NEW m \in inbox[w], process(w, m) PROVE VotedInv'
  BY <1>8, <1>1 DEF primary, process
<1>9. ASSUME NEW w \in Authority, NEW n \in Authority, retry(w, n) PROVE VotedInv'
  BY <1>9, <1>1 DEF primary, retry
<1>10. ASSUME NEW m \in mail, help(m) \/ lose(m) PROVE VotedInv'
  BY <1>10, <1>1 DEF primary, help, lose
<1>11. ASSUME NEW d \in Digest, seal(d) PROVE VotedInv'
  BY <1>11, <1>1 DEF primary, seal
<1>12. CASE UNCHANGED vars
  BY <1>12, <1>1 DEF vars, primary
<1>. QED
  BY <1>2, <1>3, <1>4, <1>5, <1>6, <1>7, <1>8, <1>9, <1>10, <1>11, <1>12 DEF Next

-----------------------------------------------------------------------------
\* The invariant holds, and the properties follow.

LEMMA InitInv == ASSUME Init PROVE PInv
<1>1. TypeOK
  BY InitType
<1>2. HeldInv /\ VotedInv /\ OwnInv /\ QuorumInv /\ StageInv /\ QueueInv
  BY DEF Init, HeldInv, VotedInv, OwnInv, QuorumInv, StageInv, QueueInv, ReliedOn, Delivering,
     Queues, Collected, Reported, Proposable
<1>. QED  BY <1>1, <1>2 DEF PInv

LEMMA Invariant == Spec => []PInv
<1>1. Init => PInv
  BY InitInv
<1>2. PInv /\ [Next]_vars => PInv'
  BY NextType, NextStages, NextHeld, NextVoted DEF PInv
<1>. QED  BY <1>1, <1>2, PTL DEF Spec

\* The variables of the payload layer keep their types (payload and batch
\* paths of worker/src and primary/src).
THEOREM TypeCorrect == Spec => []TypeOK
<1>1. PInv => TypeOK
  BY DEF PInv
<1>. QED  BY <1>1, Invariant, PTL

\* A primary votes only for headers whose batch its own worker has, unless
\* that worker restarted (missing_payload, processor.rs:58-72).
THEOREM VotesAreStored == Spec => []VotedIsStored
<1>1. PInv => VotedIsStored
  <2>1. SUFFICES ASSUME PInv, NEW p \in Authority, NEW d \in voted[p]
                 PROVE  d \in Known(p) \/ p \in Restarted
    BY DEF VotedIsStored
  <2>2. d \in Digest /\ ReliedOn(p, d)
    BY <2>1 DEF PInv, TypeOK, VotedInv, ReliedOn
  <2>. QED  BY <2>1, <2>2 DEF PInv, HeldInv, Has, Restarted
<1>. QED  BY <1>1, Invariant, PTL

\* No batch comes back to a proposer once it is in a header (own_digest of
\* processor.rs:55, and the queues of the worker).
THEOREM BatchesOnce == Spec => []ProposedOnce
<1>1. PInv => ProposedOnce
  BY DEF PInv, TypeOK, StageInv, ProposedOnce, Delivering, Reported, Proposable
<1>. QED  BY <1>1, Invariant, PTL

\* What remains of a quorum without less than f+1 stake has f+1 stake.
LEMMA QuorumWithout ==
    ASSUME NEW Q \in SUBSET Authority, NEW F \in SUBSET Authority, IsQuorum(Q), ~IsValid(F)
    PROVE  IsValid(Q \ F)
<1>. DEFINE N == TotalStake
<1>1. StakeOf(Q) = StakeOf(Q \ F) + StakeOf(Q \cap F)
  <2>1. StakeOf((Q \ F) \cup (Q \cap F))
          = StakeOf(Q \ F) + StakeOf(Q \cap F) - StakeOf((Q \ F) \cap (Q \cap F))
    BY StakeUnion
  <2>2. (Q \ F) \cup (Q \cap F) = Q /\ (Q \ F) \cap (Q \cap F) = {}
    OBVIOUS
  <2>3. StakeOf(Q \ F) \in Nat /\ StakeOf(Q \cap F) \in Nat
    BY StakeType
  <2>4. StakeOf((Q \ F) \cup (Q \cap F)) = StakeOf(Q)
    BY <2>2
  <2>5. StakeOf((Q \ F) \cap (Q \cap F)) = 0
    BY <2>2, StakeEmpty
  <2>. QED  BY <2>1, <2>3, <2>4, <2>5
<1>2. StakeOf(Q \cap F) <= StakeOf(F)
  BY StakeMonotone
<1>3. StakeOf(Q \ F) \in Nat /\ StakeOf(Q \cap F) \in Nat /\ StakeOf(F) \in Nat
  BY StakeType
<1>4. N \in Nat /\ N > 0
  BY TotalStakePositive
<1>. HIDE DEF N
<1>5. (2 * N) \div 3 + 1 - ((N + 2) \div 3 - 1) >= (N + 2) \div 3
  BY <1>4
<1>. QED
  BY <1>1, <1>2, <1>3, <1>4, <1>5
     DEF IsQuorum, IsValid, quorum_threshold, validity_threshold, N

\* The batch of every header is held by workers of f+1 stake, as long as those
\* of less than f+1 restart, for every committee (quorum_waiter.rs:70-83).
THEOREM HeadersAreHeld == Spec => []ProposedIsHeld
<1>1. PInv => ProposedIsHeld
  <2>1. SUFFICES ASSUME PInv, NEW d \in headers, ~IsValid(Restarted)
                 PROVE  IsValid(Holders(d))
    BY DEF ProposedIsHeld
  <2>. DEFINE Q == acked[d] \cup {owner[d]}
  <2>2. d \in Digest /\ owner[d] \in Authority /\ Q \in SUBSET Authority
    BY <2>1, PayloadAssumption DEF PInv, TypeOK
  <2>3. IsQuorum(Q)
    BY <2>1, <2>2 DEF PInv, QuorumInv
  <2>4. ASSUME NEW w \in Q, w \notin Restarted
        PROVE  w \in Holders(d)
    <3>1. HasOrQueued(w, d)
      BY <2>1, <2>2, <2>4 DEF PInv, HeldInv, ReliedOn, HasOrQueued
    <3>. QED  BY <2>2, <2>4, <3>1 DEF HasOrQueued, Has, Restarted, Holders
  <2>5. Restarted \in SUBSET Authority /\ Holders(d) \in SUBSET Authority
    BY DEF Restarted, Holders
  <2>6. IsValid(Q \ Restarted)
    BY <2>1, <2>2, <2>3, <2>5, QuorumWithout
  <2>7. Q \ Restarted \subseteq Holders(d)
    BY <2>4
  <2>8. StakeOf(Q \ Restarted) <= StakeOf(Holders(d))
    BY <2>5, <2>7, StakeMonotone
  <2>. QED  BY <2>2, <2>5, <2>6, <2>8, StakeType, ThresholdTypes DEF IsValid
<1>. QED  BY <1>1, Invariant, PTL
=============================================================================
