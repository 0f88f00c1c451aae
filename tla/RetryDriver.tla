---------------------------- MODULE RetryDriver ----------------------------
(***************************************************************************)
(* nm_state_transition_with_retry3.py, which state_transition_tmux.sh runs, *)
(* and the two scripts before it: all batches in one process, each of them *)
(* attempted several times, on one client.                                 *)
(***************************************************************************)
EXTENDS Driver

CONSTANT RETRY_LIMIT   \* the attempts for a batch

ASSUME RetryAssumption == RETRY_LIMIT \in Nat

RetryScripts == {"retry", "retry2", "retry3"}

\* On to the first batch from the given key on that has no blockhash.
Seek(f, from) ==
    LET rest == {k \in Pending(f) : k >= from}
    IN  IF rest = {}
          THEN Off
          ELSE /\ pc' = "send" /\ key' \in Least(rest) /\ batches' = f
               /\ base' = << >> /\ built' = << >> /\ count' = 0

StartRetry ==
    /\ script \in RetryScripts
    /\ pc = "off" /\ drivers < MaxDrivers
    /\ Seek(file, 0)
    /\ drivers' = drivers + 1
    /\ UNCHANGED <<disk, node, unadopted>>

\* Errors of the client are printed and ignored.  The third script reads the
\* head here, once for all attempts.
SendTxs ==
    /\ pc = "send"
    /\ \E S \in SUBSET ExpectedTxs : sendRawTransaction(First, S)
    /\ pc' = "attempt"
    /\ base' = head[First]
    /\ UNCHANGED <<disk, head, known, batches, key, built, count, history>>

Attempting == pc = "attempt" /\ count < RETRY_LIMIT

\* Forkchoice, payload and comparison.
Attempt(parent, matches) ==
    /\ Attempting /\ Adopts(First, parent)
    /\ forkchoiceUpdated(First, parent)
    /\ \E S \in Payloads(First, parent) :
         IF S \in matches
           THEN pc' = "submit" /\ built' = Append(parent, S) /\ UNCHANGED count
           ELSE count' = count + 1 /\ UNCHANGED <<pc, built>>
    /\ UNCHANGED <<disk, known, pool, batches, key, base, history>>

\* The payloads that match.  Mutant: the comparison that is commented out,
\* which tolerates transactions of other batches.
all_txs_tolerant    == {S \in SUBSET Tx : ExpectedTxs \subseteq S}
all_txs_exactly_match == {ExpectedTxs}

\* The first script looks for the transactions at the wrong level of the
\* answer and finds none.
all_txs_included == {S \in SUBSET Tx : ExpectedTxs = {}}

BuildRetry  == script = "retry"  /\ Attempt(head[First], all_txs_included)
BuildRetry2 == script = "retry2" /\ Attempt(head[First], all_txs_exactly_match)
BuildRetry3 == script = "retry3" /\ Attempt(base, all_txs_exactly_match)

\* An exception, or no payload id.
Retry ==
    /\ Attempting
    /\ count' = count + 1
    /\ UNCHANGED <<disk, node, pc, batches, key, base, built, history>>

\* The first script passes parameters that the client refuses.
Submits == script \in RetryScripts \ {"retry"}

\* The client answers VALID or ACCEPTED.
Submit ==
    /\ pc = "submit" /\ Submits
    /\ newPayload(First, built)
    /\ pc' = "final"
    /\ UNCHANGED <<disk, head, pool, memory, history>>

\* The answer to newPayload or to the final forkchoice is lost: the call took
\* effect or did not, and the next attempt begins.
Lost ==
    \/ pc = "submit" /\ newPayload(First, built) /\ UNCHANGED head
    \/ pc = "final" /\ forkchoiceUpdated(First, built) /\ UNCHANGED known
    \/ pc \in {"submit", "final"} /\ UNCHANGED <<head, known>>

\* Mutant: the block is saved although its forkchoice was not answered.
LoseAnswer_saves ==
    /\ Submits /\ Lost
    /\ pc' = "save"
    /\ UNCHANGED <<disk, pool, memory, history>>

LoseAnswer ==
    /\ Submits /\ Lost
    /\ pc' = "attempt" /\ count' = count + 1 /\ built' = << >>
    /\ UNCHANGED <<disk, pool, batches, key, base, history>>

\* Any other status: the attempts are over.
Refused ==
    /\ pc = "submit" /\ script \in RetryScripts
    /\ Seek(batches, key + 1)
    /\ UNCHANGED <<disk, node, history>>

\* Any answer of the client, which is not looked at, confirms the head: also
\* SYNCING after a block that is only ACCEPTED, INVALID, or an error.
FinalForkchoice ==
    /\ pc = "final" /\ Submits
    /\ \/ forkchoiceUpdated(First, built) /\ UNCHANGED unadopted
       \/ unadopted' = unadopted \cup {built} /\ UNCHANGED head
    /\ pc' = "save"
    /\ UNCHANGED <<disk, known, pool, memory, drivers>>

OpenSave ==
    /\ pc = "save"
    /\ Truncate
    /\ pc' = "write"
    /\ UNCHANGED <<node, memory, history>>

Save ==
    /\ pc = "write"
    /\ Write(Recorded)
    /\ Seek(Recorded, key + 1)
    /\ UNCHANGED <<node, history>>

\* "Inclusion failed after retries": on to the next batch.
GiveUpBatch ==
    /\ pc = "attempt" /\ count >= RETRY_LIMIT
    /\ Seek(batches, key + 1)
    /\ UNCHANGED <<disk, node, history>>

RetryDriver ==
    \/ StartRetry \/ SendTxs \/ BuildRetry \/ BuildRetry2 \/ BuildRetry3 \/ Retry
    \/ Submit \/ LoseAnswer \/ Refused \/ FinalForkchoice \/ OpenSave \/ Save
    \/ GiveUpBatch
=============================================================================
