# A verification development of Sailfish on Nethermind

This directory holds TLA+ models of the node in this repository, the TLC
configurations that check them and theorems about them that TLAPS proves. The
node is a Narwhal-style mempool with the Sailfish ordering engine: primaries
build a DAG of certified headers, every node orders the DAG on its own, and
scripts feed the ordered transaction batches to a Nethermind client.

Paths below are relative to the repository; line numbers refer to its files.

| module | models | lines of code |
|---|---|---|
| `Committee` | stake, quorums, leaders (`config/src/lib.rs`) | 279 |
| `Consensus` | the ordering engine (`consensus/src/lib.rs`) of several nodes | 397 |
| `Proposer` | the proposer task (`primary/src/proposer.rs`) of one primary | 335 |
| `Certification` | headers, votes and certificates of all primaries (`primary/src/core.rs`, `VotesAggregator` of `aggregators.rs`) | 606 + 169 |
| `Payload` | batches from the worker that seals them to headers and votes (`worker/src`, and the primary's side of it) | 800 |
| `Batches` | the batch file and its records, as every script uses them | |
| `Extraction` | the certificates a node appends (`node/src/main.rs`) and `extract_batches_from_ordered_certs.py` | 321 |
| `Nethermind` | external: the clients, as the scripts use them through the Engine API | |
| `Feeder` | `raw2_batches_main.py`, `send_tx_batches.py`, `send_tx_with_fc.py` | 412 |
| `Driver` | what the driving scripts have in common | |
| `RetryDriver` | `nm_state_transition_with_retry.py`, `..._retry2.py`, `..._retry3.py` | 747 |
| `EndpointDriver` | `state_transition_new.py`, `..._main.py`, `..._main_old.py`, `..._main_chota.py`, `..._with_retry.py` | 1127 |
| `Execution` | one producer of batches and one driver on the same file | |
| `InOrderExecution` | abstract: chains that execute the ordered batches | |
| `MC*` | instances: committees, DAGs, deployments | |
| `*Theorems` | theorems and proofs about the module they are named for | |
| `ConsensusLemmas`, `AgreementTheorems` | the lemmas about the operators of `Consensus`; that the engines agree | |

## 1. Inventory

### The parts and how they interact

A *primary* is a set of asynchronous tasks joined by channels. Its **Core** is
one loop over all its inputs, so its handlers are atomic with respect to each
other; concurrency comes from the other tasks, from the other primaries and
from the order in which messages arrive.

```
 workers --digests--> Proposer --header, timeout, no-vote--> Core ==network== other Cores
                        ^  ^                                  |  \
                        |  '---- parents, timeout and --------'   '--> Synchronizer
                        |        no-vote certificates                  HeaderWaiter, CertificateWaiter
                      timer                                            |  (loop back to Core)
                                  headers, certificates: Core --> Consensus --> ordered_certificates.json
                                                              Consensus --> GarbageCollector --> consensus_round
 ordered_certificates.json --> batch extraction --> state transition --> Nethermind
```

**Committee** (`config/src/lib.rs`). Constant state: keys, stake. Operations:
`stake`, `quorum_threshold` (2N/3+1), `validity_threshold` ((N+2)/3), `leader`
(round robin). Correct if any two quorums share more stake than may fail, for
*every* total stake.

**Consensus engine** (`consensus/src/lib.rs`). State: `last_committed_round`,
`last_committed` per authority, `dag`, `stake_vote` per round. Inputs: headers
(counted towards a quorum of 2f+1 for the leader of the previous round) and
certificates (counted towards f+1). On success: `order_leaders` walks back to
the leaders that were passed over, `order_dag` flattens the new history,
`update` records and cleans up. Hard: two nodes get headers and certificates
in different orders, one commits on headers and the other on certificates, one
jumps over a leader that the other committed, and old certificates disappear
(`gc_depth`, or `update`). Correct if all nodes output prefixes of one
sequence, each certificate once, ancestors first, if no supported leader is
lost, and if the `expect` in `linked` never fails.

**Proposer** (`primary/src/proposer.rs`). State: `round`, `last_parents`,
`last_leader`, `digests`, the latest timeout and no-vote certificates, a timer.
Operations: make a header (on the happy path, or after a timeout with a
certificate of timeouts, and of no-votes for a leader); send a timeout and a
no-vote; take parents, digests and certificates. Hard: all of these race.
Correct if there is one header per round, each with a quorum of parents of one
round, with the justification the others ask for, never linking a leader
against which a no-vote was sent, and if the loop always moves on.

**Core: headers, votes and certificates** (`primary/src/core.rs`,
`aggregators.rs`). State: `current_header`, `votes_aggregator`, `last_voted`,
`processing`, `gc_round`, the store. Operations: `process_own_header`,
`process_header`, `process_vote`, `process_certificate`, loopbacks, `sanitize_*`
and the clean-up at the end of each pass. Hard: nothing but headers and
certificates is persisted, so a restart forgets votes and rounds; messages are
repeated; headers are suspended while ancestors or payload are missing; votes
for an earlier header arrive late. Correct if a voter votes once per author and
round, at most one header per author and round is certified, certificates hold
a quorum of real votes, and headers of live primaries do get certified.

**Core: timeouts and no-votes** (`core.rs:310-366`, `aggregators.rs:92-169`).
State: one aggregator per round for each kind, never cleaned up. Operations:
count and hand certificates to the proposer. Correct if a lagging proposer is
not locked out and every round ends.

**Synchronizer, HeaderWaiter, CertificateWaiter, Helper, GarbageCollector**
(`primary/src/*.rs`). State: `pending`, `parent_requests`, `batch_requests`,
`consensus_round`. Operations: suspend, request, retry, loop back, cancel. Hard:
requests race with cancellation and with retries; one entry per header stands
for two kinds of request. Correct if everything suspended comes back or is older
than `gc_round`.

**Worker** (`worker/src`). State: the current batch, `pending` requests.
Operations: seal a batch by size or timer, wait for a quorum of
acknowledgements, store, report the digest, serve and request batches. Hard: a
batch is stored by its author only after the quorum, and acknowledged by the
others before they store it; the report to the primary does not wait for the
write and travels over a lossy sender. Correct if a digest in a header stands
for a batch that f+1 authorities hold, a primary votes only for what its worker
has, a batch is proposed once and in the end, and what is missing is fetched.

**Store** (`store/src/lib.rs`). An actor: `Write`, `Read`, `NotifyRead` with
obligations. Correct if a waiter is woken exactly when its key was written.

**Network** (`network/src`). `ReliableSender` keeps a buffer and the messages
not yet acknowledged, and reconnects; `SimpleSender` drops. Correct if a message
that is not cancelled is delivered at least once, and acknowledgements, which
are matched by position, belong to their message.

**Execution** (`node/src/main.rs`, `extract_batches_from_ordered_certs.py`,
`setup_files/scripts`). State: files (the certificates, the batch file, a
marker), each process's copy of the batch file, and the clients' chains. Three
kinds of program share the batch file. A *producer* appends batches: the
extractor takes them from the node's certificates, in order, and three *feeders*
make them without a node. A *driver* builds one block per batch through the
Engine API: the three `nm_state_transition_with_retry` scripts work through all
batches, each several times, on one client and set the head before they save;
the five `state_transition_` scripts take one batch per run through all clients
and save before they set the head. Hard: every program loads the whole file,
works for a while and writes its whole copy back; each may be killed between any
two steps and in the middle of a write; answers of the client are lost after the
call took effect; clients pack whatever is pending into a payload. Correct if
the file keeps the order of consensus, a block executes exactly one batch, what
is recorded was executed, and batches are executed in order.

**Not protocol logic**: messages and signatures (`messages.rs`, `crypto`),
wiring (`primary.rs`, `worker.rs`), benchmark clients, harness and scripts.

The hazards that each part is exposed to are listed, with their lines, in
`PROJECT.json`.

## 2. Plan

Done, in this order: `Committee`, `Consensus`, `Proposer`, `Certification`,
the execution layer (`Batches` to `Execution`, with the abstract
`InOrderExecution`), `Payload`, and the theorems about them.

Every invariant that a run checks is proved, that the engines agree included.

Left, the most important first:

1. `CertifiedSlots`, an abstract specification (a slot is certified for at most
   one header, with a quorum behind it), `Certification` shown to implement it,
   and a growing DAG above it, header by header, in place of the constant ones.
2. `RoundAdvance`: several `Proposer`s with the timeout and no-vote aggregators
   between them. Questions: does a round always end when f primaries stop? A
   primary that jumps with its timer expired does not send the timeout of the
   round it jumps to.
3. `Synchronizer`: requests for parents and their retries, and the cancellation
   by round of these and of the requests for batches that `Payload` has.
4. `Network`: `ReliableSender` refines "delivered at least once unless
   cancelled", which `Certification` assumes.

## 3. The models and the code

### Committee

`Keys` is the sorted sequence of keys, `Stake` their voting power.
`StakeOf(S)` counts the units of stake of a set, instead of adding up a list
as `aggregators.rs` does; the results are the same, and a cardinality is
something the provers have lemmas for.

### Consensus

One `state[n]` per node, a record with the fields of `struct State`. A header
and its certificate are both the pair (author, round): that a slot has at most
one certified header is what `Certification` is about. `ProcessHeader` is the
first branch of the `select!` (lines 120-199), `ProcessCertificate` the second
(201-294), `Restart` a new `Consensus::spawn` behind the same primary and the
same output file. `commit` is the loop that orders the leaders and updates the
state for each certificate; `linked`, `order_leaders`, `order_dag` and `update`
have the names of their functions, and their loops are recursive functions over
bounded domains and folds, which the provers can reason about. `order_dag` is a
depth-first search with a stack followed by a stable sort; digests are ordered as the keys of the
authors, since any fixed order that all nodes share does.

The engine's environment is the primary: it hands over a certificate only
after it stored its parents (`deliver_certificate`, `synchronizer.rs:122-137`)
and headers at any time. `Init` chooses one of the `Scenarios`: a DAG, the nodes
that take part, their `gc_depth`, the rounds whose headers they receive and how
often they restart. Every DAG satisfies `WellFormed`: the checks of `process_header`
(`core.rs:242-265`). The properties that a restart breaks (see section 5) are
stated for the nodes of the scenarios without restarts (`Steady`).

### Proposer

One action per way through the loop. `Propose` and `Wait` are the top of the
loop (`pc = "top"`, lines 215-253), the `Recv*` actions and `TimerFires` the
branches of the `select!`. The digests are a count, capped by `header_size` (the
code only compares their size with it). `Hands` is the core's
`CertificatesAggregator`: first a quorum, then each further certificate alone.
`handed`, `headers`, `timeouts` and `no_votes` record what was exchanged.

### Certification

All cores at once. A header is its author, round and the author's run (`boot`):
two headers of one author and round differ in the run that made them. `CastVote`
is the end of `process_header` (277-305), `append` is `VotesAggregator::append`,
`CleanUp`, part of every handler, is what the loop does at the end of each
pass (594-603). Whether ancestors and payload are at hand is left open:
`process_header` either votes or puts the header in `waiting`, from where
`loopback` takes it, without the check of `gc_round` that only messages from
the network go through. `process_lost_certificate` is the one case in which a
certificate makes the core process its own header again. Messages are facts
that, once sent, may be received any number of times and in any order;
`ReliableSender` retransmits until acknowledged.

`RestartBeforeStore` is a crash between the broadcast of a new certificate and
the write to the store (`core.rs:383-399` and `:427-436`).

### Payload

The workers of all authorities and what their primaries do with batches. A batch
is its digest; every authority has one worker, and a header has one batch. The
stages of a batch are variables: `sealed`, `sending` (the `ReliableSender`s of
its author), `waiting` (the queue of the `QuorumWaiter`, first come first
served), `inbox` (in front of the two `Processor`s), `writes` (in the channel of
the store), `store`, then `digests` and `headers` at the author's primary and
`payload` at the others. `Known` is what a read finds: it stands behind the
writes that were sent to the store before it. `mail` are the messages of the
`SimpleSender`s.

`seal`, `deliver`, `process`, `synchronize`, `retry`, `help`, `missing_payload` and
`loopback` are the handlers of those names or of the tasks they run in.
`dispatch` is a delivery that is acknowledged; `dispatch_unanswered` one whose
acknowledgement is lost, so that the batch is sent again; `skip` drops a message
whose handler is gone because the `QuorumWaiter` has its quorum.
`SyncBatches` addresses the worker as the code does (`header_waiter.rs:166`).
`Restart` is a crash of a worker: its store and what others received remain; any
part of what was in its channels is lost. `Silent` workers never answer.

Not in it: the `Cleanup` message and the cancellation of requests by round (a
waiting header stays), crashes of primaries, several workers per authority.

### The execution layer

`Batches` has the file: a function from keys to records of a batch and its
block. What a loader cannot parse it replaces by no records (`{}`), so a missing
file, an empty one and one torn by a kill are all `Empty`. A block is named by
what its hash covers, the sequence of the sets of transactions from genesis on;
`blockhash` and `blocknumber` are therefore one field, and two blocks that
differ in their timestamp only are one. The transactions of a batch are sent
and signed as a set; the list comparisons of the `state_transition_` scripts
may fail for the same set in another order, which is `Mismatch`.

`Extraction`: `BeginCertificate`, `EndCertificate` and `TearCertificate` are the
node's `writeln!` (`node/src/main.rs:273-277`), a kill included; as the file is
parsed by accumulating lines (`iter_json_objects`), nothing after a torn object
is ever read. The extractor is one action per pass through its loop: `Skip`,
`Extract`, `Missing` (the CLI fails, once), `GiveUp`; `Finish` is its end with a
last snapshot, by a signal or at the end of the input; `Abort` its end without
one, by a kill or the `ValueError` for an incomplete object. Its snapshots are
atomic.

`Feeder`: start, send, save, mark, with a kill between any two and torn writes
(`TornBatch`, `TornMarker`). `send_tx_with_fc.py` calls a version of
`forkchoiceUpdated` that the clients do not have and sends nothing otherwise.

`RetryDriver`: `SendTxs` is `eth_sendRawTransaction` for each transaction, with
errors ignored, up to where the third script reads the head; an `Attempt` is
forkchoice, payload and comparison; `Submit`, `FinalForkchoice` and `Save` follow,
with a lost answer in between (`LoseAnswer`: the call took effect or not).
`nm_state_transition_with_retry.py` never records a block: it looks for the
transactions one level too high in the answer and passes parameters that the
client refuses (lines 67-71 and 157), so only a batch without transactions gets
to its `newPayload`, which fails.

`EndpointDriver`: `Begin` with the guard of each script on the height, then per
client `Match` (forkchoice, payload, comparison), `NewPayload`, `RecordBlock`,
`FinalizeHead`, and their failures. `state_transition_new.py` replaces the file
atomically and goes on if that fails (`RecordFails`); the others can tear it.

`Nethermind` is what the scripts assume of the clients: an unknown head is not
adopted, a head that the chain already extends is ignored, a payload holds any
of the pending transactions, a payload that was built there is valid. `Execution`
picks a deployment, a producer and a driver, and interleaves their steps. There
is one process of each kind at a time, as in `*_tmux.sh`; `execution.sh` runs
producer and driver in turn, and so does the model for `raw2`. `Arrive` lets
transactions reach the clients of `state_transition_new.py`, which sends none.

## 4. The runs

| run | instance | shows |
|---|---|---|
| `consensus_order` | 3 authorities of stake 2, 1, 1, each certificate and header once, in every order that respects parents: 2 nodes, DAGs of 4 and 5 rounds and `gc_depth` 1; 2 nodes, DAGs of 3 rounds and the headers of the last; one node that may restart at any point, DAGs of 4 rounds with any parents; `gc_depth` 50 in the last two | agreement, also between commits on headers and on certificates; no double output, causal order, no panic, no supported leader lost, each linked from all later ones in what either node was handed; a quorum of headers is a quorum; nothing committed is undone |
| `consensus_straggler` | 2 nodes, 4 authorities, one DAG of 5 rounds with a late certificate | **violation** of agreement |
| `consensus_double_vote` | one node, DAGs of 3 rounds, headers of rounds 2 and 3 received up to twice | **violation**: two authors make a "quorum" |
| `proposer_rounds` | a fair proposer of 4 that leads a round in reach, rounds 0 to 2 and one more header | headers are well formed, justified, one per round; no-votes bind; timeouts once; the proposer leaves every round it has parents for, unless it leads the next |
| `certification_safety` | 4 authorities, one makes headers, restarts and forgets its votes; clean-up of all rounds | one certificate per slot and header, votes once, certificates backed |
| `certification_live` | fair, two authors, another authority that does not lead stops at any point | every header gets its certificate |
| `certification_deadleader` | the same, but the leader stops | **violation** of the same property |
| `certification_lost` | 2 authorities, two rounds, one restart | **violation**: the core panics |
| `payload_safety` | fair; 3 authorities of stake 2, 1, 1, a batch of a light one whose worker may restart, the other light one silent; one message or acknowledgement lost | what is in a header is held by f+1 stake; votes only for what the own worker has; proposed once, and in the end; requests end |
| `payload_unsynced` | fair, the same without losses, restarts and silent workers | **violation**: a suspended header never comes back |
| `execution_safety` | 3 batches (one empty) in 2 certificates, 2 clients, 7 deployments; 2 starts of the extractor, 3 of a feeder, 2 of a driver; 2 attempts | the file keeps the order; one batch per block; recorded blocks are known, on the chain and at the right height; `state_transition_new.py` executes in order (refinement) |
| `execution_skipped` | the same with `retry3` and one client | **violation**: batches are executed out of order |

**Bounds.** Two nodes suffice for the properties of `Consensus`, which compare
two outputs. With stakes 2, 1, 1 a quorum is 3 and f+1 is 2, so there are
quorums that exclude a member and leaders with every level of support; four
rounds have room for a leader that is passed over and committed by the next,
five with `gc_depth` 1 for certificates that are garbage collected before
that. `gc_depth` is the code's default of 50 wherever garbage collection is not
the question. Where two nodes are compared, the DAGs of `consensus_order` are
those in which each certificate descends from its author's earlier ones;
`consensus_straggler` shows why that is needed. The DAGs of the restarts have no
such restriction: without it an older certificate is committed after a newer
one of its author, the case in which `OnlyForward` could fail.
In `Proposer` two rounds with parents allow a jump, a late and a further parent
before and after it; nothing depends on larger numbers, as the theorems
confirm. In `Certification` all interesting conflicts are between two headers
of one slot, of two runs of the author: one author, one round and one restart
are enough, and `certification_lost` needs a second round. `MaxGc` is beyond
the last round, so that every round is cleaned up at some time.

In `Payload` a quorum is the heavy authority with a light one, so the silent
worker is one that the quorum can spare, and the batch of a light author needs
the heavy peer. One loss and one restart, each at any point, are the cases that
a retry has to cope with; the theorems are for any number of them, and of
batches.

In `Execution` two batches with transactions can be mixed or exchanged, and the
empty one is the case that every comparison accepts and the CLI never finds;
the certificate of two batches is the one that can be torn or left half read.
Two starts of each program are a restart with an old or a torn file, two clients
are a first one and one that lags; `MaxExtractors`, `MaxFeeders`, `MaxDrivers`
and `RETRY_LIMIT` bound the starts and attempts. The theorems are for all values.

`CHECK_DEADLOCK FALSE` is set where the bounds end: all deliveries made, all
rounds used up. The code's loops never end.

**Fairness.** `Proposer`: the loop and the timer run (weak fairness); the
certificates of timeouts and no-votes of the current round come (strong, since
`select!` picks among the ready channels at random, and all other primaries
time out too), and so do the parents of a later round whose timeout certificate
came. `Certification`: a primary that is up makes its headers, gets
every header and handles it, loops back what it suspended and counts the
votes that came. No fairness on restarts, crashes, clean-ups. `Payload`: every task runs, messages that are not lost come, a batch
whose handler is held is sent until it is acknowledged (`ReliableSender` retries
for ever), and the timer of the `Synchronizer` picks every peer in the end
(`lucky_broadcast` shuffles). That `Certification` loops back what it suspended is
an assumption about the `HeaderWaiter`; `payload_unsynced` shows when it fails.
`Execution` has no
liveness property: every attempt may fail, and nothing in the scripts makes it
succeed.

Each property has a mutant: an operator, marked *Mutant* in its module, that
changes one definition as a plausible bug would, under which TLC finds the
property violated.

## 5. Where the code and its documents differ

Six runs end in a violation; TLC's traces show what the code does.

- `consensus_straggler`: `update` drops a certificate whose author had a later
  one committed (`consensus/src/lib.rs:55`). A node that received it in time
  orders it with the next leader that reaches it, a node that did not cannot.
  `README.md:9`: "Since all nodes agree on the order".
- `consensus_double_vote`: the core sends a header to consensus each time it
  processes it, also when it comes back from the HeaderWaiter (`core.rs:226`),
  and `stake_vote` adds the stake of its author each time (`lib.rs:137`);
  `lib.rs:143`: "Commit if we have QT".
- `certification_deadleader`: without the vote of the round's leader there is
  no certificate at all (`aggregators.rs:40`), so one stopped authority ends the
  DAG at the first round it leads. `benchmark/README.md:25` expects n-f nodes to
  run.
- `certification_lost`: a certificate that was broadcast but not stored comes
  back after a restart, its own vote is appended to another aggregator, and the
  core panics at "Failed to process our own vote" (`core.rs:289-291`).
- `payload_unsynced`: a primary that misses a batch tells the worker of the
  header's *author* to synchronise, at the address where that worker listens to
  its own primary (`header_waiter.rs:164-172`). That worker has the batch; the own
  worker is never told. When the author has its quorum, the transmission to the
  others is cancelled, so the header stays suspended for ever.
  `primary/src/synchronizer.rs:47-49`: "synchronize with other nodes (through our
  workers), and re-schedule processing of the header".
- `execution_skipped`: after the last attempt, or a refused block,
  `nm_state_transition_with_retry3.py` goes on to the next batch (line 292), and a
  later run of it executes the earlier batch on top. Two nodes that have the same
  file but whose clients are slow at different batches execute different orders.
  `README.md:201`: "**batch-by-batch**"; `README.md:9`: "the **final state** in their
  Nethermind clients converges".

Found on the way, with TLC, and kept as hazards:

- A certificate of a round before its author's last committed one, received
  again after its clean-up, is output a second time if a later leader reaches
  it: `lib.rs:382` compares with `==`, where the comment at 22-23 says that no
  certificate is ordered twice. The runs therefore deliver each certificate once.
- After a restart the engine starts from genesis (`lib.rs:114`) while the
  primary does not send again what it stored: the history that `lib.rs:71-72`
  promises is missing. `HistoryKnown` is therefore about the `Steady` nodes.
- A next leader that has the current leader's certificate and less payload than
  `header_size` waits for a no-vote certificate that nobody makes, past
  `max_header_delay` (`proposer.rs:235`, `config/src/lib.rs:66-67`). The liveness
  property `NonLeaderAdvances` is therefore about the other primaries.
- A driver that is killed between the final forkchoice and the save
  (`nm_state_transition_with_retry3.py:268-282`), or whose record the extractor
  overwrites with its older copy, leaves a batch that is executed but not
  recorded. Its transactions never come in a payload again, so it is passed over
  for ever. `RecordedOnChain` and `RecordedIsKnown` hold nevertheless.
- The `state_transition_` scripts record a block before it is the head of any
  client (`state_transition_new.py:309`): after a kill in between, a recorded block
  may be on no chain, and the height no longer fits the next key, so the script
  waits for ever at line 220. `RecordedIsKnown` therefore asks for a client that
  accepted the block, not for a chain that has it.
- `state_transition_main.py:95` speaks of a "One to one mapping of batches and
  blocks", but its guard lets a key run ahead of the height; `RecordedHeight` has
  the inequality that holds.
- `send_tx_batches.py` saves the batch, then the marker: after a kill in between,
  or a torn marker, the same transactions become a second batch.

## 6. The proofs

All theorems hold for every committee that satisfies `CommitteeAssumption`
(distinct keys, positive stakes) and every value of the bounds.

**`CommitteeTheorems`.** Stake is additive and monotone, from the library's
theorems on finite sets. `QuorumsIntersect`: two quorums share f+1 stake, for
every total, not only 3f+1. `QuorumsShareOutside`: hence they share somebody
outside any set below f+1.

**`ProposerTheorems`.** The inductive invariant `IInv` adds to the properties
where the parents come from (`ParentsInv`: `last_parents` are all the
certificates of the current round handed over so far, and `last_leader` is
right about them), that these are none or a quorum (`HandedInv`: nothing is
handed over for a round ahead of the proposer without a jump to it), and that
headers, timeouts and no-votes are of rounds gone by (`PastInv`). Without
`HandedInv` a single further certificate could be the only parent after
`Propose` emptied the list. Proved: the six invariants of `proposer_rounds`.

**`CertificationTheorems`.** The invariant `CInv` has two halves. *Voting*:
`MemoryInv`, an authority that does not restart remembers in `last_voted` every
vote of a round it has not cleaned up, which makes `VoteOnce` inductive.
*Counting*: `AggregatorInv`, who is in `used` voted for the current header (but
for the primary's own, unchecked vote); `CertifiedInv`, once the current header
has a certificate, `weight` is at most the stake of the voters that came after
it, which with `QuorumsIntersect` excludes a second one, and a header that was
certified is not made again in the same run. Proved: the five invariants of
`certification_safety`; `UniqueCertificates` assumes that the authorities in
`Restartable` hold less than f+1 stake, and follows from `VoteOnce`,
`CertificatesBacked` and `QuorumsShareOutside`. Assumed of the constants: a
single authority is not a quorum (`CertificationAssumption`).

**`ConsensusLemmas`.** What the operators of `Consensus` compute. The induction
theorems of the library take an operator as a parameter, which the provers at
hand cannot instantiate. So inductions go over a *set* of numbers (`Induction`) or
to a least counterexample (`LeastNumber`, from the library's `WFMin`), and
recursions over a *function* that makes the step (`Recursion`): that is how the
recursive functions and folds of the module are shown to be well defined
(`WalkExists`, `UpdateRun`, `SearchRuns`, `OrderLeaders`, `CommitRun`, `Flattening`).
With it:

- `SupportedIsLinked`: a leader with f+1 stake of children is linked from every
  later leader. The next leader links it, since the quorum of no-votes that lets
  it do otherwise would meet the f+1 children; a vertex two rounds up has a
  quorum of parents, which meets them too (`QuorumMeetsValid`); from any later
  leader something is reached in every round between.
- `OrderLeaders`: what it returns are the leaders on the chain of nearest linked
  leaders, down to the last committed round (`IsChain`).
- `OrderDag`: the search of `order_dag` ends; what it outputs has the leader and,
  with each certificate, the parents that are in the `dag` and not committed last
  of their author, but for what is garbage collected; nothing twice (`IsSubDag`).
- `UpdatesAdvance`, `CommitLeader`: what is committed, and what is left in the `dag`.

**`ConsensusTheorems`.** The invariants and the action property of
`consensus_order`, but for `Agreement`. `HeaderQuorum`: if no header is received
twice (`MaxHeaderDeliveries <= 1`), the stake counted on headers is that of
distinct authors (`CountedInv`). `consensus_double_vote` is the same property
without the assumption. `LeadersLinked`, from `SupportedIsLinked`, is about all
that a node was handed, which holds the history of all of it (`HistoryInv`). The
invariants of the output come in layers, two on the first one, the last on the
third:

- `OrderingInv`, whatever happens: types, `last_committed_round` is the latest of
  the authorities', the `dag` was handed over. Every handler leaves the state as
  it was, but for one certificate more, or it commits an unsettled leader of that
  state, or it panics (`Outcome`), so that each later layer is shown once for a
  certificate received and once for a leader committed. With `Forwards`.
- `UniqueInv`, if no certificate is received twice (`MaxDeliveries <= 1`): what was
  output was handed over and is *gone*, out of the `dag` or the last of its author,
  where `order_dag` passes it over. Hence `NoDoubleCommits`, restarts included.
  Received again, a certificate may be output twice (section 5).
- `SteadyInv`, of the engines that do not restart: the `dag` holds the history of
  its members back to what is committed or garbage collected (`IsHistory`, hence
  `Histories`, and no gap in the rounds between two leaders: `NeverPanic`);
  support that was received is counted (`Counted`), and a leader with f+1 of it is
  output (`Included`, by `SupportedInChain`), hence `SupportedCommitted`.
- `CausalInv`, if besides each certificate descends from its author's earlier
  ones (`SteadyDagsChained`): whatever an authority made up to its last committed
  round is output, but for what is garbage collected. `update` forgets that a
  certificate is missing once a later one of its author is committed; in a
  chained DAG the later one brought it along. Hence `CausallyOrdered`.

**`AgreementTheorems`.** `EnginesAgree`: any two engines that keep their memory
output prefixes of one sequence, for every committee, number of nodes,
`gc_depth`, order of deliveries and mix of commits on headers and on
certificates. The argument:

- What an engine commits has f+1 stake of children in the DAG, on either path
  (`CommitsSupported`; for the headers that is `CountedInv`). So every later leader
  links it, and no engine decides differently: the leaders up to a committed
  round follow from the DAG (`Decided`, `LeadersAgree`), whatever the engine jumped
  over and whenever.
- What a leader brings along depends on what was committed before it and on
  nothing else that the engine holds (`SameBatch`): it is what would be found in
  the *whole* DAG up to the leader (`Whole`). This is where a straggler would
  matter, which one engine holds and the other does not.
- So the output is that of a *ledger* that goes through the rounds of the DAG
  and commits the decided leaders with all they bring (`IsLedger`, `Tracks`), and of
  two ledgers the shorter one is the beginning of the longer one
  (`LedgersAgree`).

`FaithfulInv` says this of every engine: no straggler in its `dag` (`NoStraggler`;
inductive only with `Backed`, that what it committed last of an author was handed
over, with its history), and its output is that of a ledger (`Follows`). Assumed:
no certificate and no header is handed over twice, and the DAGs are chained.
These are not guarantees of the code: `consensus_straggler` and
`consensus_double_vote` show what happens otherwise. The instances of
`consensus_order` satisfy them.

**`PayloadTheorems`.** The four invariants of `payload_safety`. `PInv` follows a
batch through its stages: it is in one at a time (`StageInv`, `QueueInv`), stays
with its author (`OwnInv`) and leaves the first one only with a quorum behind it
(`QuorumInv`); who acknowledged a batch, reported it or is relied on for it has
it, in or in front of its store, or restarted (`HeldInv`). `HeadersAreHeld`: of a
quorum, less than f+1 restarted, so f+1 stake still holds the batch, for every
committee (`QuorumWithout`). `OwnInv` is what makes `HeldInv` inductive: a header
is made from what the author's own worker reported, so it is the author who has it.

**`ExecutionTheorems`.** All seven properties of `execution_safety`, for every
number of batches, transactions, clients, deployments and bounds. `Copies` says
what a step can write over the file or a process's copy of it: another copy, the
driver's copy with one block recorded, or a copy with one batch appended. That
makes every property of *the file* an invariant of *all copies*. For the order
(`OrderKept`): each copy is a prefix of the order, and whatever the extractor has
passed is in its own copy (`CursorInv`), so the next batch belongs at the next
key. `Effects` says what a step can do to the clients: one head moves to a known
block that its chain does not yet have, or one client accepts the block just
built. With `DriverInv` (the driver builds on a head the first client had; what
it built has the transactions of the batch) this gives `OneBatchPerBlock`,
`RecordedBlocksKnown`, `RecordedBlocksOnChain` and, with the guards on the height
(`KeyInv`), `RecordedHeights`. The `BaseInv` part is what makes `RecordedOnChain`
inductive for the third script, whose head may be stale: a client ignores a head
that it has already extended, so an attempt never moves the chain back.
`Refinement`: under `state_transition_new.py` every known block executes the
first batches (`ChainInv`, from the key = height guard and the order of the
file), so a head that moves adds the next batches, which is a step of
`InOrderExecution`. Assumed: `state_transition_new.py` runs on a file of the
extractor (`DeploymentsAssumption`; the feeders count from 1, and the script would
never start), there is a client (`EndpointsAssumption`).

TLC finds `IInv`, `CInv` and `PInv` invariant on the instances of
`proposer_rounds`, `certification_safety` and `payload_safety`, too, and `DriverInv`, `KeyInv` and the rest of
`RightInv` on that of `execution_safety`; `CountedInv`, `UniqueInv`, `CausalInv`, `NoStraggler`
and `Backed` on one node and a DAG of `consensus_order`. `Follows` quantifies over
ledgers, which TLC cannot enumerate.

**Only model-checked.** Liveness (`NonLeaderAdvances`, `HeaderCertified`,
`SealedIsProposed`, `RequestsEnd`): the prover has no rules for fairness. Every
other property of the passing runs is proved.

## 7. Not modelled

Cryptography, encoding and malformed messages (a verified message is a fact);
network addresses and wiring; the buffers of the senders, of which the models
use only that a message arrives in the end or is lost for good; the requests for
parents, of which they use that the parents come in the end or not yet (both are
in the plan); a database that fails; authorities that do not follow the code. Of
the execution layer: tokens, log files, timestamps and nonces; two processes of the same kind at the
same time; a certificate that the node outputs twice; a client that goes back to
an ancestor or loses blocks; `sailfish_batch_cli` (its answer is a choice),
`check_transition_validity.py` and the scripts that generate accounts and
transactions, which read one file and write another. The size of payloads, except as the count that lets a header be made.
