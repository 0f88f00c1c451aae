----------------------------- MODULE Consensus -----------------------------
(***************************************************************************)
(* The ordering engine of consensus/src/lib.rs, run by every node: it      *)
(* receives headers and certificates from the node's primary, commits the  *)
(* leaders that have enough support and outputs, for each of them, the     *)
(* part of its causal history that was not output yet.                     *)
(*                                                                         *)
(* The DAG of headers is fixed in a behaviour and chosen at its start;     *)
(* what varies is what each node has received of it, in which order, and   *)
(* how many times.  A header and its certificate are both named by their   *)
(* author and round, which Certification justifies.                        *)
(***************************************************************************)
EXTENDS Committee, SequencesExt

CONSTANTS
    Node,                 \* the nodes that run the engine
    Scenarios,            \* the DAGs to consider, with the bounds for each
    MaxDeliveries,        \* bound: how often a certificate may come
    MaxHeaderDeliveries   \* bound: how often a header may come

VARIABLES
    scenario,    \* the scenario, chosen at the start
    state,       \* per node, the struct State of the engine
    stake_vote,  \* per node and round, the stake of the headers counted
    output,      \* per node, the sequence of certificates on tx_output
    received,    \* per node, how often each certificate came
    heard,       \* per node, how often each header came
    strays,      \* per node, the certificates that came when their author's
                 \* next one was committed already (a record, never read)
    halted,      \* the nodes whose engine has panicked
    restarts     \* per node, the number of restarts so far

vars == <<scenario, state, stake_vote, output, received, heard, strays, halted, restarts>>

-----------------------------------------------------------------------------
\* The DAG: the parents of every header.
parents == scenario.dag

\* How many rounds the engine looks back.
gc_depth == scenario.gc_depth

\* Headers and certificates: <<author, round>>.

origin(v) == v[1]
round(v)  == v[2]

genesis       == {<<a, 0>> : a \in Authority}
Vertices      == DOMAIN parents
Certificates  == Vertices \cup genesis
leader_of(r)  == <<leader(r), r>>

(***************************************************************************)
(* A DAG the primaries can build.  The parents of a header are             *)
(* certificates of the previous round, with a quorum of stake.  The leader *)
(* of a round may leave out the previous leader only with a certificate of *)
(* no-votes: a quorum of authorities that do not link it either.           *)
(***************************************************************************)
Skips(d, r) == {a \in Authority :
                    <<a, r>> \in DOMAIN d => leader_of(r - 1) \notin d[<<a, r>>]}

\* Mutant: a leader may leave out the one before without any no-vote.
WellFormed_unskipped(d) ==
    \A v \in DOMAIN d :
        /\ v \in Authority \X (Nat \ {0})
        /\ d[v] \subseteq DOMAIN d \cup genesis
        /\ \A p \in d[v] : round(p) = round(v) - 1
        /\ IsQuorum({origin(p) : p \in d[v]})

WellFormed(d) ==
    \A v \in DOMAIN d :
        /\ v \in Authority \X (Nat \ {0})
        /\ d[v] \subseteq DOMAIN d \cup genesis
        /\ \A p \in d[v] : round(p) = round(v) - 1
        /\ IsQuorum({origin(p) : p \in d[v]})
        /\ v = leader_of(round(v)) /\ leader_of(round(v) - 1) \notin d[v]
              => IsQuorum(Skips(d, round(v)))

Dags == {s.dag : s \in Scenarios}

ASSUME DagsAssumption == \A d \in Dags : WellFormed(d)

\* What a scenario sets: the parameter gc_depth, the nodes that take part, the
\* rounds whose headers reach the engines, the rounds whose headers and
\* certificates may come more than once, and how often a node may restart.
ASSUME BoundsAssumption ==
    /\ \A s \in Scenarios :
        /\ s.gc_depth \in Nat /\ s.nodes \subseteq Node
        /\ s.headers \subseteq Nat /\ s.again \subseteq Nat /\ s.restarts \in Nat
    /\ MaxDeliveries \in Nat /\ MaxHeaderDeliveries \in Nat

-----------------------------------------------------------------------------
\* The algorithm, on a value st of struct State.

InitialState ==
    [last_committed_round |-> 0,
     last_committed       |-> [a \in Authority |-> 0],
     dag                  |-> genesis]

\* Mutant: the committed certificate itself is dropped too.
Prune_committed(dag, committed, last) ==
    {v \in dag : round(v) > committed[origin(v)] /\ round(v) + gc_depth >= last}

(***************************************************************************)
(* Record that c is committed and drop what is not needed any more: what   *)
(* an authority committed later than, and what is out of gc_depth.         *)
(***************************************************************************)
Prune(dag, committed, last) ==
    {v \in dag : round(v) >= committed[origin(v)] /\ round(v) + gc_depth >= last}

\* Mutant: the last commit counts, not the latest round.
Commits_last(committed, c) == [committed EXCEPT ![origin(c)] = round(c)]

Commits(committed, c) == [committed EXCEPT ![origin(c)] = Max({@, round(c)})]

\* Mutant: the last committed round is not computed again.
update_stale(st, c) ==
    [st EXCEPT !.last_committed = Commits(@, c),
               !.dag = Prune(@, Commits(st.last_committed, c), st.last_committed_round)]

update(st, c) ==
    LET committed == Commits(st.last_committed, c)
        last      == Max({committed[a] : a \in Authority})
    IN  [last_committed_round |-> last,
         last_committed       |-> committed,
         dag                  |-> Prune(st.dag, committed, last)]

\* Whether there is a path in the dag from one leader to an earlier one.
linked(dag, from, to) ==
    LET reach[r \in round(to)..round(from)] ==
            IF r = round(from)
              THEN {from}
              ELSE LET above == reach[r + 1]
                   IN  {v \in dag : round(v) = r /\ \E x \in above : v \in parents[x]}
    IN  to \in reach[round(to)]

\* Mutant: only the given leader, not the earlier ones it reaches.
order_leaders_last(st, last) == <<last>>

\* The leaders to commit with the given one, the oldest first.
order_leaders(st, last) ==
    LET chain[r \in (st.last_committed_round + 1)..round(last)] ==
            IF r = round(last)
              THEN <<last>>
              ELSE LET later == chain[r + 1]
                   IN  IF leader_of(r) \in st.dag /\ linked(st.dag, Head(later), leader_of(r))
                         THEN <<leader_of(r)>> \o later
                         ELSE later
    IN  chain[st.last_committed_round + 1]

(***************************************************************************)
(* linked expects every round between two leaders to be in the dag, and    *)
(* panics when one is not.                                                 *)
(***************************************************************************)
panics(st, last) ==
    \E r \in (st.last_committed_round + 1)..(round(last) - 1) :
        /\ leader_of(r) \in st.dag
        /\ \E s \in r..(round(last) - 1) : \A v \in st.dag : round(v) # s

(***************************************************************************)
(* The sub-dag of a leader in the order it is output: a depth-first search *)
(* with a stack, then a stable sort by round.  Parents are pushed in the   *)
(* order of their digests, here the order of their authors' keys.          *)
(***************************************************************************)
Row(r) == [i \in 1..Len(Keys) |-> <<Keys[i], r>>]

\* The members of S in the sequence s, in its order.
Among(s, S) == FlattenSeq([i \in 1..Len(s) |-> IF s[i] \in S THEN <<s[i]>> ELSE <<>>])

\* Mutant: the ones committed before are visited again.
Fresh_committed(st, x, visited) ==
    Among(Row(round(x) - 1), (parents[x] \cap st.dag) \ (visited \cup genesis))

\* The parents of x to visit next: the ones neither visited nor committed.
Fresh(st, x, visited) ==
    Among(Row(round(x) - 1),
          {p \in (parents[x] \cap st.dag) \ visited : st.last_committed[origin(p)] # round(p)})

\* Mutant: the order of the search is kept.
sort_by_round_skipped(s, last) == s

sort_by_round(s, last) ==
    FlattenSeq([r \in 1..last |-> Among(s, {v \in ToSet(s) : round(v) = r})])

order_dag(st, last) ==
    LET next(s) ==
            LET x     == Last(s.buffer)
                fresh == Fresh(st, x, s.already_ordered)
            IN  [buffer          |-> Front(s.buffer) \o fresh,
                 ordered         |-> Append(s.ordered, x),
                 already_ordered |-> s.already_ordered \cup ToSet(fresh)]
        search[i \in 0..Cardinality(st.dag)] ==
            IF i = 0
              THEN [buffer |-> <<last>>, ordered |-> <<>>, already_ordered |-> {}]
              ELSE LET s == search[i - 1] IN IF s.buffer = <<>> THEN s ELSE next(s)
        recent == Among(search[Cardinality(st.dag)].ordered,
                        {v \in Vertices : round(v) + gc_depth >= st.last_committed_round})
    IN  sort_by_round(recent, round(last))

\* The state after a sequence of certificates is committed.
updates(st, batch) ==
    LET after[i \in 0..Len(batch)] ==
            IF i = 0 THEN st ELSE update(after[i - 1], batch[i])
    IN  after[Len(batch)]

\* Commit a leader: the state after it and the certificates to output.
commit(st, last) ==
    LET leaders == order_leaders(st, last)
        done[i \in 0..Len(leaders)] ==
            IF i = 0
              THEN [st |-> st, sequence |-> <<>>]
              ELSE LET acc   == done[i - 1]
                       batch == order_dag(acc.st, leaders[i])
                   IN  [st |-> updates(acc.st, batch), sequence |-> acc.sequence \o batch]
    IN  done[Len(leaders)]

-----------------------------------------------------------------------------
Init ==
    /\ scenario \in Scenarios
    /\ state = [n \in Node |-> InitialState]
    /\ stake_vote = [n \in Node |-> [r \in {round(v) : v \in Vertices} |-> 0]]
    /\ output = [n \in Node |-> <<>>]
    /\ received = [n \in Node |-> [v \in Vertices |-> 0]]
    /\ heard = [n \in Node |-> [v \in Vertices |-> 0]]
    /\ strays = [n \in Node |-> {}]
    /\ halted = {}
    /\ restarts = [n \in Node |-> 0]

\* Node n, in state st, commits the leader or panics on the way.
Commit(n, st, last) ==
    IF panics(st, last)
      THEN /\ halted' = halted \cup {n}
           /\ state' = [state EXCEPT ![n] = st]
           /\ UNCHANGED output
      ELSE LET done == commit(st, last)
           IN  /\ state' = [state EXCEPT ![n] = done.st]
               /\ output' = [output EXCEPT ![n] = @ \o done.sequence]
               /\ UNCHANGED halted

\* Mutant: the round after the last committed one is taken for decided.
Settled_early(st, r) == r <= st.last_committed_round + 1 \/ leader_of(r) \notin st.dag

\* Whether a vertex of round r + 1 leaves nothing to decide for leader r.
Settled(st, r) == r <= st.last_committed_round \/ leader_of(r) \notin st.dag

\* Bound: how often v may come, when at most once unless it may come again.
Times(v, most) == IF round(v) \in scenario.again THEN most ELSE 1

\* Mutant: a header that does not link the leader counts too.
header_stake_any(n, h) == stake_vote[n][round(h)] + StakeOf({origin(h)})

(***************************************************************************)
(* A header from rx_primary_header: its stake counts for the leader it     *)
(* links, which is committed with a quorum.  Nothing is remembered of who  *)
(* voted, and a header that comes before the leader is not counted.        *)
(***************************************************************************)
header_stake(n, h) ==
    stake_vote[n][round(h)] +
        (IF leader_of(round(h) - 1) \in parents[h] THEN StakeOf({origin(h)}) ELSE 0)

ProcessHeader(n, h) ==
    LET r     == round(h) - 1
        st    == state[n]
        votes == header_stake(n, h)
    IN  /\ n \notin halted
        /\ round(h) \in scenario.headers
        /\ heard[n][h] < Times(h, MaxHeaderDeliveries)
        /\ heard' = [heard EXCEPT ![n][h] = @ + 1]
        /\ IF Settled(st, r)
             THEN UNCHANGED <<state, stake_vote, output, halted>>
             ELSE /\ stake_vote' = [stake_vote EXCEPT ![n][round(h)] = votes]
                  /\ IF votes >= quorum_threshold
                       THEN Commit(n, st, leader_of(r))
                       ELSE UNCHANGED <<state, output, halted>>
        /\ UNCHANGED <<scenario, received, strays, restarts>>

\* Mutant: a certificate is passed on before its parents.
deliver_certificate_any(n, c) == TRUE

\* The primary has stored the parents of c (and thus passed them on).
deliver_certificate(n, c) == \A p \in parents[c] \ genesis : received[n][p] > 0

(***************************************************************************)
(* A certificate from rx_primary: the primary sends it once it has stored  *)
(* the certificate's parents.  The leader of the previous round is         *)
(* committed when the certificates that link it have f+1 stake.            *)
(***************************************************************************)
ProcessCertificate(n, c) ==
    LET r       == round(c) - 1
        st      == [state[n] EXCEPT !.dag = @ \cup {c}]
        support == {origin(v) : v \in {x \in st.dag :
                        round(x) = round(c) /\ leader_of(r) \in parents[x]}}
    IN  /\ n \notin halted
        /\ received[n][c] < Times(c, MaxDeliveries)
        /\ deliver_certificate(n, c)
        /\ received' = [received EXCEPT ![n][c] = @ + 1]
        /\ strays' = IF round(c) < st.last_committed[origin(c)]
                       THEN [strays EXCEPT ![n] = @ \cup {c}] ELSE strays
        /\ IF ~Settled(st, r) /\ IsValid(support)
             THEN Commit(n, st, leader_of(r))
             ELSE /\ state' = [state EXCEPT ![n] = st]
                  /\ UNCHANGED <<output, halted>>
        /\ UNCHANGED <<scenario, stake_vote, heard, restarts>>

(***************************************************************************)
(* The node restarts: the engine keeps nothing, the primary's store        *)
(* keeps every certificate and the file behind tx_output is appended to.   *)
(***************************************************************************)
Restart(n) ==
    /\ restarts[n] < scenario.restarts
    /\ restarts' = [restarts EXCEPT ![n] = @ + 1]
    /\ state' = [state EXCEPT ![n] = InitialState]
    /\ stake_vote' = [stake_vote EXCEPT ![n] = [r \in DOMAIN @ |-> 0]]
    /\ halted' = halted \ {n}
    /\ UNCHANGED <<scenario, output, received, heard, strays>>

Next == \E n \in scenario.nodes :
    \/ \E h \in Vertices : ProcessHeader(n, h)
    \/ \E c \in Vertices : ProcessCertificate(n, c)
    \/ Restart(n)

Spec == Init /\ [][Next]_vars
-----------------------------------------------------------------------------
(***************************************************************************)
(* Properties.                                                             *)
(***************************************************************************)

\* Every variable has its type: a node's dag holds certificates, its last
\* committed round is the highest of its authorities' (State, lib.rs:19-28).
TypeOK ==
    /\ \A v \in Vertices : parents[v] \subseteq Certificates
    /\ \A n \in Node :
        /\ state[n].dag \subseteq Certificates
        /\ state[n].last_committed \in [Authority -> Nat]
        /\ state[n].last_committed_round = Max({state[n].last_committed[a] : a \in Authority})
        /\ output[n] \in Seq(Vertices)
        /\ \A v \in Vertices : received[n][v] \in Nat /\ heard[n][v] \in Nat
        /\ \A r \in {round(v) : v \in Vertices} : stake_vote[n][r] \in Nat
        /\ strays[n] \subseteq Vertices
    /\ halted \subseteq Node

\* The nodes of a scenario in which none restarts.
Steady == {n \in Node : scenario.restarts = 0}

\* Any two nodes that do not restart output the same certificates in the same
\* order, as far as both went: what the two of them execute is the same (run,
\* lib.rs:112-297).
Agreement ==
    \A m, n \in Steady : IsPrefix(output[m], output[n]) \/ IsPrefix(output[n], output[m])

\* The headers of round r that link the leader of the round before.
Linking(r) == {h \in Vertices : round(h) = r /\ leader_of(r - 1) \in parents[h]}

\* Nothing led node n astray: no certificate came to it when a later one of the
\* author was committed, and it counted no quorum of headers, some of them again,
\* for a leader that not even f+1 stake of headers in the whole DAG link.
Sound(n) ==
    /\ strays[n] = {}
    /\ \A r \in DOMAIN stake_vote[n] :
        stake_vote[n][r] >= quorum_threshold => IsValid({origin(h) : h \in Linking(r)})

\* The two ways in which engines come to differ are all there are: any two that do
\* not restart and were not led astray output the same sequence as far as both
\* went, whatever came to each of them first or again (run, lib.rs:112-297).
SoundAgreement ==
    \A m, n \in Steady :
        Sound(m) /\ Sound(n) => IsPrefix(output[m], output[n]) \/ IsPrefix(output[n], output[m])

\* The number of times a certificate is in a node's output.
Outputs(n, v) == Cardinality({i \in DOMAIN output[n] : output[n][i] = v})

\* A node outputs a certificate at most as often as it was handed to it: as often
\* as it comes back after its clean-up, or after a restart, but never again by
\* itself, through the certificates that link it (update and order_dag,
\* lib.rs:45-62,356-396).
OutputPerDelivery == \A n \in Node : \A v \in Vertices : Outputs(n, v) <= received[n][v]

\* A node that does not restart outputs a certificate after every parent of it that
\* is not garbage collected, or after a later certificate of that parent's author,
\* in any DAG: the order respects causality, but for what update dropped when a
\* later one of the author was committed without it (order_dag, lib.rs:356-396).
CausalOrder ==
    \A n \in Steady : \A i \in DOMAIN output[n] : \A p \in parents[output[n][i]] \ genesis :
        \/ \E j \in 1..(i - 1) :
            output[n][j] = p \/ (origin(output[n][j]) = origin(p) /\ round(output[n][j]) > round(p))
        \/ round(p) + gc_depth < state[n].last_committed_round

\* The votes for the leader before round r that came to node n: the units of stake
\* of the authors whose headers link it, once for every time the header came.
VoteUnits(n, r) == UNION {StakeUnits({origin(h)}) \X (1..heard[n][h]) : h \in Linking(r)}

\* When the headers counted for a leader reach a quorum of stake, headers that link
\* it came with a quorum of stake, each as often as it came: nothing else is
\* counted, in any order of headers, certificates and restarts (run,
\* lib.rs:136-144).
HeaderCommitHasVotes ==
    \A n \in Node : \A r \in DOMAIN stake_vote[n] :
        stake_vote[n][r] >= quorum_threshold => Cardinality(VoteUnits(n, r)) >= quorum_threshold

\* An engine that does not restart holds the parents of every certificate of its
\* dag, but for those it garbage collected and those older than their author's
\* last committed certificate, which it output or dropped (rx_primary and update,
\* lib.rs:45-62,71-73).
HistoryKnown ==
    \A n \in Steady : LET st == state[n] IN
        \A v \in st.dag \ genesis : \A p \in parents[v] \ genesis :
            \/ p \in st.dag
            \/ round(p) < st.last_committed[origin(p)]
            \/ round(p) + gc_depth < st.last_committed_round

\* What an engine was handed, and the headers it knows of, restarts or not.
Handed(n) == genesis \cup {v \in Vertices : received[n][v] > 0}
Known(n)  == {v \in Vertices : received[n][v] > 0 \/ heard[n][v] > 0}

\* Whether n knows f+1 stake of children of the leader v: enough to commit it.
Supported(n, v) ==
    /\ v = leader_of(round(v))
    /\ IsValid({origin(x) : x \in {y \in Known(n) : v \in parents[y]}})

\* A leader that one node may commit directly is linked from every later leader
\* that another was handed, in what that other node was handed, even if it saw
\* nothing of the support: it never passes over what the first one committed
\* (order_leaders and linked, lib.rs:318-353).
SupportedLeadersLinked ==
    \A n \in Node : \A v \in {x \in Vertices : Supported(n, x)} :
        \A m \in Node : \A w \in Handed(m) :
            w = leader_of(round(w)) /\ round(w) > round(v) => linked(Handed(m), w, v)

\* No walk between two leaders meets a round with no certificate, which would
\* stop the engine, unless it restarted and forgot them (linked, lib.rs:345: "We
\* should have the whole history").
NeverPanics == halted \cap Steady = {}

\* A leader whose children in the dag have f+1 stake is committed by every
\* node that received the whole DAG and does not restart, even one that jumped
\* over it to a later leader first (order_leaders, lib.rs:318-337).
SupportedLeadersCommitted ==
    \A n \in Steady :
        (\A v \in Vertices : received[n][v] > 0) =>
            \A v \in Vertices :
                /\ v = leader_of(round(v))
                /\ IsValid({origin(x) : x \in {y \in Vertices : v \in parents[y]}})
                => v \in ToSet(output[n])

\* A node's output only grows and its last committed rounds never go back
\* while it runs (update, lib.rs:45-52).
OnlyForward ==
    [][\A n \in Node : restarts'[n] = restarts[n] =>
        /\ IsPrefix(output[n], output'[n])
        /\ \A a \in Authority :
            state[n].last_committed[a] <= state'[n].last_committed[a]]_vars
=============================================================================
