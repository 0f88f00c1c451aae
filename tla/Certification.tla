--------------------------- MODULE Certification ---------------------------
(***************************************************************************)
(* How headers become certificates (primary/src/core.rs and the            *)
(* VotesAggregator of aggregators.rs): every primary broadcasts the headers *)
(* of its proposer, votes once per author and round, and assembles the     *)
(* votes for its current header.  Primaries lose their memory when they    *)
(* restart, may stop for good, and forget votes of old rounds.             *)
(*                                                                         *)
(* Messages are never lost for good (ReliableSender sends them again until *)
(* they are acknowledged) and may come several times and in any order: the *)
(* network is the set of what was sent.  Whether the parents and the       *)
(* payload of a header are at hand is left open.                           *)
(***************************************************************************)
EXTENDS Committee

CONSTANTS
    Authors,      \* the authorities whose proposers make headers
    Restartable,  \* the authorities that may restart
    Faulty,       \* the authorities that may stop for good
    MaxRound,     \* bound: the last round
    MaxRestarts,  \* bound: how often an authority restarts
    MaxGc         \* bound: the last round up to which a primary cleans up

\* An authority that stops for good does not restart; nobody is a quorum alone.
ASSUME CertificationAssumption ==
    /\ Authors \subseteq Authority
    /\ Restartable \subseteq Authority
    /\ Faulty \subseteq Authority
    /\ Restartable \cap Faulty = {}
    /\ \A a \in Authority : ~IsQuorum({a})
    /\ MaxRound \in Nat /\ MaxRestarts \in Nat /\ MaxGc \in Nat

VARIABLES
    boot,            \* per authority, how often it restarted
    down,            \* the authorities that stopped, or whose core panicked
    proposed,        \* the proposer's round, lost at a restart
    current_header,  \* the header each core collects votes for
    used,            \* its VotesAggregator: who voted
    weight,          \* and the stake counted, zero once certified
    last_voted,      \* <<round, author>> of the headers voted for
    waiting,         \* headers in the HeaderWaiter, to loop back
    gc_round,        \* rounds below it are cleaned up
    unsaved,         \* headers whose certificate was broadcast, not stored
    made,            \* network: headers
    votes,           \* network: votes
    certificates     \* network: certificates

core == <<current_header, used, weight, last_voted, waiting, gc_round>>
network == <<made, votes, certificates>>
vars == <<boot, down, proposed, core, unsaved, network>>

Header == [author : Authority, round : Nat, boot : Nat]
Vote   == [header : Header, voter : Authority]

\* The core's first current_header is Header::default(), of round 0.
default(n) == [author |-> n, round |-> 0, boot |-> 0]

Init ==
    /\ boot = [n \in Authority |-> 0]
    /\ down = {}
    /\ proposed = [n \in Authority |-> 0]
    /\ current_header = [n \in Authority |-> default(n)]
    /\ used = [n \in Authority |-> {}]
    /\ weight = [n \in Authority |-> 0]
    /\ last_voted = [n \in Authority |-> {}]
    /\ waiting = [n \in Authority |-> {}]
    /\ gc_round = [n \in Authority |-> 0]
    /\ unsaved = [n \in Authority |-> {}]
    /\ made = {}
    /\ votes = {}
    /\ certificates = {}

-----------------------------------------------------------------------------
(***************************************************************************)
(* VotesAggregator.append counts the vote of an authority that has not     *)
(* voted yet.  A certificate needs the vote of the leader of the round and *)
(* a quorum; the weight is then reset, so that the quorum is reached once. *)
(***************************************************************************)

\* Mutant: more than a quorum.
Certifies_more(r, S, w) == leader(r) \in S /\ w > quorum_threshold

Certifies(r, S, w) == leader(r) \in S /\ w >= quorum_threshold

\* Mutant: the voter is not remembered.
Count_again(n, r, a, S, w) ==
    /\ used' = [used EXCEPT ![n] = S]
    /\ weight' = [weight EXCEPT ![n] =
                    IF Certifies(r, S \cup {a}, w + StakeOf({a})) THEN 0 ELSE w + StakeOf({a})]

\* Mutant: the weight is not reset.
Count_on(n, r, a, S, w) ==
    /\ used' = [used EXCEPT ![n] = S \cup {a}]
    /\ weight' = [weight EXCEPT ![n] = w + StakeOf({a})]

Count(n, r, a, S, w) ==
    /\ used' = [used EXCEPT ![n] = S \cup {a}]
    /\ weight' = [weight EXCEPT ![n] =
                    IF Certifies(r, S \cup {a}, w + StakeOf({a})) THEN 0 ELSE w + StakeOf({a})]

append(n, h, r, a, S, w) ==
    /\ Count(n, r, a, S, w)
    /\ certificates' = IF Certifies(r, S \cup {a}, w + StakeOf({a}))
                         THEN certificates \cup {[header |-> h, votes |-> S \cup {a}]}
                         ELSE certificates

\* The headers of a round that have a certificate.
Certified(r) == {h \in {c.header : c \in certificates} : h.round = r}

\* Mutant: the votes of round g itself are forgotten.
CleanUp_early(n, voted) ==
    \E g \in gc_round[n]..MaxGc :
        /\ gc_round' = [gc_round EXCEPT ![n] = g]
        /\ last_voted' = [last_voted EXCEPT ![n] = {x \in voted : x[1] > g}]

(***************************************************************************)
(* The end of each pass of the loop, with voted the headers voted for: the *)
(* rounds that consensus left behind by gc_depth are forgotten.  Consensus *)
(* may have moved on at any time.                                          *)
(***************************************************************************)
CleanUp(n, voted) ==
    \E g \in gc_round[n]..MaxGc :
        /\ gc_round' = [gc_round EXCEPT ![n] = g]
        /\ last_voted' = [last_voted EXCEPT ![n] = {x \in voted : x[1] >= g}]

\* Mutant: only the very same header counts as voted for.
Voted_header(n, h) == [header |-> h, voter |-> n] \in votes

\* Vote for a header, unless its author had a vote of n in this round.
Voted(n, h) == <<h.round, h.author>> \in last_voted[n]

CastVote(n, h) ==
    /\ ~Voted(n, h)
    /\ votes' = votes \cup {[header |-> h, voter |-> n]}
    /\ CleanUp(n, last_voted[n] \cup {<<h.round, h.author>>})

NoVote(n) == UNCHANGED votes /\ CleanUp(n, last_voted[n])

(***************************************************************************)
(* A proposer's header of round r, which links a quorum of round r - 1,    *)
(* processed by its own core: a new aggregator, which counts its own vote. *)
(***************************************************************************)
process_own_header(n, r) ==
    LET h == [author |-> n, round |-> r, boot |-> boot[n]]
    IN  /\ n \in Authors \ down
        /\ r > proposed[n]
        /\ r > 1 => IsQuorum({g.author : g \in Certified(r - 1) \ unsaved[n]})
        /\ proposed' = [proposed EXCEPT ![n] = r]
        /\ made' = made \cup {h}
        /\ current_header' = [current_header EXCEPT ![n] = h]
        /\ \/ /\ CastVote(n, h)
              /\ append(n, h, r, n, {}, 0)
           \/ /\ Voted(n, h)
              /\ used' = [used EXCEPT ![n] = {}]
              /\ weight' = [weight EXCEPT ![n] = 0]
              /\ NoVote(n)
              /\ UNCHANGED certificates
        /\ UNCHANGED <<boot, down, waiting, unsaved>>

(***************************************************************************)
(* A header from another primary, alone or inside its certificate, with    *)
(* all it needs at hand or with something missing.                         *)
(***************************************************************************)
process_header(n, h) ==
    /\ n \notin down
    /\ h.author # n
    /\ gc_round[n] <= h.round
    /\ \/ CastVote(n, h) /\ UNCHANGED waiting
       \/ /\ waiting' = [waiting EXCEPT ![n] = @ \cup {h}]
          /\ NoVote(n)
    /\ UNCHANGED <<boot, down, proposed, current_header, used, weight, unsaved,
                   made, certificates>>

\* A header from the HeaderWaiter: what was missing came.  Its round is not
\* compared with gc_round again.
loopback(n, h) ==
    /\ n \notin down
    /\ waiting' = [waiting EXCEPT ![n] = @ \ {h}]
    /\ \/ CastVote(n, h)
       \/ Voted(n, h) /\ NoVote(n)
    /\ UNCHANGED <<boot, down, proposed, current_header, used, weight, unsaved,
                   made, certificates>>

\* Mutant: any vote for a header of n.
Expected_author(n, v) ==
    /\ n \notin down
    /\ v.header.author = n
    /\ v.voter \notin used[n]

\* The vote v is for the current header, from an authority not counted yet.
Expected(n, v) ==
    /\ n \notin down
    /\ v.header = current_header[n]
    /\ v.voter \notin used[n]

(***************************************************************************)
(* A vote of a, cast in round r, completes the certificate of the current  *)
(* header, whose round n has cleaned up since.  With the certificate n     *)
(* processes the header again, and casts its own vote for it again.        *)
(***************************************************************************)
Recertifies(n, r, a) ==
    /\ current_header[n].round < gc_round[n]
    /\ Certifies(r, used[n] \cup {a}, weight[n] + StakeOf({a}))

process_vote(n, v) ==
    /\ Expected(n, v)
    /\ ~Recertifies(n, v.header.round, v.voter)
    /\ append(n, current_header[n], v.header.round, v.voter, used[n], weight[n])
    /\ NoVote(n)
    /\ UNCHANGED <<boot, down, proposed, current_header, waiting, unsaved, made>>

\* An authority counted already is an error, which the core does not expect of
\* its own vote; the certificate is broadcast then, and not stored.
process_vote_again(n, v) ==
    LET voters == used[n] \cup {v.voter}
    IN  /\ Expected(n, v)
        /\ Recertifies(n, v.header.round, v.voter)
        /\ certificates' = certificates \cup {[header |-> v.header, votes |-> voters]}
        /\ used' = [used EXCEPT ![n] = voters \cup {n}]
        /\ weight' = [weight EXCEPT ![n] = StakeOf({n} \ voters)]
        /\ \/ n \notin voters /\ CastVote(n, v.header) /\ UNCHANGED <<down, unsaved>>
           \/ /\ n \in voters
              /\ down' = down \cup {n}
              /\ unsaved' = [unsaved EXCEPT ![n] = @ \cup {v.header}]
              /\ UNCHANGED <<last_voted, gc_round, votes>>
        /\ UNCHANGED <<boot, proposed, current_header, waiting, made>>

(***************************************************************************)
(* The primary's own certificate of an earlier run, which it did not store *)
(* then, comes from a peer asked for missing ancestors.  Its header is     *)
(* processed as any other, and the primary's own vote for it is given to   *)
(* the aggregator of the current header.  The core panics if it is counted *)
(* there already, or if the core has to vote for that header again, too.   *)
(***************************************************************************)
process_lost_certificate(n, h) ==
    /\ n \notin down
    /\ gc_round[n] <= h.round
    /\ \/ /\ Voted(n, h)
          /\ NoVote(n)
          /\ unsaved' = [unsaved EXCEPT ![n] = @ \ {h}]
          /\ UNCHANGED <<down, used, weight, certificates>>
       \/ /\ CastVote(n, h)
          /\ n \notin used[n]
          /\ append(n, current_header[n], h.round, n, used[n], weight[n])
          /\ IF Recertifies(n, h.round, n)
               THEN /\ down' = down \cup {n}
                    /\ unsaved' = [unsaved EXCEPT ![n] = @ \cup {current_header[n]}]
               ELSE /\ unsaved' = [unsaved EXCEPT ![n] = @ \ {h}]
                    /\ UNCHANGED down
       \/ /\ ~Voted(n, h)
          /\ n \in used[n]
          /\ down' = down \cup {n}
          /\ UNCHANGED <<used, weight, last_voted, gc_round, unsaved, votes, certificates>>
    /\ UNCHANGED <<boot, proposed, current_header, waiting, made>>

\* A message that is refused, or that leaves nothing to do.
refuse(n) ==
    /\ n \notin down
    /\ NoVote(n)
    /\ UNCHANGED <<boot, down, proposed, current_header, used, weight, waiting,
                   unsaved, made, certificates>>

-----------------------------------------------------------------------------
\* A restart loses all but the store, which holds neither votes nor rounds.
Reboot(n) ==
    /\ n \in Restartable
    /\ boot[n] < MaxRestarts
    /\ boot' = [boot EXCEPT ![n] = @ + 1]
    /\ down' = down \ {n}
    /\ proposed' = [proposed EXCEPT ![n] = 0]
    /\ current_header' = [current_header EXCEPT ![n] = default(n)]
    /\ used' = [used EXCEPT ![n] = {}]
    /\ weight' = [weight EXCEPT ![n] = 0]
    /\ last_voted' = [last_voted EXCEPT ![n] = {}]
    /\ waiting' = [waiting EXCEPT ![n] = {}]
    /\ gc_round' = [gc_round EXCEPT ![n] = 0]

Restart(n) == Reboot(n) /\ UNCHANGED <<unsaved, network>>

\* A crash between the broadcast of a certificate and the write to the store.
RestartBeforeStore(n, v) ==
    LET voters == used[n] \cup {v.voter}
    IN  /\ Expected(n, v)
        /\ Certifies(v.header.round, voters, weight[n] + StakeOf({v.voter}))
        /\ certificates' = certificates \cup {[header |-> v.header, votes |-> voters]}
        /\ unsaved' = [unsaved EXCEPT ![n] = @ \cup {v.header}]
        /\ Reboot(n)
        /\ UNCHANGED <<made, votes>>

Crash(n) ==
    /\ n \in Faulty \ down
    /\ down' = down \cup {n}
    /\ UNCHANGED <<boot, proposed, core, unsaved, network>>

Next == \E n \in Authority :
    \/ \E r \in 1..MaxRound : process_own_header(n, r)
    \/ \E h \in made : process_header(n, h)
    \/ \E h \in waiting[n] : loopback(n, h)
    \/ \E v \in votes : process_vote(n, v)
    \/ \E v \in votes : process_vote_again(n, v)
    \/ \E h \in unsaved[n] : process_lost_certificate(n, h)
    \/ refuse(n)
    \/ Restart(n)
    \/ \E v \in votes : RestartBeforeStore(n, v)
    \/ Crash(n)

Spec == Init /\ [][Next]_vars

(***************************************************************************)
(* The tasks of a primary that is up keep running, its proposer makes its  *)
(* headers, every header reaches it, and what it waits for comes in the    *)
(* end.                                                                    *)
(***************************************************************************)
FairSpec ==
    /\ Spec
    /\ \A n \in Authority :
        /\ WF_vars(\E r \in 1..MaxRound : process_own_header(n, r))
        /\ WF_vars(\E v \in votes : process_vote(n, v) \/ process_vote_again(n, v))
        /\ \A h \in [author : Authors, round : 1..MaxRound, boot : 0..MaxRestarts] :
            /\ WF_vars(h \in made /\ process_header(n, h))
            /\ WF_vars(h \in waiting[n] /\ loopback(n, h))

-----------------------------------------------------------------------------
(***************************************************************************)
(* Properties.                                                             *)
(***************************************************************************)

\* Every variable has its type, and an aggregator counts no stake twice.
TypeOK ==
    /\ boot \in [Authority -> Nat]
    /\ down \subseteq Authority
    /\ proposed \in [Authority -> Nat]
    /\ current_header \in [Authority -> Header]
    /\ used \in [Authority -> SUBSET Authority]
    /\ weight \in [Authority -> Nat]
    /\ \A n \in Authority : weight[n] <= StakeOf(used[n])
    /\ last_voted \in [Authority -> SUBSET (Nat \X Authority)]
    /\ waiting \in [Authority -> SUBSET Header]
    /\ gc_round \in [Authority -> Nat]
    /\ unsaved \in [Authority -> SUBSET Header]
    /\ made \subseteq Header
    /\ votes \subseteq Vote
    /\ certificates \subseteq [header : Header, votes : SUBSET Authority]

SameSlot(g, h) == g.author = h.author /\ g.round = h.round

\* An authority that never restarts votes for one header of an author and
\* round, however often headers come or loop back, until it has cleaned up
\* the round (last_voted, core.rs:278-283 and :598).
VoteOnce ==
    \A v, w \in votes :
        /\ v.voter = w.voter /\ v.voter \notin Restartable
        /\ SameSlot(v.header, w.header)
        /\ gc_round[v.voter] <= v.header.round
        => v.header = w.header

\* As long as no authority has cleaned up the round, no two headers of one
\* author and round are both certified, although their author made two of
\* them across a restart, and as many voters as do not hold f+1 stake forgot
\* their votes.
UniqueCertificates ==
    \A c, d \in certificates :
        /\ SameSlot(c.header, d.header)
        /\ \A n \in Authority : gc_round[n] <= c.header.round
        => c.header = d.header

\* A header is certified once: late votes make no second certificate of it
\* (aggregators.rs:48, "Ensures quorum is only reached once").
QuorumOnce == \A c, d \in certificates : c.header = d.header => c = d

\* The voters of a certificate have a quorum, and each of them but the author
\* itself voted for that very header: a vote for an earlier header, which may
\* come late, is never counted for the current one (sanitize_vote, core.rs:493-511).
CertificatesBacked ==
    \A c \in certificates :
        /\ IsQuorum(c.votes)
        /\ \A a \in c.votes \ {c.header.author} : [header |-> c.header, voter |-> a] \in votes

\* The core of a primary never panics: its own vote is always accepted ("Failed
\* to process our own vote", core.rs:291).
OwnVoteAccepted == down \subseteq Faulty

\* The header of a primary that is up gets certified, unless its proposer
\* moves on or it restarts, while the authorities that stop do not hold f+1
\* stake, or the leader of the round is among them: there is no certificate
\* without its vote (VotesAggregator.append, aggregators.rs:24-52).
HeaderCertified ==
    \A n \in Authors : \A r \in 1..MaxRound :
        (current_header[n].round = r)
            ~> \/ \E h \in Certified(r) : h.author = n
               \/ current_header[n].round # r
               \/ n \in down \/ leader(r) \in down
=============================================================================
