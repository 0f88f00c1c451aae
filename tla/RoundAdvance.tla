---------------------------- MODULE RoundAdvance ----------------------------
(***************************************************************************)
(* How the primaries move from round to round together: the proposers of   *)
(* all of them, and what their cores aggregate for them (core.rs,          *)
(* aggregators.rs): certificates into parents, timeouts and no-votes into  *)
(* certificates.  No primary stops and no message is lost; all of them are *)
(* as slow as they like.  A step of a proposer is one branch of its select *)
(* with the pass of the loop that follows it.                              *)
(***************************************************************************)
EXTENDS Committee

CONSTANTS
    Busy,     \* the primaries whose workers get transactions
    MaxRound  \* bound: the last round for which a header is made

ASSUME RoundAdvanceAssumption ==
    /\ Busy \subseteq Authority
    /\ MaxRound \in Nat

VARIABLES
    proposer,   \* the proposer of each primary
    headers,    \* the headers made
    certified,  \* those that have a certificate
    handed,     \* the origins each proposer was given as parents, per round
    timeouts,   \* per round, who sent a timeout
    no_votes    \* per round, who sent a no-vote to the next leader

vars == <<proposer, headers, certified, handed, timeouts, no_votes>>

Rounds == 0..MaxRound

\* The fields are those of Proposer; a certificate is its round, 0 is new(0).
Proposer ==
    [round : Rounds, parents : SUBSET Authority, last_leader : BOOLEAN,
     advance : BOOLEAN, enough_digests : BOOLEAN, timeout_cert : Rounds,
     no_vote_cert : Rounds, timer_expired : BOOLEAN, timeout_sent : BOOLEAN]

Init ==
    /\ proposer = [n \in Authority |->
           [round |-> 0, parents |-> Authority, last_leader |-> FALSE,
            advance |-> TRUE, enough_digests |-> FALSE, timeout_cert |-> 0,
            no_vote_cert |-> 0, timer_expired |-> FALSE, timeout_sent |-> FALSE]]
    /\ headers = {}
    /\ certified = {}
    /\ handed = [n \in Authority |-> [r \in Rounds |-> {}]]
    /\ timeouts = [r \in Rounds |-> {}]
    /\ no_votes = [r \in Rounds |-> {}]

Links(h) == leader(h.round - 1) \in h.parents

-----------------------------------------------------------------------------
\* The pass of the loop of n, with p the fields of its proposer.

is_next_leader(n, p) == leader(p.round + 1) = n

CanPropose(n, p) ==
    /\ p.round < MaxRound
    /\ p.parents # {}
    /\ \/ /\ p.timer_expired
          /\ p.timeout_cert = p.round
          /\ is_next_leader(n, p) => p.no_vote_cert = p.round
       \/ p.enough_digests /\ p.advance

make_timeout_msg(n, p) ==
    timeouts' = IF p.timer_expired /\ ~p.timeout_sent
                  THEN [timeouts EXCEPT ![p.round] = @ \cup {n}] ELSE timeouts

\* Mutant: a no-vote even with the leader's certificate.
make_no_vote_msg_always(n, p) ==
    no_votes' = IF p.timer_expired /\ ~is_next_leader(n, p)
                  THEN [no_votes EXCEPT ![p.round] = @ \cup {n}] ELSE no_votes

make_no_vote_msg(n, p) ==
    no_votes' = IF p.timer_expired /\ ~p.last_leader /\ ~is_next_leader(n, p)
                  THEN [no_votes EXCEPT ![p.round] = @ \cup {n}] ELSE no_votes

make_header(n, p) ==
    [author |-> n, round |-> p.round + 1, parents |-> p.parents,
     timed_out  |-> p.timeout_cert = p.round,
     no_vote    |-> leader(p.round + 1) = n /\ p.no_vote_cert = p.round]

Propose(n, p) ==
    /\ CanPropose(n, p)
    /\ make_no_vote_msg(n, p)
    /\ headers' = headers \cup {make_header(n, p)}
    /\ proposer' = [proposer EXCEPT ![n] =
           [p EXCEPT !.round = @ + 1, !.parents = {}, !.enough_digests = FALSE,
                     !.timer_expired = FALSE, !.timeout_sent = FALSE]]

Wait(n, p) ==
    /\ ~CanPropose(n, p)
    /\ proposer' = [proposer EXCEPT ![n] =
           [p EXCEPT !.timeout_sent = @ \/ p.timer_expired]]
    /\ UNCHANGED <<headers, no_votes>>

Loop(n, p) ==
    /\ make_timeout_msg(n, p)
    /\ Propose(n, p) \/ Wait(n, p)
    /\ UNCHANGED certified

-----------------------------------------------------------------------------
\* The branches of select.

\* The certificates of round r that n can process: it has their parents
\* (deliver_certificate) and did not give them to its proposer.
Deliverable(n, r) ==
    {h.author : h \in {h \in certified : h.round = r /\ (r > 1 => h.parents \subseteq handed[n][r - 1])}}
        \ handed[n][r]

\* What the certificates aggregator gives: all that it has when the last one
\* makes the quorum, then each further one alone.
Aggregated(n, r, S) ==
    IF handed[n][r] = {}
      THEN IsQuorum(S) /\ \E a \in S : ~IsQuorum(S \ {a})
      ELSE Cardinality(S) = 1

\* Mutant: older parents are added as well.
TakeParents_older(p, r, S) ==
    LET P == IF r > p.round THEN S ELSE p.parents \cup S
        q == IF r > p.round THEN r ELSE p.round
    IN  [p EXCEPT !.round = q, !.parents = P,
                  !.last_leader = leader(q) \in P, !.advance = leader(q) \in P]

\* The fields after later parents (a jump), older ones, and those of the round.
TakeParents(p, r, S) ==
    LET P == IF r > p.round THEN S ELSE IF r = p.round THEN p.parents \cup S ELSE p.parents
        q == IF r > p.round THEN r ELSE p.round
    IN  [p EXCEPT !.round = q, !.parents = P,
                  !.last_leader = leader(q) \in P, !.advance = leader(q) \in P]

RecvParents(n) ==
    \E r \in Rounds \ {0} : \E S \in SUBSET Deliverable(n, r) :
        /\ Aggregated(n, r, S)
        /\ handed' = [handed EXCEPT ![n][r] = @ \cup S]
        /\ Loop(n, TakeParents(proposer[n], r, S))

\* A batch of n's workers; further ones change nothing here.
RecvDigest(n) ==
    /\ n \in Busy
    /\ ~proposer[n].enough_digests
    /\ Loop(n, [proposer[n] EXCEPT !.enough_digests = TRUE])
    /\ UNCHANGED handed

\* The core of n has a quorum of the timeouts of round r, and gives it on.
RecvTimeoutCert(n) ==
    \E r \in Rounds :
        /\ IsQuorum(timeouts[r])
        /\ r >= proposer[n].timeout_cert
        /\ Loop(n, [proposer[n] EXCEPT !.timeout_cert = r])
        /\ UNCHANGED handed

\* The leader's own no-vote is added to the first that arrives.
NoVotes(n, r) == no_votes[r] # {} /\ IsQuorum(no_votes[r] \cup {n})

RecvNoVoteCert(n) ==
    \E r \in Rounds :
        /\ leader(r + 1) = n
        /\ NoVotes(n, r)
        /\ r >= proposer[n].no_vote_cert
        /\ Loop(n, [proposer[n] EXCEPT !.no_vote_cert = r])
        /\ UNCHANGED handed

TimerFires(n) ==
    /\ proposer[n].timer_expired
    /\ Loop(n, proposer[n])
    /\ UNCHANGED handed

\* Time passes; the proposer notices with its next step.
TimerElapses(n) ==
    /\ ~proposer[n].timer_expired
    /\ proposer' = [proposer EXCEPT ![n].timer_expired = TRUE]
    /\ UNCHANGED <<headers, certified, handed, timeouts, no_votes>>

(***************************************************************************)
(* The core of the author has a quorum of votes.  The others vote for a    *)
(* header with the checks of process_header, and a vote counts only for    *)
(* the author's last header (sanitize_vote).                               *)
(***************************************************************************)
Acceptable(h) ==
    /\ IsQuorum(h.parents)
    /\ ~Links(h) => h.timed_out /\ (leader(h.round) = h.author => h.no_vote)

Certify(n) ==
    /\ \E h \in headers :
           /\ h.author = n
           /\ \A g \in headers : g.author = n => g.round <= h.round
           /\ Acceptable(h)
           /\ certified' = certified \cup {h}
    /\ UNCHANGED <<proposer, headers, handed, timeouts, no_votes>>

Select(n) ==
    \/ RecvParents(n)
    \/ RecvDigest(n)
    \/ RecvTimeoutCert(n)
    \/ RecvNoVoteCert(n)
    \/ TimerFires(n)

Next == \E n \in Authority : Select(n) \/ TimerElapses(n) \/ Certify(n)

Spec == Init /\ [][Next]_vars

(***************************************************************************)
(* Every primary is scheduled and every channel is read; the timers run    *)
(* out; messages arrive (ReliableSender) and headers get their votes; the  *)
(* workers of a busy primary get further transactions.  No branch of a     *)
(* select is starved: up to MaxRound only finitely many steps change it.   *)
(***************************************************************************)
FairSpec ==
    /\ Spec
    /\ \A n \in Authority :
           /\ WF_vars(Select(n))
           /\ WF_vars(TimerElapses(n))
           /\ WF_vars(Certify(n))

-----------------------------------------------------------------------------
(***************************************************************************)
(* Properties.                                                             *)
(***************************************************************************)

\* The fields of the proposers have their types, and so has what is sent; the
\* parents of a proposer are of its round, whatever it jumped over.
TypeOK ==
    /\ proposer \in [Authority -> Proposer]
    /\ \A n \in Authority : LET p == proposer[n]
                            IN  p.round > 0 => p.parents \subseteq handed[n][p.round]
    /\ headers \subseteq [author : Authority, round : Rounds, parents : SUBSET Authority,
                          timed_out : BOOLEAN, no_vote : BOOLEAN]
    /\ certified \subseteq headers
    /\ handed \in [Authority -> [Rounds -> SUBSET Authority]]
    /\ timeouts \in [Rounds -> SUBSET Authority]
    /\ no_votes \in [Rounds -> SUBSET Authority]

\* A leader whose header leaves out the leader before it is backed by a quorum
\* that never links that leader either, although each of them decides on its
\* own, when its timer runs out, and parents keep arriving (proposer.rs:240,
\* core.rs:344-358).  The commit rule rests on it: a leader that a quorum links
\* is not left out by the next one.
SkippedByQuorum ==
    \A h \in headers : leader(h.round) = h.author /\ ~Links(h) =>
        IsQuorum({a \in Authority :
            \A g \in headers : g.author = a /\ g.round = h.round => ~Links(g)})

\* Every primary moves on from round to round, with or without payload: "The
\* maximum delay that the primary waits between generating two headers, even
\* if the header did not reach max_header_size" (config/src/lib.rs:66-67).
EveryRoundLeft == <>(\A n \in Authority : proposer[n].round = MaxRound)
=============================================================================
