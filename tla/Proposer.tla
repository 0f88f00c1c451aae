------------------------------ MODULE Proposer ------------------------------
(***************************************************************************)
(* The proposer task of one primary (primary/src/proposer.rs): when it     *)
(* moves to the next round, what it puts in its header, and the timeouts   *)
(* and no-votes it sends.  What its channels bring is the environment:     *)
(* parents from the certificate aggregators of the core, digests from the  *)
(* workers, timeout and no-vote certificates, and the timer.               *)
(***************************************************************************)
EXTENDS Committee

CONSTANTS
    name,         \* the public key of this primary
    header_size,  \* digests that make a header worth sending
    MaxRound      \* bound: the last round for which anything is received

ASSUME ProposerAssumption ==
    /\ name \in Authority
    /\ header_size \in Nat
    /\ MaxRound \in Nat

VARIABLES
    round,             \* the round of the last header, or jumped to
    last_parents,      \* certificates waiting to be linked: <<origin, round>>
    last_leader,       \* whether the last parents hold the round's leader
    payload_size,      \* the digests waiting to be included, counted
    last_timeout_cert, \* the latest timeout certificate received
    last_no_vote_cert, \* the latest no-vote certificate received
    advance,           \* whether the happy path is open
    timer_expired,     \* whether the timer has run out
    timeout_sent,      \* whether the timeout was sent since the last header
    pc,                \* "top" of the loop, or waiting in "select"
    headers,           \* history: the headers made
    timeouts,          \* history: the rounds of the timeouts sent
    no_votes,          \* history: the rounds of the no-votes sent
    handed             \* core: per round, the origins given as parents

local == <<round, last_parents, last_leader, payload_size, last_timeout_cert,
           last_no_vote_cert, advance, timer_expired, timeout_sent>>
sent  == <<headers, timeouts, no_votes>>
vars  == <<local, pc, sent, handed>>

Rounds == 0..MaxRound

\* A certificate of timeouts or no-votes; the empty one is made by new(0).
Cert(r)   == [round |-> r, full |-> TRUE]
EmptyCert == [round |-> 0, full |-> FALSE]

At(S, r) == {<<a, r>> : a \in S}
Origins(P) == {p[1] : p \in P}

Init ==
    /\ round = 0
    /\ last_parents = At(Authority, 0)
    /\ last_leader = FALSE
    /\ payload_size = 0
    /\ last_timeout_cert = EmptyCert
    /\ last_no_vote_cert = EmptyCert
    /\ advance = TRUE
    /\ timer_expired = FALSE
    /\ timeout_sent = FALSE
    /\ pc = "top"
    /\ headers = {}
    /\ timeouts = {}
    /\ no_votes = {}
    /\ handed = [r \in Rounds |-> {}]

-----------------------------------------------------------------------------
\* The top of the loop.

is_next_leader == leader(round + 1) = name

\* Mutant: the timeout certificate may be of a later round.
TimeoutPath_later ==
    /\ timer_expired
    /\ last_timeout_cert.round >= round
    /\ is_next_leader => last_no_vote_cert.round = round

\* Mutant: every primary waits for a no-vote certificate.
TimeoutPath_all ==
    /\ timer_expired
    /\ last_timeout_cert.round = round
    /\ last_no_vote_cert.round = round

TimeoutPath ==
    /\ timer_expired
    /\ last_timeout_cert.round = round
    /\ is_next_leader => last_no_vote_cert.round = round

HappyPath == payload_size >= header_size /\ advance

CanPropose == (TimeoutPath \/ HappyPath) /\ last_parents # {}

make_timeout_msg == timeouts' = timeouts \cup {round}
make_no_vote_msg == no_votes' = no_votes \cup {round}

\* The timeout message of this pass of the loop, if one is due.
SendTimeout ==
    IF timer_expired /\ ~timeout_sent THEN make_timeout_msg ELSE UNCHANGED timeouts

\* Mutant: a no-vote even with the leader's certificate.
SendNoVote_always ==
    IF timer_expired /\ ~is_next_leader THEN make_no_vote_msg ELSE UNCHANGED no_votes

SendNoVote ==
    IF timer_expired /\ ~last_leader /\ ~is_next_leader
      THEN make_no_vote_msg
      ELSE UNCHANGED no_votes

\* The header of round r, with the certificates of the round before.
make_header(r) ==
    [round        |-> r,
     parents      |-> last_parents,
     timeout_cert |-> IF last_timeout_cert.round = r - 1
                        THEN last_timeout_cert ELSE EmptyCert,
     no_vote_cert |-> IF leader(r) = name /\ last_no_vote_cert.round = r - 1
                        THEN last_no_vote_cert ELSE EmptyCert]

Propose ==
    /\ pc = "top"
    /\ CanPropose
    /\ SendTimeout
    /\ SendNoVote
    /\ round' = round + 1
    /\ headers' = headers \cup {make_header(round + 1)}
    /\ last_parents' = {}
    /\ payload_size' = 0
    /\ timer_expired' = FALSE
    /\ timeout_sent' = FALSE
    /\ pc' = "select"
    /\ UNCHANGED <<last_leader, last_timeout_cert, last_no_vote_cert, advance, handed>>

\* Mutant: that the timeout was sent is not remembered.
Wait_forgets ==
    /\ pc = "top"
    /\ ~CanPropose
    /\ SendTimeout
    /\ pc' = "select"
    /\ UNCHANGED <<round, last_parents, last_leader, payload_size, last_timeout_cert,
                   last_no_vote_cert, advance, timer_expired, timeout_sent, headers,
                   no_votes, handed>>

Wait ==
    /\ pc = "top"
    /\ ~CanPropose
    /\ SendTimeout
    /\ timeout_sent' = (timeout_sent \/ timer_expired)
    /\ pc' = "select"
    /\ UNCHANGED <<round, last_parents, last_leader, payload_size, last_timeout_cert,
                   last_no_vote_cert, advance, timer_expired, headers, no_votes, handed>>

-----------------------------------------------------------------------------
\* The branches of select.

Select == pc = "select" /\ pc' = "top"

(***************************************************************************)
(* The core gives the certificates of a round when they first make a       *)
(* quorum, then each further one alone (CertificatesAggregator).  The      *)
(* proposer's own certificate needs its header.                            *)
(***************************************************************************)
Hands(r, S) ==
    /\ r > 0
    /\ handed[r] = {} => IsQuorum(S)
    /\ handed[r] # {} => \E a \in Authority \ handed[r] : S = {a}
    /\ name \in S => \E h \in headers : h.round = r
    /\ handed' = [handed EXCEPT ![r] = @ \cup S]

\* Whether the leader of the current round is among its parents.
update_leader(r, P) == leader(r) \in Origins(P)

\* Mutant: older parents are added as well.
TakeParents_older(r, P) ==
    \/ /\ r > round
       /\ round' = r
       /\ last_parents' = P
    \/ /\ r <= round
       /\ last_parents' = last_parents \cup P
       /\ UNCHANGED round

\* Mutant: the round goes back to the round of older parents.
TakeParents_back(r, P) ==
    \/ /\ r # round
       /\ round' = r
       /\ last_parents' = P
    \/ /\ r = round
       /\ last_parents' = last_parents \cup P
       /\ UNCHANGED round

\* Mutant: a jump keeps the parents of the round it leaves.
TakeParents_keep(r, P) ==
    \/ /\ r >= round
       /\ round' = r
       /\ last_parents' = last_parents \cup P
    \/ /\ r < round
       /\ UNCHANGED <<round, last_parents>>

\* Jump to the round of later parents, ignore older ones, add to the others.
TakeParents(r, P) ==
    \/ /\ r > round
       /\ round' = r
       /\ last_parents' = P
    \/ /\ r < round
       /\ UNCHANGED <<round, last_parents>>
    \/ /\ r = round
       /\ last_parents' = last_parents \cup P
       /\ UNCHANGED round

RecvParents(r, S) ==
    /\ Select
    /\ Hands(r, S)
    /\ TakeParents(r, At(S, r))
    /\ last_leader' = update_leader(round', last_parents')
    /\ advance' = last_leader'
    /\ UNCHANGED <<payload_size, last_timeout_cert, last_no_vote_cert,
                   timer_expired, timeout_sent, sent>>

\* A batch digest; more than header_size of them change nothing here.
RecvDigest ==
    /\ Select
    /\ payload_size < header_size
    /\ payload_size' = payload_size + 1
    /\ UNCHANGED <<round, last_parents, last_leader, last_timeout_cert,
                   last_no_vote_cert, advance, timer_expired, timeout_sent, sent, handed>>

RecvTimeoutCert(r) ==
    /\ Select
    /\ last_timeout_cert' = IF r >= last_timeout_cert.round THEN Cert(r) ELSE last_timeout_cert
    /\ UNCHANGED <<round, last_parents, last_leader, payload_size,
                   last_no_vote_cert, advance, timer_expired, timeout_sent, sent, handed>>

\* No-votes of round r go to the leader of round r + 1.
RecvNoVoteCert(r) ==
    /\ leader(r + 1) = name
    /\ Select
    /\ last_no_vote_cert' = IF r >= last_no_vote_cert.round THEN Cert(r) ELSE last_no_vote_cert
    /\ UNCHANGED <<round, last_parents, last_leader, payload_size,
                   last_timeout_cert, advance, timer_expired, timeout_sent, sent, handed>>

TimerFires ==
    /\ timer_expired
    /\ Select
    /\ UNCHANGED <<local, sent, handed>>

\* Time passes, wherever the task is.
TimerElapses ==
    /\ ~timer_expired
    /\ timer_expired' = TRUE
    /\ UNCHANGED <<round, last_parents, last_leader, payload_size, last_timeout_cert,
                   last_no_vote_cert, advance, timeout_sent, pc, sent, handed>>

Next ==
    \/ Propose
    \/ Wait
    \/ \E r \in Rounds, S \in SUBSET Authority : RecvParents(r, S)
    \/ RecvDigest
    \/ \E r \in Rounds : RecvTimeoutCert(r)
    \/ \E r \in Rounds : RecvNoVoteCert(r)
    \/ TimerFires
    \/ TimerElapses

Spec == Init /\ [][Next]_vars

\* The task is scheduled and the timer runs out.  Nothing is assumed of what the
\* channels bring.
FairSpec ==
    /\ Spec
    /\ WF_vars(Propose \/ Wait)
    /\ WF_vars(TimerElapses)
    /\ WF_vars(TimerFires)

-----------------------------------------------------------------------------
(***************************************************************************)
(* Properties.                                                             *)
(***************************************************************************)
CertType == [round : Nat, full : BOOLEAN]

\* The variables of the struct and of run have their types.
TypeOK ==
    /\ round \in Nat
    /\ last_parents \subseteq Authority \X {round}
    /\ last_leader \in BOOLEAN /\ advance \in BOOLEAN
    /\ payload_size \in Nat
    /\ last_timeout_cert \in CertType /\ last_no_vote_cert \in CertType
    /\ timer_expired \in BOOLEAN /\ timeout_sent \in BOOLEAN
    /\ pc \in {"top", "select"}
    /\ headers \subseteq [round : Nat, parents : SUBSET (Authority \X Nat),
                          timeout_cert : CertType, no_vote_cert : CertType]
    /\ timeouts \subseteq Nat /\ no_votes \subseteq Nat
    /\ handed \in [Rounds -> SUBSET Authority]

\* The proposer never makes two headers of the same round, whatever rounds it
\* jumps over (run, proposer.rs:238-251 and :263-268).
OneHeaderPerRound == \A g, h \in headers : g.round = h.round => g = h

\* Every header links a quorum of certificates, all of the round before: a
\* jump, or a late parent of a round already left, never ends up in one.
HeadersHaveQuorum ==
    \A h \in headers :
        /\ \A p \in h.parents : p[2] + 1 = h.round
        /\ IsQuorum(Origins(h.parents))

\* Whether a header links the leader of the previous round.
Links(h) == leader(h.round - 1) \in Origins(h.parents)

\* A primary that sent a no-vote against the leader of a round makes no
\* header that links this leader.  Round 0, where every header links the
\* genesis certificate of the leader, is left out: a no-vote for it is sent
\* when the timer runs out before the first header (proposer.rs:240).
NoVoteNeverLinks ==
    \A h \in headers : h.round > 1 /\ h.round - 1 \in no_votes => ~Links(h)

\* A header without the previous leader carries the timeout certificate of
\* that round, and the no-vote certificate too if its author leads the round:
\* the other primaries accept it (core.rs:260-265).
HeaderJustified ==
    \A h \in headers : ~Links(h) =>
        /\ h.timeout_cert = Cert(h.round - 1)
        /\ leader(h.round) = name => h.no_vote_cert = Cert(h.round - 1)

\* No second timeout of a round: one is due only when none was sent for the
\* current round, however often the loop passes with an expired timer.
TimeoutOnce == ~timeout_sent => round \notin timeouts

\* A primary that does not lead the next round and has the timeout certificate
\* of its round uses it: it leaves the round, with or without payload, unless
\* the certificate of a later round takes the place of its own first (run,
\* proposer.rs:235 and :292-310).  RoundAdvance shows when the certificate comes.
NonLeaderAdvances ==
    \A r \in Rounds :
        /\ round = r
        /\ last_parents # {}
        /\ ~is_next_leader
        /\ last_timeout_cert.round = r
        ~> round > r \/ last_timeout_cert.round > r
=============================================================================
