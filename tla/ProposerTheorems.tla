-------------------------- MODULE ProposerTheorems --------------------------
(***************************************************************************)
(* The safety of the proposer, for every committee, header size and bound  *)
(* of the rounds.  What makes it inductive is where last_parents come      *)
(* from: they are, at any time, exactly the certificates of the current    *)
(* round that the core has given (Given below), so that a header links     *)
(* none of them or a quorum, and last_leader is never out of date when a   *)
(* header is made.                                                         *)
(***************************************************************************)
EXTENDS Proposer, CommitteeTheorems

\* The origins of the certificates of round r that the proposer has seen.
Given(r) ==
    IF r = 0 THEN Authority ELSE IF r \in Rounds THEN handed[r] ELSE {}

\* Certificates come in quorums, and never from a round ahead of the proposer.
HandedInv ==
    \A r \in Rounds : handed[r] # {} => r \in 1..round /\ IsQuorum(handed[r])

\* The parents of the next header, and what is known of their leader.
ParentsInv ==
    /\ last_parents = At(Given(round), round)
    /\ Given(round) # {} => (advance <=> leader(round) \in Given(round))
    /\ Given(round) # {} /\ round > 0 => (last_leader <=> leader(round) \in Given(round))

\* All that was made or sent is of the current round or of earlier ones.
PastInv ==
    /\ \A h \in headers : h.round \in 1..round
    /\ \A t \in timeouts : t <= round
    /\ \A t \in no_votes : t < round

\* Only the empty certificates of round 0 are not certificates.
CertsInv ==
    /\ last_timeout_cert.round # 0 => last_timeout_cert = Cert(last_timeout_cert.round)
    /\ last_no_vote_cert.round # 0 => last_no_vote_cert = Cert(last_no_vote_cert.round)

IInv ==
    /\ TypeOK
    /\ HandedInv
    /\ ParentsInv
    /\ PastInv
    /\ CertsInv
    /\ OneHeaderPerRound
    /\ HeadersHaveQuorum
    /\ NoVoteNeverLinks
    /\ HeaderJustified
    /\ TimeoutOnce

-----------------------------------------------------------------------------
\* The leader of a round is an authority.
LEMMA LeaderType == \A r \in Nat : leader(r) \in Authority
<1>1. SUFFICES ASSUME NEW r \in Nat
               PROVE  (r % Len(Keys)) + 1 \in 1..Len(Keys)
  BY DEF leader, Authority
<1>2. Len(Keys) \in Nat /\ Len(Keys) > 0
  BY CommitteeAssumption
<1>. DEFINE n == Len(Keys)
<1>3. n \in Nat /\ n > 0
  BY <1>2
<1>. HIDE DEF n
<1>4. r % n \in 0..(n - 1)
  BY <1>3
<1>5. (r % n) + 1 \in 1..n
  BY <1>3, <1>4
<1>. QED  BY <1>5 DEF n

\* The origins of the certificates of a round are who they were made for.
LEMMA OriginsAt == \A S, r : Origins(At(S, r)) = S
<1>1. SUFFICES ASSUME NEW S, NEW r
               PROVE  Origins(At(S, r)) = S
  OBVIOUS
<1>2. ASSUME NEW a \in S
      PROVE  a \in Origins(At(S, r))
  <2>1. <<a, r>> \in At(S, r) /\ <<a, r>>[1] = a
    BY DEF At
  <2>. QED  BY <2>1 DEF Origins
<1>3. ASSUME NEW a \in Origins(At(S, r))
      PROVE  a \in S
  BY DEF Origins, At
<1>. QED  BY <1>2, <1>3

\* Certificates of a round from two sets of authors.
LEMMA AtUnion == \A S, T, r : At(S \cup T, r) = At(S, r) \cup At(T, r)
BY DEF At

\* Who was given is a set of authorities, and a quorum unless it is empty.
LEMMA GivenType ==
    ASSUME TypeOK, HandedInv
    PROVE  /\ Given(round) \subseteq Authority
           /\ Given(round) # {} => IsQuorum(Given(round))
BY CommitteeIsQuorum DEF Given, TypeOK, HandedInv

-----------------------------------------------------------------------------
\* The proposer starts with the genesis certificates as parents of round 1.
LEMMA InitIInv == Init => IInv
<1>. SUFFICES ASSUME Init PROVE IInv
  OBVIOUS
<1>. USE DEF Init
<1>1. 0 \in Rounds
  BY ProposerAssumption DEF Rounds
<1>2. TypeOK
  <2>1. last_parents \subseteq Authority \X {round}
    BY DEF At
  <2>2. last_timeout_cert \in CertType /\ last_no_vote_cert \in CertType
    BY DEF CertType, EmptyCert
  <2>3. handed \in [Rounds -> SUBSET Authority]
    OBVIOUS
  <2>. QED  BY <2>1, <2>2, <2>3 DEF TypeOK
<1>3. ParentsInv
  BY LeaderType DEF ParentsInv, Given
<1>4. HandedInv /\ PastInv /\ CertsInv
  BY DEF HandedInv, PastInv, CertsInv, EmptyCert
<1>5. OneHeaderPerRound /\ HeadersHaveQuorum /\ NoVoteNeverLinks
  BY DEF OneHeaderPerRound, HeadersHaveQuorum, NoVoteNeverLinks
<1>6. HeaderJustified /\ TimeoutOnce
  BY DEF HeaderJustified, TimeoutOnce
<1>. QED  BY <1>2, <1>3, <1>4, <1>5, <1>6 DEF IInv

\* The header of a step: it links the certificates of the current round.
LEMMA ProposeIInv ==
    ASSUME IInv, Propose
    PROVE  IInv'
<1>. USE DEF IInv
<1>. DEFINE h == make_header(round + 1)
<1>1. /\ round \in Nat /\ round' = round + 1
      /\ headers' = headers \cup {h}
      /\ last_parents' = {}
      /\ handed' = handed
      /\ timeouts' \in {timeouts, timeouts \cup {round}}
      /\ UNCHANGED <<last_leader, last_timeout_cert, last_no_vote_cert, advance>>
      /\ timeout_sent' = FALSE
  BY DEF Propose, SendTimeout, make_timeout_msg, TypeOK
<1>2. /\ h.round = round + 1
      /\ h.round - 1 = round
      /\ h.parents = At(Given(round), round)
      /\ Origins(h.parents) = Given(round)
      /\ h.timeout_cert = (IF last_timeout_cert.round = round THEN last_timeout_cert ELSE EmptyCert)
      /\ h.no_vote_cert = (IF leader(round + 1) = name /\ last_no_vote_cert.round = round
                             THEN last_no_vote_cert ELSE EmptyCert)
  <2>1. (round + 1) - 1 = round
    BY <1>1
  <2>. QED  BY <1>1, <2>1, OriginsAt DEF make_header, ParentsInv
<1>3. Given(round) \subseteq Authority /\ IsQuorum(Given(round)) /\ Given(round) # {}
  <2>1. last_parents # {}
    BY DEF Propose, CanPropose
  <2>2. Given(round) # {}
    BY <2>1 DEF ParentsInv, At
  <2>. QED  BY <2>2, GivenType
<1>4. Links(h) <=> leader(round) \in Given(round)
  BY <1>2 DEF Links
<1>5. TypeOK'
  <2>1. h \in [round : Nat, parents : SUBSET (Authority \X Nat),
               timeout_cert : CertType, no_vote_cert : CertType]
    BY <1>1 DEF make_header, TypeOK, CertType, EmptyCert
  <2>2. no_votes' \subseteq Nat /\ timeouts' \subseteq Nat
    BY <1>1 DEF Propose, SendNoVote, make_no_vote_msg, TypeOK
  <2>3. headers' \subseteq [round : Nat, parents : SUBSET (Authority \X Nat),
                            timeout_cert : CertType, no_vote_cert : CertType]
    BY <1>1, <2>1 DEF TypeOK
  <2>4. last_parents' \subseteq Authority \X {round'}
    BY <1>1
  <2>5. /\ payload_size' \in Nat /\ pc' \in {"top", "select"}
        /\ timer_expired' \in BOOLEAN /\ timeout_sent' \in BOOLEAN
    BY DEF Propose
  <2>6. round' \in Nat
    BY <1>1
  <2>7. /\ last_leader' \in BOOLEAN /\ advance' \in BOOLEAN
        /\ last_timeout_cert' \in CertType /\ last_no_vote_cert' \in CertType
        /\ handed' \in [Rounds -> SUBSET Authority]
    BY <1>1 DEF TypeOK
  <2>. QED  BY <2>2, <2>3, <2>4, <2>5, <2>6, <2>7 DEF TypeOK
<1>6. HandedInv'
  BY <1>1 DEF HandedInv
<1>7. ParentsInv'
  <2>1. (Given(round))' = {}
    <3>1. round' # 0 /\ round' \notin 1..round
      BY <1>1
    <3>. QED  BY <3>1, <1>1 DEF Given, HandedInv
  <2>. QED  BY <2>1, <1>1 DEF ParentsInv, At
<1>8. PastInv'
  <2>1. no_votes' \in {no_votes, no_votes \cup {round}}
    BY DEF Propose, SendNoVote, make_no_vote_msg
  <2>2. \A g \in headers' : g.round \in 1..round'
    BY <1>1, <1>2 DEF PastInv
  <2>3. \A t \in timeouts' : t <= round'
    BY <1>1 DEF PastInv, TypeOK
  <2>4. \A t \in no_votes' : t < round'
    BY <1>1, <2>1 DEF PastInv, TypeOK
  <2>. QED  BY <2>2, <2>3, <2>4 DEF PastInv
<1>9. CertsInv'
  BY <1>1 DEF CertsInv
<1>10. OneHeaderPerRound'
  <2>1. \A g \in headers : g.round # h.round
    BY <1>1, <1>2 DEF PastInv
  <2>. QED  BY <1>1, <2>1 DEF OneHeaderPerRound
<1>11. HeadersHaveQuorum'
  <2>1. \A p \in h.parents : p[2] + 1 = h.round
    BY <1>2 DEF At
  <2>. QED  BY <1>1, <1>2, <1>3, <2>1 DEF HeadersHaveQuorum
<1>12. NoVoteNeverLinks'
  <2>1. SUFFICES ASSUME NEW g \in headers', g.round > 1, g.round - 1 \in no_votes'
                 PROVE  ~Links(g)
    BY DEF NoVoteNeverLinks, Links
  <2>2. no_votes' = no_votes \/ (no_votes' = no_votes \cup {round} /\ ~last_leader)
    BY DEF Propose, SendNoVote, make_no_vote_msg
  <2>3. CASE g \in headers
    <3>1. g.round - 1 # round
      BY <1>1, <2>3 DEF PastInv
    <3>2. g.round - 1 \in no_votes
      BY <2>1, <2>2, <3>1
    <3>. QED  BY <2>1, <2>3, <3>2 DEF NoVoteNeverLinks
  <2>4. CASE g = h
    <3>1. round \in no_votes' /\ round > 0
      BY <2>1, <2>4, <1>1, <1>2
    <3>2. round \notin no_votes
      BY <1>1 DEF PastInv
    <3>3. ~last_leader
      BY <2>2, <3>1, <3>2
    <3>. QED  BY <2>4, <3>1, <3>3, <1>3, <1>4 DEF ParentsInv
  <2>. QED  BY <1>1, <2>1, <2>3, <2>4
<1>13. HeaderJustified'
  <2>1. SUFFICES ASSUME ~Links(h)
                 PROVE  /\ h.timeout_cert = Cert(h.round - 1)
                        /\ leader(h.round) = name => h.no_vote_cert = Cert(h.round - 1)
    BY <1>1 DEF HeaderJustified, Links
  <2>2. round # 0
    BY <2>1, <1>1, <1>4, LeaderType DEF Given
  <2>3. TimeoutPath
    BY <2>1, <1>3, <1>4 DEF ParentsInv, Propose, CanPropose, HappyPath
  <2>4. last_timeout_cert = Cert(round)
    BY <2>2, <2>3 DEF TimeoutPath, CertsInv
  <2>5. leader(round + 1) = name => last_no_vote_cert = Cert(round)
    BY <2>2, <2>3 DEF TimeoutPath, is_next_leader, CertsInv
  <2>6. (Cert(round)).round = round
    BY DEF Cert
  <2>. QED  BY <1>2, <2>4, <2>5, <2>6
<1>14. TimeoutOnce'
  BY <1>1 DEF TimeoutOnce, PastInv
<1>. QED
  BY <1>5, <1>6, <1>7, <1>8, <1>9, <1>10, <1>11, <1>12, <1>13, <1>14

\* Parents that come: at most a jump, and never a part of a quorum alone.
LEMMA RecvParentsIInv ==
    ASSUME IInv, NEW r \in Rounds, NEW S \in SUBSET Authority, RecvParents(r, S)
    PROVE  IInv'
<1>. USE DEF IInv
<1>1. /\ r \in Nat /\ r > 0 /\ round \in Nat
      /\ handed' = [handed EXCEPT ![r] = @ \cup S]
      /\ handed \in [Rounds -> SUBSET Authority]
      /\ Rounds \subseteq Nat
      /\ UNCHANGED <<timer_expired, timeout_sent, headers, timeouts, no_votes>>
      /\ UNCHANGED <<last_timeout_cert, last_no_vote_cert, payload_size>>
  BY DEF RecvParents, Hands, TypeOK, Rounds, sent
<1>2. /\ round' = (IF r > round THEN r ELSE round)
      /\ last_parents' = (IF r > round THEN At(S, r)
                          ELSE IF r = round THEN last_parents \cup At(S, r)
                          ELSE last_parents)
  BY <1>1 DEF RecvParents, TakeParents
<1>3. round' \in Nat /\ round' >= round /\ round' >= r
  BY <1>1, <1>2
<1>4. handed'[r] = handed[r] \cup S
  BY <1>1
<1>5. \A q \in Rounds : q # r => handed'[q] = handed[q]
  BY <1>1
<1>6. IsQuorum(handed'[r])
  <2>1. CASE handed[r] = {}
    BY <2>1, <1>4 DEF RecvParents, Hands
  <2>2. CASE handed[r] # {}
    BY <2>2, <1>1, <1>4, QuorumMonotone DEF HandedInv
  <2>. QED  BY <2>1, <2>2
<1>7. HandedInv'
  <2>1. r \in 1..round'
    BY <1>1, <1>3
  <2>2. ASSUME NEW q \in Rounds, q # r, handed'[q] # {}
        PROVE  q \in 1..round' /\ IsQuorum(handed'[q])
    BY <2>2, <1>1, <1>3, <1>5 DEF HandedInv
  <2>. QED  BY <1>6, <2>1, <2>2 DEF HandedInv
<1>8. last_parents' = At((Given(round))', round')
  <2>1. CASE r > round
    <3>1. handed[r] = {}
      BY <2>1, <1>1 DEF HandedInv
    <3>2. (Given(round))' = S
      BY <2>1, <3>1, <1>1, <1>2, <1>4 DEF Given
    <3>. QED  BY <2>1, <3>2, <1>2
  <2>2. CASE r = round
    <3>1. (Given(round))' = Given(round) \cup S
      BY <2>2, <1>1, <1>2, <1>4 DEF Given
    <3>2. round' = round /\ last_parents' = At(Given(round), round) \cup At(S, round)
      BY <2>2, <1>1, <1>2 DEF ParentsInv
    <3>. QED  BY <3>1, <3>2, AtUnion
  <2>3. CASE r < round
    <3>1. (Given(round))' = Given(round)
      BY <2>3, <1>1, <1>2, <1>5 DEF Given
    <3>. QED  BY <2>3, <3>1, <1>1, <1>2 DEF ParentsInv
  <2>. QED  BY <1>1, <2>1, <2>2, <2>3
<1>9. /\ last_leader' = (leader(round') \in (Given(round))')
      /\ advance' = last_leader'
  BY <1>8, OriginsAt DEF RecvParents, update_leader
<1>10. ParentsInv'
  BY <1>8, <1>9 DEF ParentsInv
<1>11. TypeOK'
  <2>1. last_leader' \in BOOLEAN /\ advance' \in BOOLEAN
    BY <1>9
  <2>2. last_parents' \subseteq Authority \X {round'}
    <3>1. (Given(round))' \subseteq Authority
      BY <1>1 DEF Given
    <3>. QED  BY <3>1, <1>8 DEF At
  <2>3. pc' \in {"top", "select"}
    BY DEF RecvParents, Select
  <2>4. handed' \in [Rounds -> SUBSET Authority]
    BY <1>1
  <2>. QED  BY <1>1, <1>3, <2>1, <2>2, <2>3, <2>4 DEF TypeOK
<1>12. PastInv'
  <2>1. \A h \in headers' : h.round \in 1..round'
    BY <1>1, <1>3 DEF PastInv
  <2>2. (\A t \in timeouts' : t <= round') /\ (\A t \in no_votes' : t < round')
    BY <1>1, <1>3 DEF PastInv, TypeOK
  <2>. QED  BY <2>1, <2>2 DEF PastInv
<1>13. CertsInv'
  BY <1>1 DEF CertsInv
<1>14. OneHeaderPerRound' /\ HeadersHaveQuorum' /\ NoVoteNeverLinks' /\ HeaderJustified'
  BY <1>1 DEF OneHeaderPerRound, HeadersHaveQuorum, NoVoteNeverLinks, HeaderJustified, Links
<1>15. TimeoutOnce'
  BY <1>1, <1>2 DEF TimeoutOnce, PastInv
<1>. QED
  BY <1>7, <1>10, <1>11, <1>12, <1>13, <1>14, <1>15

\* The other branches change neither what was made nor where the parents
\* come from.
LEMMA OtherIInv ==
    ASSUME IInv,
           /\ UNCHANGED <<round, last_parents, last_leader, advance, handed, headers, no_votes>>
           /\ timeouts' = timeouts \/ (timeouts' = timeouts \cup {round} /\ timeout_sent')
           /\ timeout_sent' \in BOOLEAN /\ (timeout_sent => timeout_sent')
           /\ timer_expired' \in BOOLEAN
           /\ payload_size' \in Nat
           /\ pc' \in {"top", "select"}
           /\ last_timeout_cert' \in CertType
           /\ last_no_vote_cert' \in CertType
           /\ CertsInv'
    PROVE  IInv'
<1>. USE DEF IInv
<1>1. TypeOK'
  <2>1. timeouts' \subseteq Nat
    BY DEF TypeOK
  <2>2. last_parents' \subseteq Authority \X {round'}
    BY DEF TypeOK
  <2>3. headers' \subseteq [round : Nat, parents : SUBSET (Authority \X Nat),
                            timeout_cert : CertType, no_vote_cert : CertType]
    BY DEF TypeOK
  <2>4. /\ round' \in Nat /\ no_votes' \subseteq Nat
        /\ last_leader' \in BOOLEAN /\ advance' \in BOOLEAN
        /\ handed' \in [Rounds -> SUBSET Authority]
    BY DEF TypeOK
  <2>5. /\ timer_expired' \in BOOLEAN /\ timeout_sent' \in BOOLEAN
        /\ payload_size' \in Nat /\ pc' \in {"top", "select"}
        /\ last_timeout_cert' \in CertType /\ last_no_vote_cert' \in CertType
    OBVIOUS
  <2>. QED  BY ONLY <2>1, <2>2, <2>3, <2>4, <2>5 DEF TypeOK
<1>2. HandedInv' /\ ParentsInv'
  BY DEF HandedInv, ParentsInv, Given
<1>3. PastInv'
  <2>1. round \in Nat /\ round' = round /\ headers' = headers /\ no_votes' = no_votes
    BY DEF TypeOK
  <2>2. \A t \in timeouts' : t \in timeouts \/ t = round
    OBVIOUS
  <2>3. \A t \in timeouts' : t <= round'
    BY <2>1, <2>2 DEF PastInv
  <2>. QED  BY <2>1, <2>3 DEF PastInv
<1>4. OneHeaderPerRound' /\ HeadersHaveQuorum' /\ NoVoteNeverLinks' /\ HeaderJustified'
  BY DEF OneHeaderPerRound, HeadersHaveQuorum, NoVoteNeverLinks, HeaderJustified, Links
<1>5. TimeoutOnce'
  BY DEF TimeoutOnce
<1>. QED  BY <1>1, <1>2, <1>3, <1>4, <1>5

\* The invariant is inductive.
LEMMA NextIInv == IInv /\ [Next]_vars => IInv'
<1>. SUFFICES ASSUME IInv, [Next]_vars PROVE IInv'
  OBVIOUS
<1>1. CASE Propose
  BY <1>1, ProposeIInv
<1>2. CASE Wait
  <2>1. timeouts' = timeouts \/ (timeouts' = timeouts \cup {round} /\ timeout_sent')
    BY <1>2 DEF Wait, SendTimeout, make_timeout_msg
  <2>. QED  BY <1>2, <2>1, OtherIInv DEF Wait, IInv, TypeOK, CertsInv
<1>3. ASSUME NEW r \in Rounds, NEW S \in SUBSET Authority, RecvParents(r, S)
      PROVE  IInv'
  BY <1>3, RecvParentsIInv
<1>4. CASE RecvDigest
  BY <1>4, OtherIInv DEF RecvDigest, Select, sent, IInv, TypeOK, CertsInv
<1>5. ASSUME NEW r \in Rounds, RecvTimeoutCert(r)
      PROVE  IInv'
  <2>1. r \in Nat
    BY DEF Rounds
  <2>2. last_timeout_cert' \in CertType /\ CertsInv'
    BY <1>5, <2>1 DEF RecvTimeoutCert, IInv, TypeOK, CertType, CertsInv, Cert
  <2>. QED  BY <1>5, <2>2, OtherIInv DEF RecvTimeoutCert, Select, sent, IInv, TypeOK
<1>6. ASSUME NEW r \in Rounds, RecvNoVoteCert(r)
      PROVE  IInv'
  <2>1. r \in Nat
    BY DEF Rounds
  <2>2. last_no_vote_cert' \in CertType /\ CertsInv'
    BY <1>6, <2>1 DEF RecvNoVoteCert, IInv, TypeOK, CertType, CertsInv, Cert
  <2>. QED  BY <1>6, <2>2, OtherIInv DEF RecvNoVoteCert, Select, sent, IInv, TypeOK
<1>7. CASE TimerFires
  BY <1>7, OtherIInv DEF TimerFires, Select, local, sent, IInv, TypeOK, CertsInv
<1>8. CASE TimerElapses
  BY <1>8, OtherIInv DEF TimerElapses, sent, IInv, TypeOK, CertsInv
<1>9. CASE UNCHANGED vars
  BY <1>9, OtherIInv DEF vars, local, sent, IInv, TypeOK, CertsInv
<1>. QED  BY <1>1, <1>2, <1>3, <1>4, <1>5, <1>6, <1>7, <1>8, <1>9 DEF Next

\* The invariant holds in every reachable state.
LEMMA Invariance == Spec => []IInv
BY InitIInv, NextIInv, PTL DEF Spec

-----------------------------------------------------------------------------
\* The variables of the proposer keep their types.
THEOREM TypeCorrect == Spec => []TypeOK
<1>1. IInv => TypeOK
  BY DEF IInv
<1>. QED  BY <1>1, Invariance, PTL

\* The proposer makes one header per round, whatever it jumps over.
THEOREM OneHeader == Spec => []OneHeaderPerRound
<1>1. IInv => OneHeaderPerRound
  BY DEF IInv
<1>. QED  BY <1>1, Invariance, PTL

\* Every header links a quorum of certificates of the round before.
THEOREM ParentsQuorum == Spec => []HeadersHaveQuorum
<1>1. IInv => HeadersHaveQuorum
  BY DEF IInv
<1>. QED  BY <1>1, Invariance, PTL

\* A primary that sent a no-vote against a leader never links it.
THEOREM NoVoteBinds == Spec => []NoVoteNeverLinks
<1>1. IInv => NoVoteNeverLinks
  BY DEF IInv
<1>. QED  BY <1>1, Invariance, PTL

\* A header that does not link the leader carries the certificates that the
\* other primaries ask for.
THEOREM HeaderAccepted == Spec => []HeaderJustified
<1>1. IInv => HeaderJustified
  BY DEF IInv
<1>. QED  BY <1>1, Invariance, PTL

\* A round's timeout is sent once.
THEOREM TimeoutSentOnce == Spec => []TimeoutOnce
<1>1. IInv => TimeoutOnce
  BY DEF IInv
<1>. QED  BY <1>1, Invariance, PTL
=============================================================================
