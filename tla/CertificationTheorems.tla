----------------------- MODULE CertificationTheorems -----------------------
(***************************************************************************)
(* The safety of the certification of headers, for every committee, every  *)
(* choice of the authorities that restart or stop, and all bounds.         *)
(*                                                                         *)
(* The invariant says what each primary's memory is good for: last_voted   *)
(* covers the votes that its owner sent and did not clean up (MemoryInv),  *)
(* used covers the votes behind the weight (AggregatorInv), and a header   *)
(* that was certified either is the current header, with only later votes  *)
(* in its weight, or is never made again (CertifiedInv).                   *)
(***************************************************************************)
EXTENDS Certification, CommitteeTheorems

\* Nothing but the default header of a core is of round 0.
RoundsInv ==
    /\ \A h \in made : h.round > 0
    /\ \A v \in votes : v.header.round > 0
    /\ \A n \in Authority : \A h \in waiting[n] \cup unsaved[n] : h.round > 0

\* Whose headers are whose, and of which run of their author.
HeadersInv ==
    /\ \A n \in Authority : n \notin Restartable => boot[n] = 0
    /\ \A n \in Authority :
        /\ current_header[n].author = n
        /\ current_header[n].round = 0 => current_header[n].boot = 0 /\ used[n] \subseteq {n}
        /\ current_header[n].round > 0 =>
             current_header[n].boot = boot[n] /\ current_header[n].round = proposed[n]
    /\ \A c \in certificates :
        /\ c.header.round > 0
        /\ c.header.boot <= boot[c.header.author]

\* Every vote that counts, but a primary's own, is for the current header.
AggregatorInv ==
    \A n \in Authority : \A a \in used[n] \ {n} :
        [header |-> current_header[n], voter |-> a] \in votes

\* A primary that does not restart remembers its votes until it cleans up.
MemoryInv ==
    \A v \in votes :
        /\ v.voter \notin Restartable
        /\ gc_round[v.voter] <= v.header.round
        => <<v.header.round, v.header.author>> \in last_voted[v.voter]

\* Once a header has a certificate, its author collects only what is left,
\* and makes no header of that round in the same run.
CertifiedInv ==
    \A c \in certificates : \A n \in Authority : c.header.author = n =>
        /\ c.header.boot = boot[n] => c.header.round <= proposed[n]
        /\ c.header = current_header[n] =>
             c.votes \subseteq used[n] /\ weight[n] <= StakeOf(used[n] \ c.votes)

VotingInv == MemoryInv /\ VoteOnce

CountingInv ==
    /\ HeadersInv
    /\ AggregatorInv
    /\ CertifiedInv
    /\ CertificatesBacked
    /\ QuorumOnce

CInv == TypeOK /\ RoundsInv /\ VotingInv /\ CountingInv

-----------------------------------------------------------------------------
\* Nothing is voted for or certified at the start.
LEMMA InitCInv == Init => CInv
<1>. SUFFICES ASSUME Init PROVE CInv
  OBVIOUS
<1>. USE DEF Init
<1>1. TypeOK
  <2>1. \A n \in Authority : default(n) \in Header
    BY DEF default, Header
  <2>2. \A n \in Authority : weight[n] <= StakeOf(used[n])
    BY StakeEmpty
  <2>. QED  BY <2>1, <2>2 DEF TypeOK
<1>2. RoundsInv /\ VotingInv
  BY DEF RoundsInv, VotingInv, MemoryInv, VoteOnce
<1>3. HeadersInv
  BY DEF HeadersInv, default
<1>4. AggregatorInv /\ CertifiedInv /\ CertificatesBacked /\ QuorumOnce
  BY DEF AggregatorInv, CertifiedInv, CertificatesBacked, QuorumOnce
<1>. QED  BY <1>1, <1>2, <1>3, <1>4 DEF CInv, CountingInv

-----------------------------------------------------------------------------
\* The votes: a vote is cast for one header of an author and round.

\* A clean-up forgets no vote of a round that is kept.
LEMMA CleanUpMemory ==
    ASSUME NEW n \in Authority, NEW voted \in SUBSET (Nat \X Authority),
           TypeOK, CleanUp(n, voted)
    PROVE  /\ gc_round' \in [Authority -> Nat]
           /\ last_voted' \in [Authority -> SUBSET (Nat \X Authority)]
           /\ \A m \in Authority : gc_round[m] <= gc_round'[m]
           /\ \A m \in Authority \ {n} : gc_round'[m] = gc_round[m] /\ last_voted'[m] = last_voted[m]
           /\ \A x \in voted : gc_round'[n] <= x[1] => x \in last_voted'[n]
<1>1. PICK g \in gc_round[n]..MaxGc :
        /\ gc_round' = [gc_round EXCEPT ![n] = g]
        /\ last_voted' = [last_voted EXCEPT ![n] = {x \in voted : x[1] >= g}]
  BY DEF CleanUp
<1>2. gc_round \in [Authority -> Nat] /\ last_voted \in [Authority -> SUBSET (Nat \X Authority)]
  BY DEF TypeOK
<1>3. g \in Nat /\ gc_round[n] <= g
  BY <1>1, <1>2, CertificationAssumption
<1>4. \A x \in voted : x[1] \in Nat
  OBVIOUS
<1>. QED  BY <1>1, <1>2, <1>3, <1>4

\* A vote that is cast is the first one of its author and round.
LEMMA CastVoteStep ==
    ASSUME NEW n \in Authority, NEW h \in Header, h.round > 0,
           TypeOK, VotingInv, CastVote(n, h)
    PROVE  /\ VotingInv'
           /\ votes' = votes \cup {[header |-> h, voter |-> n]}
           /\ votes' \subseteq Vote
           /\ gc_round' \in [Authority -> Nat]
           /\ last_voted' \in [Authority -> SUBSET (Nat \X Authority)]
<1>. DEFINE s == <<h.round, h.author>>
            u == [header |-> h, voter |-> n]
<1>1. s \in Nat \X Authority /\ last_voted[n] \cup {s} \in SUBSET (Nat \X Authority)
  BY DEF Header, TypeOK
<1>2. /\ s \notin last_voted[n]
      /\ votes' = votes \cup {u}
      /\ CleanUp(n, last_voted[n] \cup {s})
  BY DEF CastVote, Voted
<1>3. /\ gc_round' \in [Authority -> Nat]
      /\ last_voted' \in [Authority -> SUBSET (Nat \X Authority)]
      /\ \A m \in Authority : gc_round[m] <= gc_round'[m]
      /\ \A m \in Authority \ {n} : gc_round'[m] = gc_round[m] /\ last_voted'[m] = last_voted[m]
      /\ \A x \in last_voted[n] \cup {s} : gc_round'[n] <= x[1] => x \in last_voted'[n]
  BY <1>1, <1>2, CleanUpMemory
<1>4. u \in Vote
  BY DEF Vote
<1>5. /\ votes \subseteq Vote /\ votes' \subseteq Vote
      /\ gc_round \in [Authority -> Nat]
  BY <1>2, <1>4 DEF TypeOK
<1>6. \A v \in votes' : v.voter \in Authority /\ v.header \in Header
                        /\ v.header.round \in Nat /\ v.header.author \in Authority
  BY <1>5 DEF Vote, Header
<1>7. \A v \in votes :
        v.voter \notin Restartable /\ gc_round'[v.voter] <= v.header.round
          => <<v.header.round, v.header.author>> \in last_voted[v.voter]
  <2>1. \A v \in votes : gc_round'[v.voter] <= v.header.round => gc_round[v.voter] <= v.header.round
    BY <1>2, <1>3, <1>5, <1>6
  <2>. QED  BY <2>1 DEF VotingInv, MemoryInv
<1>8. MemoryInv'
  <2>1. SUFFICES ASSUME NEW v \in votes', v.voter \notin Restartable,
                        gc_round'[v.voter] <= v.header.round
                 PROVE  <<v.header.round, v.header.author>> \in last_voted'[v.voter]
    BY DEF MemoryInv
  <2>2. CASE v \in votes /\ v.voter # n
    BY <2>1, <2>2, <1>3, <1>6, <1>7
  <2>3. CASE v \in votes /\ v.voter = n
    <3>1. <<v.header.round, v.header.author>> \in last_voted[n]
      BY <2>1, <2>3, <1>7
    <3>2. <<v.header.round, v.header.author>>[1] = v.header.round
      OBVIOUS
    <3>. QED  BY <2>1, <2>3, <3>1, <3>2, <1>3
  <2>4. CASE v = u
    <3>1. s[1] = h.round
      OBVIOUS
    <3>. QED  BY <2>1, <2>4, <3>1, <1>3
  <2>. QED  BY <1>2, <2>2, <2>3, <2>4
<1>9. VoteOnce'
  <2>1. SUFFICES ASSUME NEW v \in votes', NEW w \in votes',
                        v.voter = w.voter, v.voter \notin Restartable,
                        SameSlot(v.header, w.header),
                        gc_round'[v.voter] <= v.header.round
                 PROVE  v.header = w.header
    BY DEF VoteOnce, SameSlot
  <2>2. CASE v \in votes /\ w \in votes
    <3>1. gc_round[v.voter] <= v.header.round
      BY <2>1, <1>3, <1>5, <1>6
    <3>. QED  BY <2>1, <2>2, <3>1 DEF VotingInv, VoteOnce
  <2>3. CASE v = u /\ w \in votes
    <3>1. <<w.header.round, w.header.author>> \in last_voted[n]
      BY <2>1, <2>3, <1>7 DEF SameSlot
    <3>. QED  BY <2>1, <2>3, <3>1, <1>2 DEF SameSlot
  <2>4. CASE v \in votes /\ w = u
    <3>1. <<v.header.round, v.header.author>> \in last_voted[n]
      BY <2>1, <2>4, <1>7
    <3>. QED  BY <2>1, <2>4, <3>1, <1>2 DEF SameSlot
  <2>5. CASE v = u /\ w = u
    BY <2>5
  <2>. QED  BY <1>2, <2>2, <2>3, <2>4, <2>5
<1>. QED  BY <1>2, <1>3, <1>5, <1>8, <1>9 DEF VotingInv

\* Without a vote, only a clean-up changes what is remembered.
LEMMA NoVoteStep ==
    ASSUME NEW n \in Authority, TypeOK, VotingInv, NoVote(n)
    PROVE  /\ VotingInv'
           /\ votes' = votes
           /\ gc_round' \in [Authority -> Nat]
           /\ last_voted' \in [Authority -> SUBSET (Nat \X Authority)]
<1>1. votes' = votes /\ CleanUp(n, last_voted[n]) /\ last_voted[n] \in SUBSET (Nat \X Authority)
  BY DEF NoVote, TypeOK
<1>2. /\ gc_round' \in [Authority -> Nat]
      /\ last_voted' \in [Authority -> SUBSET (Nat \X Authority)]
      /\ \A m \in Authority : gc_round[m] <= gc_round'[m]
      /\ \A m \in Authority \ {n} : gc_round'[m] = gc_round[m] /\ last_voted'[m] = last_voted[m]
      /\ \A x \in last_voted[n] : gc_round'[n] <= x[1] => x \in last_voted'[n]
  BY <1>1, CleanUpMemory
<1>3. \A v \in votes : v.voter \in Authority /\ v.header.round \in Nat
  BY DEF TypeOK, Vote, Header
<1>4. \A v \in votes : gc_round'[v.voter] <= v.header.round => gc_round[v.voter] <= v.header.round
  BY <1>2, <1>3 DEF TypeOK
<1>5. MemoryInv'
  <2>1. SUFFICES ASSUME NEW v \in votes, v.voter \notin Restartable,
                        gc_round'[v.voter] <= v.header.round
                 PROVE  <<v.header.round, v.header.author>> \in last_voted'[v.voter]
    BY <1>1 DEF MemoryInv
  <2>2. <<v.header.round, v.header.author>> \in last_voted[v.voter]
    BY <2>1, <1>4 DEF VotingInv, MemoryInv
  <2>3. <<v.header.round, v.header.author>>[1] = v.header.round
    OBVIOUS
  <2>. QED  BY <2>1, <2>2, <2>3, <1>2, <1>3
<1>6. VoteOnce'
  BY <1>1, <1>4 DEF VotingInv, VoteOnce, SameSlot
<1>. QED  BY <1>1, <1>2, <1>5, <1>6 DEF VotingInv

\* The memory of an authority that restarts is not relied on.
LEMMA RebootVoting ==
    ASSUME NEW n \in Authority, TypeOK, VotingInv, Reboot(n), votes' = votes
    PROVE  /\ VotingInv'
           /\ gc_round' \in [Authority -> Nat]
           /\ last_voted' \in [Authority -> SUBSET (Nat \X Authority)]
<1>1. /\ n \in Restartable
      /\ last_voted' = [last_voted EXCEPT ![n] = {}]
      /\ gc_round' = [gc_round EXCEPT ![n] = 0]
      /\ gc_round \in [Authority -> Nat]
      /\ last_voted \in [Authority -> SUBSET (Nat \X Authority)]
  BY DEF Reboot, TypeOK
<1>2. \A m \in Authority \ Restartable : gc_round'[m] = gc_round[m] /\ last_voted'[m] = last_voted[m]
  BY <1>1
<1>3. \A v \in votes : v.voter \in Authority
  BY DEF TypeOK, Vote
<1>4. MemoryInv'
  BY <1>2, <1>3 DEF VotingInv, MemoryInv
<1>5. VoteOnce'
  BY <1>2, <1>3 DEF VotingInv, VoteOnce, SameSlot
<1>. QED  BY <1>1, <1>4, <1>5 DEF VotingInv

-----------------------------------------------------------------------------
\* The certificates: a header gets one, and its voters voted for it.

\* What a header's aggregator counts, and what may complete its quorum.
LEMMA NewCertificate ==
    ASSUME NEW n \in Authority, NEW a \in Authority \ used[n], NEW r,
           TypeOK, CountingInv,
           a = n \/ current_header[n].round > 0,
           Certifies(r, used[n] \cup {a}, weight[n] + StakeOf({a}))
    PROVE  /\ current_header[n].round > 0
           /\ IsQuorum(used[n] \cup {a})
           /\ \A d \in certificates : d.header # current_header[n]
<1>. DEFINE S == used[n]
            w == weight[n] + StakeOf({a})
<1>1. /\ S \in SUBSET Authority /\ S \cup {a} \in SUBSET Authority
      /\ weight[n] \in Nat /\ weight[n] <= StakeOf(S)
      /\ current_header[n] \in Header
  BY DEF TypeOK
<1>2. StakeOf(S) \in Nat /\ StakeOf({a}) \in Nat /\ StakeOf(S \cup {a}) \in Nat
  BY <1>1, StakeType
<1>3. w >= quorum_threshold
  BY DEF Certifies
<1>4. IsQuorum(S \cup {a})
  <2>1. StakeOf(S \cup {a}) = StakeOf(S) + StakeOf({a})
    BY <1>1, StakeAdd
  <2>. QED  BY <2>1, <1>1, <1>2, <1>3, ThresholdTypes DEF IsQuorum
<1>5. current_header[n].round > 0
  <2>1. SUFFICES ASSUME current_header[n].round = 0, a = n
                 PROVE  FALSE
    BY <1>1 DEF Header
  <2>2. S \cup {a} = {n}
    BY <2>1 DEF CountingInv, HeadersInv
  <2>. QED  BY <2>2, <1>4, CertificationAssumption
<1>6. ASSUME NEW d \in certificates, d.header = current_header[n]
      PROVE  FALSE
  <2>1. d.votes \in SUBSET Authority /\ IsQuorum(d.votes)
    BY DEF TypeOK, CountingInv, CertificatesBacked
  <2>2. d.votes \subseteq S /\ weight[n] <= StakeOf(S \ d.votes)
    BY <1>6 DEF CountingInv, CertifiedInv, HeadersInv
  <2>. DEFINE R == S \ d.votes
  <2>3. R \in SUBSET Authority /\ a \notin R /\ R \cup {a} \in SUBSET Authority
    BY <1>1
  <2>4. StakeOf(R \cup {a}) = StakeOf(R) + StakeOf({a})
    BY <2>3, StakeAdd
  <2>5. StakeOf(R) \in Nat
    BY <2>3, StakeType
  <2>6. IsQuorum(R \cup {a})
    BY <2>2, <2>4, <2>5, <1>1, <1>2, <1>3, ThresholdTypes DEF IsQuorum
  <2>7. \E b \in (R \cup {a}) \cap d.votes : TRUE
    <3>1. IsValid((R \cup {a}) \cap d.votes)
      BY <2>1, <2>3, <2>6, QuorumsIntersect
    <3>. QED  BY <3>1, StakeEmpty, ThresholdTypes DEF IsValid
  <2>. QED  BY <2>2, <2>7
<1>. QED  BY <1>4, <1>5, <1>6

\* One more certificate, of a header that had none.
LEMMA OneMore ==
    ASSUME NEW C, NEW e,
           \A c, d \in C : c.header = d.header => c = d,
           \A d \in C : d.header # e.header
    PROVE  \A c, d \in C \cup {e} : c.header = d.header => c = d
OBVIOUS

\* A vote is counted for the current header, and with the certificate, if it
\* completes one, possibly the own vote T again.
LEMMA RecountStep ==
    ASSUME NEW n \in Authority, NEW a \in Authority \ used[n], NEW r,
           TypeOK, CountingInv,
           NEW T \in SUBSET {n}, NEW full \in BOOLEAN,
           full = Certifies(r, used[n] \cup {a}, weight[n] + StakeOf({a})),
           ~full => T = {},
           used' = [used EXCEPT ![n] = used[n] \cup {a} \cup T],
           weight' = [weight EXCEPT ![n] =
                        IF full THEN StakeOf(T \ (used[n] \cup {a})) ELSE weight[n] + StakeOf({a})],
           certificates' = IF full
                             THEN certificates
                                    \cup {[header |-> current_header[n], votes |-> used[n] \cup {a}]}
                             ELSE certificates,
           UNCHANGED <<boot, proposed, current_header>>,
           votes \subseteq votes',
           \/ a = n
           \/ /\ current_header[n].round > 0
              /\ [header |-> current_header[n], voter |-> a] \in votes
    PROVE  /\ CountingInv'
           /\ used' \in [Authority -> SUBSET Authority]
           /\ weight' \in [Authority -> Nat]
           /\ \A m \in Authority : weight'[m] <= StakeOf(used'[m])
           /\ certificates' \subseteq [header : Header, votes : SUBSET Authority]
<1>. DEFINE S    == used[n]
            w    == weight[n] + StakeOf({a})
            U    == T \ (S \cup {a})
            e    == [header |-> current_header[n], votes |-> S \cup {a}]
<1>1. /\ S \in SUBSET Authority /\ S \cup {a} \in SUBSET Authority
      /\ used \in [Authority -> SUBSET Authority]
      /\ weight \in [Authority -> Nat]
      /\ weight[n] <= StakeOf(S)
      /\ current_header \in [Authority -> Header]
      /\ certificates \subseteq [header : Header, votes : SUBSET Authority]
      /\ boot \in [Authority -> Nat] /\ proposed \in [Authority -> Nat]
  BY DEF TypeOK
<1>2. StakeOf(S) \in Nat /\ StakeOf({a}) \in Nat
  BY <1>1, StakeType
<1>3. /\ used' = [used EXCEPT ![n] = S \cup {a} \cup T]
      /\ weight' = [weight EXCEPT ![n] = IF full THEN StakeOf(U) ELSE w]
      /\ certificates' = IF full THEN certificates \cup {e} ELSE certificates
  OBVIOUS
<1>u. U \in SUBSET Authority /\ StakeOf(U) \in Nat /\ S \cup {a} \cup T \in SUBSET Authority
  BY <1>1, StakeType
<1>4. full => /\ current_header[n].round > 0
              /\ IsQuorum(S \cup {a})
              /\ \A d \in certificates : d.header # current_header[n]
  BY NewCertificate
<1>5. current_header[n].author = n
  BY DEF CountingInv, HeadersInv
<1>6. \A b \in (S \cup {a} \cup T) \ {n} : [header |-> current_header[n], voter |-> b] \in votes'
  BY DEF CountingInv, AggregatorInv
<1>7. used'[n] = S \cup {a} \cup T /\ weight'[n] = IF full THEN StakeOf(U) ELSE w
  BY <1>1, <1>3
<1>8. \A m \in Authority \ {n} : used'[m] = used[m] /\ weight'[m] = weight[m]
  BY <1>1, <1>3
<1>9. /\ used' \in [Authority -> SUBSET Authority]
      /\ weight' \in [Authority -> Nat]
      /\ certificates' \subseteq [header : Header, votes : SUBSET Authority]
  <2>1. e \in [header : Header, votes : SUBSET Authority]
    BY <1>1
  <2>2. w \in Nat
    BY <1>1, <1>2
  <2>. HIDE DEF U, w, e
  <2>. QED  BY <1>1, <1>3, <1>u, <2>1, <2>2
<1>10. \A m \in Authority : weight'[m] <= StakeOf(used'[m])
  <2>1. StakeOf(S \cup {a}) = StakeOf(S) + StakeOf({a})
    BY <1>1, StakeAdd
  <2>2. weight'[n] <= StakeOf(used'[n])
    <3>1. CASE full
      <4>1. weight'[n] = StakeOf(U) /\ U \subseteq used'[n]
        <5>. HIDE DEF w
        <5>. QED  BY <3>1, <1>7
      <4>. QED  BY <4>1, <1>7, <1>u, StakeMonotone
    <3>2. CASE ~full
      <4>1. used'[n] = S \cup {a}
        BY <3>2, <1>7
      <4>2. weight'[n] = w
        <5>. HIDE DEF w, U
        <5>. QED  BY <3>2, <1>7
      <4>3. weight[n] \in Nat /\ weight[n] <= StakeOf(S) /\ w = weight[n] + StakeOf({a})
        BY <1>1
      <4>4. w <= StakeOf(S \cup {a})
        <5>. HIDE DEF w, S
        <5>. QED  BY ONLY <4>3, <2>1, <1>2
      <4>5. StakeOf(used'[n]) = StakeOf(S \cup {a})
        BY ONLY <4>1
      <4>. HIDE DEF w, S
      <4>. QED  BY ONLY <4>2, <4>4, <4>5
    <3>. QED  BY <3>1, <3>2
  <2>. QED  BY <2>2, <1>8 DEF TypeOK
<1>11. HeadersInv'
  <2>1. \A c \in certificates' :
          c.header.round > 0 /\ c.header.boot <= boot[c.header.author]
    <3>1. full => e.header.round > 0 /\ e.header.boot <= boot[e.header.author]
      BY <1>1, <1>4, <1>5 DEF CountingInv, HeadersInv, Header
    <3>. QED  BY <3>1, <1>3 DEF CountingInv, HeadersInv
  <2>2. \A m \in Authority : current_header[m].round = 0 => used'[m] \subseteq {m}
    BY <1>7, <1>8 DEF CountingInv, HeadersInv
  <2>. QED  BY <2>1, <2>2 DEF CountingInv, HeadersInv
<1>12. AggregatorInv'
  BY <1>6, <1>7, <1>8 DEF CountingInv, AggregatorInv
<1>13. CertificatesBacked'
  <2>1. full => /\ IsQuorum(e.votes)
                /\ \A b \in e.votes \ {e.header.author} :
                     [header |-> e.header, voter |-> b] \in votes'
    BY <1>4, <1>5, <1>6
  <2>2. \A c \in certificates : /\ IsQuorum(c.votes)
                                /\ \A b \in c.votes \ {c.header.author} :
                                     [header |-> c.header, voter |-> b] \in votes'
    BY DEF CountingInv, CertificatesBacked
  <2>. QED  BY <2>1, <2>2, <1>3 DEF CertificatesBacked
<1>14. CertifiedInv'
  <2>1. SUFFICES ASSUME NEW c \in certificates', NEW m \in Authority, c.header.author = m
                 PROVE  /\ c.header.boot = boot[m] => c.header.round <= proposed[m]
                        /\ c.header = current_header[m] =>
                             c.votes \subseteq used'[m] /\ weight'[m] <= StakeOf(used'[m] \ c.votes)
    BY DEF CertifiedInv
  <2>2. CASE c \in certificates /\ m # n
    BY <2>1, <2>2, <1>8 DEF CountingInv, CertifiedInv
  <2>3. CASE c \in certificates /\ m = n
    <3>1. c.header.boot = boot[m] => c.header.round <= proposed[m]
      BY <2>1, <2>3 DEF CountingInv, CertifiedInv
    <3>2. SUFFICES ASSUME c.header = current_header[n]
                   PROVE  c.votes \subseteq used'[n] /\ weight'[n] <= StakeOf(used'[n] \ c.votes)
      BY <2>3, <3>1
    <3>3. ~full
      BY <2>3, <3>2, <1>4
    <3>4. c.votes \subseteq S /\ weight[n] <= StakeOf(S \ c.votes)
      BY <2>1, <2>3, <3>2 DEF CountingInv, CertifiedInv
    <3>a. used'[n] = S \cup {a}
      BY <3>3, <1>7
    <3>. DEFINE R == S \ c.votes
    <3>5. R \in SUBSET Authority /\ a \notin R /\ used'[n] \ c.votes = R \cup {a}
      BY <3>4, <3>a, <1>1
    <3>6. StakeOf(R \cup {a}) = StakeOf(R) + StakeOf({a}) /\ StakeOf(R) \in Nat
      BY <3>5, StakeAdd, StakeType
    <3>7. c.votes \subseteq used'[n]
      BY <3>4, <1>7
    <3>8. weight'[n] = weight[n] + StakeOf({a}) /\ weight[n] \in Nat
      BY <3>3, <1>1, <1>7
    <3>9. weight'[n] <= StakeOf(R \cup {a})
      BY <3>4, <3>6, <3>8, <1>2
    <3>. QED  BY <3>5, <3>7, <3>9
  <2>4. CASE full /\ c = e
    <3>1. m = n /\ c.header = current_header[n] /\ c.votes = S \cup {a}
      BY <2>1, <2>4, <1>5, <1>7
    <3>2. c.header.round <= proposed[n]
      BY <3>1, <2>4, <1>1, <1>4 DEF CountingInv, HeadersInv
    <3>3. weight'[n] = StakeOf(U)
      <4>. HIDE DEF w, U
      <4>. QED  BY <2>4, <1>7
    <3>4. used'[n] \ c.votes = U /\ c.votes \subseteq used'[n]
      BY <3>1, <1>7
    <3>5. weight'[n] <= StakeOf(used'[n] \ c.votes)
      <4>1. StakeOf(U) <= StakeOf(U)
        BY <1>u
      <4>. HIDE DEF U
      <4>. QED  BY ONLY <3>3, <3>4, <4>1
    <3>. QED  BY <3>1, <3>2, <3>4, <3>5
  <2>5. c \in certificates \/ (full /\ c = e)
    BY <1>3
  <2>. QED  BY <2>2, <2>3, <2>4, <2>5
<1>15. QuorumOnce'
  <2>1. CASE full
    <3>1. \A c, d \in certificates : c.header = d.header => c = d
      BY DEF CountingInv, QuorumOnce
    <3>2. \A d \in certificates : d.header # e.header
      BY <2>1, <1>4
    <3>3. \A c, d \in certificates \cup {e} : c.header = d.header => c = d
      <4>. HIDE DEF e
      <4>. QED  BY <3>1, <3>2, OneMore
    <3>4. certificates' = certificates \cup {e}
      BY <2>1, <1>3
    <3>. QED  BY <3>3, <3>4 DEF QuorumOnce
  <2>2. CASE ~full
    BY <2>2, <1>3 DEF CountingInv, QuorumOnce
  <2>. QED  BY <2>1, <2>2
<1>. QED  BY <1>9, <1>10, <1>11, <1>12, <1>13, <1>14, <1>15 DEF CountingInv

\* A vote is counted for the current header.
LEMMA CountStep ==
    ASSUME NEW n \in Authority, NEW a \in Authority \ used[n], NEW r,
           TypeOK, CountingInv,
           append(n, current_header[n], r, a, used[n], weight[n]),
           UNCHANGED <<boot, proposed, current_header>>,
           votes \subseteq votes',
           \/ a = n
           \/ /\ current_header[n].round > 0
              /\ [header |-> current_header[n], voter |-> a] \in votes
    PROVE  /\ CountingInv'
           /\ used' \in [Authority -> SUBSET Authority]
           /\ weight' \in [Authority -> Nat]
           /\ \A m \in Authority : weight'[m] <= StakeOf(used'[m])
           /\ certificates' \subseteq [header : Header, votes : SUBSET Authority]
<1>. DEFINE S    == used[n] \cup {a}
            full == Certifies(r, S, weight[n] + StakeOf({a}))
            T    == {}
<1>1. /\ used' = [used EXCEPT ![n] = S \cup T]
      /\ weight' = [weight EXCEPT ![n] =
                      IF full THEN StakeOf(T \ S) ELSE weight[n] + StakeOf({a})]
      /\ certificates' = IF full
                           THEN certificates \cup {[header |-> current_header[n], votes |-> S]}
                           ELSE certificates
  <2>1. S \cup T = S /\ StakeOf(T \ S) = 0
    BY StakeEmpty
  <2>. HIDE DEF T
  <2>. QED  BY <2>1 DEF append, Count
<1>2. T \in SUBSET {n} /\ full \in BOOLEAN /\ (~full => T = {})
  BY DEF Certifies
<1>. HIDE DEF T, full
<1>. QED  BY <1>1, <1>2, RecountStep DEF full

\* More votes alone change nothing in what was counted.
LEMMA FrameStep ==
    ASSUME CountingInv, votes \subseteq votes',
           UNCHANGED <<boot, proposed, current_header, used, weight, certificates>>
    PROVE  CountingInv'
<1>1. AggregatorInv' /\ CertificatesBacked'
  BY DEF CountingInv, AggregatorInv, CertificatesBacked
<1>2. HeadersInv' /\ CertifiedInv' /\ QuorumOnce'
  BY DEF CountingInv, HeadersInv, CertifiedInv, QuorumOnce
<1>. QED  BY <1>1, <1>2 DEF CountingInv

\* A new header starts with a new aggregator.
LEMMA NewHeaderStep ==
    ASSUME NEW n \in Authority, NEW r \in Nat, r > proposed[n], NEW S \in SUBSET {n},
           TypeOK, CountingInv, votes \subseteq votes',
           boot' = boot, certificates' = certificates,
           proposed' = [proposed EXCEPT ![n] = r],
           current_header' = [current_header EXCEPT ![n] =
                                [author |-> n, round |-> r, boot |-> boot[n]]],
           used' = [used EXCEPT ![n] = S],
           weight' = [weight EXCEPT ![n] = StakeOf(S)]
    PROVE  /\ CountingInv'
           /\ proposed' \in [Authority -> Nat]
           /\ current_header' \in [Authority -> Header]
           /\ used' \in [Authority -> SUBSET Authority]
           /\ weight' \in [Authority -> Nat]
           /\ \A m \in Authority : weight'[m] <= StakeOf(used'[m])
<1>. DEFINE h == [author |-> n, round |-> r, boot |-> boot[n]]
<1>1. /\ boot \in [Authority -> Nat] /\ proposed \in [Authority -> Nat]
      /\ current_header \in [Authority -> Header]
      /\ used \in [Authority -> SUBSET Authority] /\ weight \in [Authority -> Nat]
      /\ S \in SUBSET Authority
  BY DEF TypeOK
<1>2. StakeOf(S) \in Nat
  BY <1>1, StakeType
<1>3. h \in Header /\ h.author = n /\ h.round = r /\ h.boot = boot[n]
  BY <1>1 DEF Header
<1>4. /\ current_header'[n] = h /\ used'[n] = S /\ weight'[n] = StakeOf(S) /\ proposed'[n] = r
      /\ \A m \in Authority \ {n} :
           /\ current_header'[m] = current_header[m] /\ used'[m] = used[m]
           /\ weight'[m] = weight[m] /\ proposed'[m] = proposed[m]
  BY <1>1
<1>5. /\ proposed' \in [Authority -> Nat]
      /\ current_header' \in [Authority -> Header]
      /\ used' \in [Authority -> SUBSET Authority]
      /\ weight' \in [Authority -> Nat]
  BY <1>1, <1>2, <1>3
<1>6. \A m \in Authority : weight'[m] <= StakeOf(used'[m])
  BY <1>2, <1>4 DEF TypeOK
<1>7. r > 0
  BY <1>1
<1>8. HeadersInv'
  <2>1. \A c \in certificates' :
          c.header.round > 0 /\ c.header.boot <= boot'[c.header.author]
    BY DEF CountingInv, HeadersInv
  <2>2. ASSUME NEW m \in Authority
        PROVE  /\ current_header'[m].author = m
               /\ current_header'[m].round = 0 => current_header'[m].boot = 0 /\ used'[m] \subseteq {m}
               /\ current_header'[m].round > 0 =>
                    current_header'[m].boot = boot[m] /\ current_header'[m].round = proposed'[m]
    <3>. HIDE DEF h
    <3>1. CASE m = n
      BY ONLY <3>1, <1>3, <1>4, <1>7, r \in Nat
    <3>2. CASE m # n
      BY <3>2, <1>4 DEF CountingInv, HeadersInv
    <3>. QED  BY <3>1, <3>2
  <2>. QED  BY <2>1, <2>2 DEF CountingInv, HeadersInv
<1>9. AggregatorInv'
  BY <1>4 DEF CountingInv, AggregatorInv
<1>10. CertificatesBacked' /\ QuorumOnce'
  BY DEF CountingInv, CertificatesBacked, QuorumOnce
<1>11. CertifiedInv'
  <2>1. SUFFICES ASSUME NEW c \in certificates, NEW m \in Authority, c.header.author = m
                 PROVE  /\ c.header.boot = boot[m] => c.header.round <= proposed'[m]
                        /\ c.header = current_header'[m] =>
                             c.votes \subseteq used'[m] /\ weight'[m] <= StakeOf(used'[m] \ c.votes)
    BY DEF CertifiedInv
  <2>2. c.header.boot = boot[m] => c.header.round <= proposed[m]
    BY <2>1 DEF CountingInv, CertifiedInv
  <2>3. CASE m # n
    <3>. HIDE DEF h
    <3>1. /\ proposed'[m] = proposed[m] /\ current_header'[m] = current_header[m]
          /\ used'[m] = used[m] /\ weight'[m] = weight[m]
      BY <2>3, <1>4
    <3>2. c.header = current_header[m] =>
            c.votes \subseteq used[m] /\ weight[m] <= StakeOf(used[m] \ c.votes)
      BY <2>1 DEF CountingInv, CertifiedInv
    <3>. QED  BY <2>2, <3>1, <3>2
  <2>4. CASE m = n
    <3>1. c.header.round \in Nat
      BY DEF TypeOK, Header
    <3>2. c.header # h
      BY <2>2, <2>4, <3>1, <1>1, <1>3
    <3>. QED  BY <2>2, <2>4, <3>1, <3>2, <1>1, <1>4
  <2>. QED  BY <2>3, <2>4
<1>. QED  BY <1>5, <1>6, <1>8, <1>9, <1>10, <1>11 DEF CountingInv

\* A restarted primary starts with a new run, whose headers are new.
LEMMA RebootStep ==
    ASSUME NEW n \in Authority, Reboot(n), TypeOK, CountingInv, votes' = votes,
           CertificatesBacked', QuorumOnce',
           \A c \in certificates' : c \in certificates \/ c.header = current_header[n],
           \A c \in certificates' : c.header.round > 0
    PROVE  /\ CountingInv'
           /\ boot' \in [Authority -> Nat]
           /\ proposed' \in [Authority -> Nat]
           /\ current_header' \in [Authority -> Header]
           /\ used' \in [Authority -> SUBSET Authority]
           /\ weight' \in [Authority -> Nat]
           /\ \A m \in Authority : weight'[m] <= StakeOf(used'[m])
<1>1. /\ boot \in [Authority -> Nat] /\ proposed \in [Authority -> Nat]
      /\ current_header \in [Authority -> Header]
      /\ used \in [Authority -> SUBSET Authority] /\ weight \in [Authority -> Nat]
  BY DEF TypeOK
<1>2. default(n) \in Header /\ default(n).round = 0 /\ default(n).author = n /\ default(n).boot = 0
  BY DEF default, Header
<1>3. /\ n \in Restartable
      /\ boot'[n] = boot[n] + 1 /\ proposed'[n] = 0
      /\ current_header'[n] = default(n) /\ used'[n] = {} /\ weight'[n] = 0
      /\ \A m \in Authority \ {n} :
           /\ boot'[m] = boot[m] /\ proposed'[m] = proposed[m]
           /\ current_header'[m] = current_header[m] /\ used'[m] = used[m] /\ weight'[m] = weight[m]
  BY <1>1 DEF Reboot
<1>4. /\ boot' \in [Authority -> Nat]
      /\ proposed' \in [Authority -> Nat]
      /\ current_header' \in [Authority -> Header]
      /\ used' \in [Authority -> SUBSET Authority]
      /\ weight' \in [Authority -> Nat]
  <2>1. boot[n] + 1 \in Nat
    BY <1>1
  <2>2. boot' \in [Authority -> Nat] /\ proposed' \in [Authority -> Nat]
    BY <2>1, <1>1 DEF Reboot
  <2>3. current_header' \in [Authority -> Header]
    BY <1>1, <1>2 DEF Reboot
  <2>4. used' \in [Authority -> SUBSET Authority] /\ weight' \in [Authority -> Nat]
    BY <1>1 DEF Reboot
  <2>. QED  BY <2>2, <2>3, <2>4
<1>5. \A m \in Authority : weight'[m] <= StakeOf(used'[m])
  <2>1. weight'[n] <= StakeOf(used'[n])
    BY <1>3, StakeEmpty
  <2>2. \A m \in Authority \ {n} : weight'[m] <= StakeOf(used'[m])
    BY <1>3 DEF TypeOK
  <2>. QED  BY <2>1, <2>2
<1>6. \A c \in certificates' :
        /\ c.header \in Header
        /\ c.header.boot <= boot[c.header.author]
  <2>1. current_header[n] \in Header /\ current_header[n].author = n
    BY <1>1 DEF CountingInv, HeadersInv
  <2>2. \A c \in certificates : c.header \in Header
    BY DEF TypeOK
  <2>3. current_header[n].boot <= boot[n]
    BY <1>1, <2>1 DEF CountingInv, HeadersInv, Header
  <2>. QED  BY <2>1, <2>2, <2>3 DEF CountingInv, HeadersInv
<1>7. \A c \in certificates' : c.header.boot <= boot'[c.header.author]
  <2>1. SUFFICES ASSUME NEW c \in certificates'
                 PROVE  c.header.boot <= boot'[c.header.author]
    OBVIOUS
  <2>2. c.header.author \in Authority /\ c.header.boot \in Nat
    BY <1>6 DEF Header
  <2>. QED  BY <2>2, <1>1, <1>3, <1>6
<1>8. \A m \in Authority :
        /\ current_header'[m].author = m
        /\ current_header'[m].round = 0 => current_header'[m].boot = 0 /\ used'[m] \subseteq {m}
        /\ current_header'[m].round > 0 =>
             current_header'[m].boot = boot'[m] /\ current_header'[m].round = proposed'[m]
  BY <1>2, <1>3 DEF CountingInv, HeadersInv
<1>9. HeadersInv'
  BY <1>3, <1>7, <1>8 DEF CountingInv, HeadersInv
<1>10. AggregatorInv'
  BY <1>3 DEF CountingInv, AggregatorInv
<1>11. CertifiedInv'
  <2>1. SUFFICES ASSUME NEW c \in certificates', NEW m \in Authority, c.header.author = m
                 PROVE  /\ c.header.boot = boot'[m] => c.header.round <= proposed'[m]
                        /\ c.header = current_header'[m] =>
                             c.votes \subseteq used'[m] /\ weight'[m] <= StakeOf(used'[m] \ c.votes)
    BY DEF CertifiedInv
  <2>2. CASE m # n
    <3>1. c \in certificates
      BY <2>1, <2>2 DEF CountingInv, HeadersInv
    <3>2. /\ boot'[m] = boot[m] /\ proposed'[m] = proposed[m]
          /\ current_header'[m] = current_header[m]
          /\ used'[m] = used[m] /\ weight'[m] = weight[m]
      BY <2>2, <1>3
    <3>3. /\ c.header.boot = boot[m] => c.header.round <= proposed[m]
          /\ c.header = current_header[m] =>
               c.votes \subseteq used[m] /\ weight[m] <= StakeOf(used[m] \ c.votes)
      BY <2>1, <3>1 DEF CountingInv, CertifiedInv
    <3>. QED  BY ONLY <3>2, <3>3
  <2>3. CASE m = n
    <3>1. c.header.boot # boot'[n]
      BY <2>1, <2>3, <1>1, <1>3, <1>6 DEF Header
    <3>2. c.header # default(n)
      BY <1>2
    <3>. QED  BY <2>3, <3>1, <3>2, <1>3
  <2>. QED  BY <2>2, <2>3
<1>. QED  BY <1>4, <1>5, <1>9, <1>10, <1>11 DEF CountingInv

-----------------------------------------------------------------------------
(***************************************************************************)
(* One step for each action.                                               *)
(***************************************************************************)

\* A new own header, voted for or not.
LEMMA OwnHeaderCInv ==
    ASSUME CInv, NEW n \in Authority, NEW r \in 1..MaxRound, process_own_header(n, r)
    PROVE  CInv'
<1>. USE DEF CInv
<1>. DEFINE h == [author |-> n, round |-> r, boot |-> boot[n]]
<1>1. r \in Nat /\ r > 0
  OBVIOUS
<1>2. h \in Header /\ h.round = r
  BY <1>1 DEF Header, TypeOK
<1>3. /\ r > proposed[n]
      /\ proposed' = [proposed EXCEPT ![n] = r]
      /\ made' = made \cup {h}
      /\ current_header' = [current_header EXCEPT ![n] = h]
      /\ UNCHANGED <<boot, down, waiting, unsaved>>
  BY DEF process_own_header
<1>4. /\ VotingInv'
      /\ votes' \subseteq Vote
      /\ votes \subseteq votes'
      /\ \A v \in votes' : v \in votes \/ v.header = h
      /\ gc_round' \in [Authority -> Nat]
      /\ last_voted' \in [Authority -> SUBSET (Nat \X Authority)]
  <2>1. CASE CastVote(n, h)
    BY <1>1, <1>2, <2>1, CastVoteStep
  <2>2. CASE NoVote(n)
    BY <2>2, NoVoteStep DEF TypeOK
  <2>. QED  BY <2>1, <2>2 DEF process_own_header
<1>5. certificates' = certificates
      /\ \E S \in SUBSET {n} : /\ used' = [used EXCEPT ![n] = S]
                               /\ weight' = [weight EXCEPT ![n] = StakeOf(S)]
  <2>1. CASE append(n, h, r, n, {}, 0)
    <3>1. StakeOf({n}) \in Nat /\ {} \cup {n} = {n}
      BY StakeType
    <3>2. ~Certifies(r, {} \cup {n}, 0 + StakeOf({n}))
      BY <3>1, CertificationAssumption DEF Certifies, IsQuorum
    <3>3. certificates' = certificates
      BY <2>1, <3>2 DEF append
    <3>4. used' = [used EXCEPT ![n] = {n}]
      BY <2>1, <3>1 DEF append, Count
    <3>5. weight' = [weight EXCEPT ![n] = StakeOf({n})]
      <4>1. 0 + StakeOf({n}) = StakeOf({n})
        BY <3>1
      <4>2. weight' = [weight EXCEPT ![n] = 0 + StakeOf({n})]
        BY <2>1, <3>2 DEF append, Count
      <4>. QED  BY <4>1, <4>2
    <3>. QED  BY <3>3, <3>4, <3>5
  <2>2. CASE /\ used' = [used EXCEPT ![n] = {}]
             /\ weight' = [weight EXCEPT ![n] = 0]
             /\ UNCHANGED certificates
    BY <2>2, StakeEmpty
  <2>. QED  BY <2>1, <2>2 DEF process_own_header
<1>6. /\ CountingInv'
      /\ proposed' \in [Authority -> Nat]
      /\ current_header' \in [Authority -> Header]
      /\ used' \in [Authority -> SUBSET Authority]
      /\ weight' \in [Authority -> Nat]
      /\ \A m \in Authority : weight'[m] <= StakeOf(used'[m])
  BY <1>1, <1>3, <1>4, <1>5, NewHeaderStep
<1>7. TypeOK'
  <2>1. /\ boot' \in [Authority -> Nat] /\ down' \subseteq Authority
        /\ waiting' \in [Authority -> SUBSET Header] /\ unsaved' \in [Authority -> SUBSET Header]
        /\ made' \subseteq Header
        /\ certificates' \subseteq [header : Header, votes : SUBSET Authority]
    BY <1>2, <1>3, <1>5 DEF TypeOK
  <2>. QED  BY <2>1, <1>4, <1>6 DEF TypeOK
<1>8. RoundsInv'
  BY <1>1, <1>2, <1>3, <1>4 DEF RoundsInv
<1>. QED  BY <1>4, <1>6, <1>7, <1>8

\* A header of another primary, or one that comes back: a vote or none.
LEMMA ForeignHeaderCInv ==
    ASSUME CInv, NEW n \in Authority, NEW h \in Header, h.round > 0,
           CastVote(n, h) \/ NoVote(n),
           waiting' \in [Authority -> SUBSET Header],
           \A m \in Authority : waiting'[m] \subseteq waiting[m] \cup {h},
           UNCHANGED <<boot, down, proposed, current_header, used, weight, unsaved,
                       made, certificates>>
    PROVE  CInv'
<1>. USE DEF CInv
<1>1. /\ VotingInv'
      /\ votes' \subseteq Vote
      /\ votes \subseteq votes'
      /\ \A v \in votes' : v \in votes \/ v.header = h
      /\ gc_round' \in [Authority -> Nat]
      /\ last_voted' \in [Authority -> SUBSET (Nat \X Authority)]
  <2>1. CASE CastVote(n, h)
    BY <2>1, CastVoteStep
  <2>2. CASE NoVote(n)
    BY <2>2, NoVoteStep DEF TypeOK
  <2>. QED  BY <2>1, <2>2
<1>2. CountingInv'
  BY <1>1, FrameStep
<1>3. TypeOK'
  BY <1>1 DEF TypeOK
<1>4. RoundsInv'
  BY <1>1 DEF RoundsInv
<1>. QED  BY <1>1, <1>2, <1>3, <1>4

\* A vote from another primary.
LEMMA VoteCInv ==
    ASSUME CInv, NEW n \in Authority, NEW v \in votes, process_vote(n, v)
    PROVE  CInv'
<1>. USE DEF CInv
<1>1. /\ v.header = current_header[n] /\ v.voter \in Authority \ used[n]
      /\ v = [header |-> current_header[n], voter |-> v.voter]
      /\ current_header[n].round > 0
  BY DEF process_vote, Expected, TypeOK, Vote, RoundsInv
<1>2. /\ append(n, current_header[n], v.header.round, v.voter, used[n], weight[n])
      /\ NoVote(n)
      /\ UNCHANGED <<boot, down, proposed, current_header, waiting, unsaved, made>>
  BY DEF process_vote
<1>3. /\ VotingInv'
      /\ votes' = votes
      /\ gc_round' \in [Authority -> Nat]
      /\ last_voted' \in [Authority -> SUBSET (Nat \X Authority)]
  BY <1>2, NoVoteStep
<1>4. /\ CountingInv'
      /\ used' \in [Authority -> SUBSET Authority]
      /\ weight' \in [Authority -> Nat]
      /\ \A m \in Authority : weight'[m] <= StakeOf(used'[m])
      /\ certificates' \subseteq [header : Header, votes : SUBSET Authority]
  BY <1>1, <1>2, <1>3, CountStep
<1>5. TypeOK'
  BY <1>2, <1>3, <1>4 DEF TypeOK
<1>6. RoundsInv'
  BY <1>2, <1>3 DEF RoundsInv
<1>. QED  BY <1>3, <1>4, <1>5, <1>6

\* A vote that completes the certificate of a header of a round cleaned up.
LEMMA VoteAgainCInv ==
    ASSUME CInv, NEW n \in Authority, NEW v \in votes, process_vote_again(n, v)
    PROVE  CInv'
<1>. USE DEF CInv
<1>. DEFINE a == v.voter
            voters == used[n] \cup {a}
            full == Certifies(v.header.round, voters, weight[n] + StakeOf({a}))
            T == {n}
<1>1. /\ v.header = current_header[n] /\ a \in Authority \ used[n]
      /\ v = [header |-> current_header[n], voter |-> a]
      /\ current_header[n].round > 0 /\ v.header \in Header
  BY DEF process_vote_again, Expected, TypeOK, Vote, RoundsInv
<1>2. /\ full
      /\ certificates' = certificates \cup {[header |-> v.header, votes |-> voters]}
      /\ used' = [used EXCEPT ![n] = voters \cup {n}]
      /\ weight' = [weight EXCEPT ![n] = StakeOf({n} \ voters)]
      /\ UNCHANGED <<boot, proposed, current_header, waiting, made>>
  BY DEF process_vote_again, Recertifies
<1>3. \/ /\ CastVote(n, v.header)
         /\ UNCHANGED <<down, unsaved>>
      \/ /\ down' = down \cup {n}
         /\ unsaved' = [unsaved EXCEPT ![n] = @ \cup {v.header}]
         /\ UNCHANGED <<last_voted, gc_round, votes>>
  BY DEF process_vote_again
<1>4. /\ VotingInv'
      /\ votes \subseteq votes' /\ votes' \subseteq Vote
      /\ \A w \in votes' : w \in votes \/ w.header = v.header
      /\ gc_round' \in [Authority -> Nat]
      /\ last_voted' \in [Authority -> SUBSET (Nat \X Authority)]
  <2>1. CASE CastVote(n, v.header)
    BY <1>1, <2>1, CastVoteStep
  <2>2. CASE UNCHANGED <<last_voted, gc_round, votes>>
    <3>1. VotingInv'
      BY <2>2 DEF VotingInv, MemoryInv, VoteOnce, SameSlot
    <3>. QED  BY <2>2, <3>1 DEF TypeOK
  <2>. QED  BY <1>3, <2>1, <2>2
<1>5. /\ CountingInv'
      /\ used' \in [Authority -> SUBSET Authority]
      /\ weight' \in [Authority -> Nat]
      /\ \A m \in Authority : weight'[m] <= StakeOf(used'[m])
      /\ certificates' \subseteq [header : Header, votes : SUBSET Authority]
  <2>1. /\ used' = [used EXCEPT ![n] = used[n] \cup {a} \cup T]
        /\ weight' = [weight EXCEPT ![n] =
                        IF full THEN StakeOf(T \ (used[n] \cup {a})) ELSE weight[n] + StakeOf({a})]
        /\ certificates' = IF full
                             THEN certificates
                                    \cup {[header |-> current_header[n], votes |-> used[n] \cup {a}]}
                             ELSE certificates
    <3>. HIDE DEF full
    <3>. QED  BY <1>1, <1>2
  <2>2. full \in BOOLEAN /\ (~full => T = {}) /\ T \in SUBSET {n}
    BY <1>2 DEF Certifies
  <2>3. [header |-> current_header[n], voter |-> a] \in votes
    BY <1>1
  <2>4. full = Certifies(v.header.round, used[n] \cup {a}, weight[n] + StakeOf({a}))
    OBVIOUS
  <2>5. UNCHANGED <<boot, proposed, current_header>> /\ TypeOK /\ CountingInv
    BY <1>2
  <2>. HIDE DEF full, T, a, voters, CInv
  <2>. QED  BY <1>1, <1>4, <2>1, <2>2, <2>3, <2>4, <2>5, RecountStep
<1>6. down' \subseteq Authority /\ unsaved' \in [Authority -> SUBSET Header]
      /\ \A m \in Authority : unsaved'[m] \subseteq unsaved[m] \cup {v.header}
  BY <1>1, <1>3 DEF TypeOK
<1>. HIDE DEF a, voters, full, T
<1>7. TypeOK'
  BY <1>2, <1>4, <1>5, <1>6 DEF TypeOK
<1>8. RoundsInv'
  BY <1>1, <1>2, <1>4, <1>6 DEF RoundsInv
<1>. QED  BY <1>4, <1>5, <1>7, <1>8

\* A lost certificate that comes back: nothing, a vote or a panic.
LEMMA LostCertificateCInv ==
    ASSUME CInv, NEW n \in Authority, NEW h \in unsaved[n], process_lost_certificate(n, h)
    PROVE  CInv'
<1>. USE DEF CInv
<1>1. h \in Header /\ h.round > 0
  BY DEF TypeOK, RoundsInv
<1>2. UNCHANGED <<boot, proposed, current_header, waiting, made>>
  BY DEF process_lost_certificate
<1>3. CASE /\ NoVote(n)
           /\ unsaved' = [unsaved EXCEPT ![n] = @ \ {h}]
           /\ UNCHANGED <<down, used, weight, certificates>>
  <2>1. /\ VotingInv'
        /\ votes' = votes
        /\ gc_round' \in [Authority -> Nat]
        /\ last_voted' \in [Authority -> SUBSET (Nat \X Authority)]
    BY <1>3, NoVoteStep
  <2>2. CountingInv'
    BY <1>2, <1>3, <2>1, FrameStep
  <2>3. TypeOK' /\ RoundsInv'
    BY <1>2, <1>3, <2>1 DEF TypeOK, RoundsInv
  <2>. QED  BY <2>1, <2>2, <2>3
<1>4. CASE /\ CastVote(n, h)
           /\ n \notin used[n]
           /\ append(n, current_header[n], h.round, n, used[n], weight[n])
           /\ \/ /\ Recertifies(n, h.round, n)
                 /\ down' = down \cup {n}
                 /\ unsaved' = [unsaved EXCEPT ![n] = @ \cup {current_header[n]}]
              \/ /\ unsaved' = [unsaved EXCEPT ![n] = @ \ {h}]
                 /\ UNCHANGED down
  <2>1. /\ VotingInv'
        /\ votes' = votes \cup {[header |-> h, voter |-> n]}
        /\ votes' \subseteq Vote
        /\ gc_round' \in [Authority -> Nat]
        /\ last_voted' \in [Authority -> SUBSET (Nat \X Authority)]
    BY <1>1, <1>4, CastVoteStep
  <2>2. /\ CountingInv'
        /\ used' \in [Authority -> SUBSET Authority]
        /\ weight' \in [Authority -> Nat]
        /\ \A m \in Authority : weight'[m] <= StakeOf(used'[m])
        /\ certificates' \subseteq [header : Header, votes : SUBSET Authority]
    BY <1>2, <1>4, <2>1, CountStep
  <2>a. Recertifies(n, h.round, n) => current_header[n].round > 0
    BY <1>4, NewCertificate DEF Recertifies
  <2>b. /\ down' \subseteq Authority /\ unsaved' \in [Authority -> SUBSET Header]
        /\ \A m \in Authority : \A g \in unsaved'[m] : g \in unsaved[m] \/ g.round > 0
    <3>. HIDE DEF Recertifies
    <3>. QED  BY <1>4, <2>a DEF TypeOK
  <2>3. TypeOK'
    BY <1>2, <2>1, <2>2, <2>b DEF TypeOK
  <2>4. RoundsInv'
    BY <1>1, <1>2, <2>1, <2>b DEF RoundsInv, TypeOK
  <2>. QED  BY <2>1, <2>2, <2>3, <2>4
<1>5. CASE /\ down' = down \cup {n}
           /\ UNCHANGED <<used, weight, last_voted, gc_round, unsaved, votes, certificates>>
  <2>1. CountingInv'
    BY <1>2, <1>5, FrameStep
  <2>2. TypeOK' /\ RoundsInv'
    BY <1>2, <1>5 DEF TypeOK, RoundsInv
  <2>3. VotingInv'
    BY <1>5 DEF VotingInv, MemoryInv, VoteOnce, SameSlot
  <2>. QED  BY <2>1, <2>2, <2>3
<1>. QED
  <2>. HIDE DEF CInv, Recertifies
  <2>. QED  BY <1>3, <1>4, <1>5 DEF process_lost_certificate

\* A restart.
LEMMA RestartCInv ==
    ASSUME CInv, NEW n \in Authority, Restart(n)
    PROVE  CInv'
<1>. USE DEF CInv
<1>1. Reboot(n) /\ UNCHANGED <<unsaved, made, votes, certificates>>
  BY DEF Restart, network
<1>2. CertificatesBacked' /\ QuorumOnce' /\ \A c \in certificates' : c.header.round > 0
  BY <1>1 DEF CountingInv, CertificatesBacked, QuorumOnce, HeadersInv
<1>3. /\ CountingInv'
      /\ boot' \in [Authority -> Nat]
      /\ proposed' \in [Authority -> Nat]
      /\ current_header' \in [Authority -> Header]
      /\ used' \in [Authority -> SUBSET Authority]
      /\ weight' \in [Authority -> Nat]
      /\ \A m \in Authority : weight'[m] <= StakeOf(used'[m])
  BY <1>1, <1>2, RebootStep
<1>4. /\ VotingInv'
      /\ gc_round' \in [Authority -> Nat]
      /\ last_voted' \in [Authority -> SUBSET (Nat \X Authority)]
  BY <1>1, RebootVoting
<1>5. down' \subseteq Authority /\ waiting' = [waiting EXCEPT ![n] = {}]
  BY <1>1 DEF Reboot, TypeOK
<1>6. TypeOK'
  BY <1>1, <1>3, <1>4, <1>5 DEF TypeOK
<1>7. RoundsInv'
  BY <1>1, <1>5 DEF RoundsInv, TypeOK
<1>. QED  BY <1>3, <1>4, <1>6, <1>7

\* A restart in the middle of process_vote: the certificate is out already.
LEMMA RestartBeforeStoreCInv ==
    ASSUME CInv, NEW n \in Authority, NEW v \in votes, RestartBeforeStore(n, v)
    PROVE  CInv'
<1>. USE DEF CInv
<1>. DEFINE S == used[n] \cup {v.voter}
            e == [header |-> v.header, votes |-> S]
<1>1. /\ v.header = current_header[n] /\ v.voter \in Authority \ used[n]
      /\ v.header \in Header /\ v.header.round > 0
      /\ v = [header |-> current_header[n], voter |-> v.voter]
      /\ S \in SUBSET Authority
  BY DEF RestartBeforeStore, Expected, TypeOK, Vote, RoundsInv
<1>2. /\ Reboot(n)
      /\ certificates' = certificates \cup {e}
      /\ unsaved' = [unsaved EXCEPT ![n] = @ \cup {v.header}]
      /\ made' = made /\ votes' = votes
      /\ Certifies(v.header.round, S, weight[n] + StakeOf({v.voter}))
  BY DEF RestartBeforeStore
<1>3. IsQuorum(S) /\ \A d \in certificates : d.header # v.header
  BY <1>1, <1>2, NewCertificate
<1>4. CertificatesBacked'
  <2>1. v.header.author = n
    BY <1>1 DEF CountingInv, HeadersInv
  <2>2. \A a \in e.votes \ {e.header.author} : [header |-> e.header, voter |-> a] \in votes'
    <3>1. \A a \in used[n] \ {n} : [header |-> current_header[n], voter |-> a] \in votes
      BY DEF CountingInv, AggregatorInv
    <3>2. \A a \in S \ {n} : a \in used[n] \ {n} \/ a = v.voter
      OBVIOUS
    <3>3. [header |-> current_header[n], voter |-> v.voter] \in votes
      BY <1>1
    <3>4. e.votes = S /\ e.header = current_header[n] /\ e.header.author = n
      BY <1>1, <2>1
    <3>. QED  BY <3>1, <3>2, <3>3, <3>4, <1>2
  <2>3. \A c \in certificates :
          /\ IsQuorum(c.votes)
          /\ \A a \in c.votes \ {c.header.author} : [header |-> c.header, voter |-> a] \in votes'
    BY <1>2 DEF CountingInv, CertificatesBacked
  <2>4. IsQuorum(e.votes)
    BY <1>3
  <2>. QED  BY <1>2, <2>2, <2>3, <2>4 DEF CertificatesBacked
<1>5. QuorumOnce'
  <2>1. \A c, d \in certificates : c.header = d.header => c = d
    BY DEF CountingInv, QuorumOnce
  <2>2. \A d \in certificates : d.header # e.header
    BY <1>3
  <2>3. \A c, d \in certificates \cup {e} : c.header = d.header => c = d
    <3>. HIDE DEF e
    <3>. QED  BY <2>1, <2>2, OneMore
  <2>. QED  BY <1>2, <2>3 DEF QuorumOnce
<1>6. \A c \in certificates' : /\ c \in certificates \/ c.header = current_header[n]
                               /\ c.header.round > 0
  BY <1>1, <1>2 DEF CountingInv, HeadersInv
<1>7. /\ CountingInv'
      /\ boot' \in [Authority -> Nat]
      /\ proposed' \in [Authority -> Nat]
      /\ current_header' \in [Authority -> Header]
      /\ used' \in [Authority -> SUBSET Authority]
      /\ weight' \in [Authority -> Nat]
      /\ \A m \in Authority : weight'[m] <= StakeOf(used'[m])
  BY <1>2, <1>4, <1>5, <1>6, RebootStep
<1>8. /\ VotingInv'
      /\ gc_round' \in [Authority -> Nat]
      /\ last_voted' \in [Authority -> SUBSET (Nat \X Authority)]
  BY <1>2, RebootVoting
<1>9. /\ down' \subseteq Authority /\ waiting' = [waiting EXCEPT ![n] = {}]
      /\ certificates' \subseteq [header : Header, votes : SUBSET Authority]
      /\ unsaved' \in [Authority -> SUBSET Header]
      /\ waiting' \in [Authority -> SUBSET Header]
  BY <1>1, <1>2 DEF Reboot, TypeOK
<1>10. TypeOK'
  BY <1>2, <1>7, <1>8, <1>9 DEF TypeOK
<1>11. RoundsInv'
  BY <1>1, <1>2, <1>9 DEF RoundsInv, TypeOK
<1>. QED  BY <1>7, <1>8, <1>10, <1>11

\* The invariant is inductive.
LEMMA NextCInv == CInv /\ [Next]_vars => CInv'
<1>. SUFFICES ASSUME CInv, [Next]_vars PROVE CInv'
  OBVIOUS
<1>. USE DEF CInv
<1>1. CASE UNCHANGED vars
  <2>1. CountingInv'
    BY <1>1, FrameStep DEF vars, core, network
  <2>2. TypeOK' /\ RoundsInv'
    BY <1>1 DEF vars, core, network, TypeOK, RoundsInv
  <2>3. VotingInv'
    BY <1>1 DEF vars, core, network, VotingInv, MemoryInv, VoteOnce, SameSlot
  <2>. QED  BY <2>1, <2>2, <2>3
<1>2. ASSUME NEW n \in Authority, NEW r \in 1..MaxRound, process_own_header(n, r)
      PROVE  CInv'
  BY <1>2, OwnHeaderCInv
<1>3. ASSUME NEW n \in Authority, NEW h \in made, process_header(n, h)
      PROVE  CInv'
  <2>1. h \in Header /\ h.round > 0
    BY DEF TypeOK, RoundsInv
  <2>2. waiting' = waiting \/ waiting' = [waiting EXCEPT ![n] = @ \cup {h}]
    BY <1>3 DEF process_header
  <2>3. waiting' \in [Authority -> SUBSET Header]
        /\ \A m \in Authority : waiting'[m] \subseteq waiting[m] \cup {h}
    BY <2>1, <2>2 DEF TypeOK
  <2>. QED  BY <1>3, <2>1, <2>3, ForeignHeaderCInv DEF process_header
<1>4. ASSUME NEW n \in Authority, NEW h \in waiting[n], loopback(n, h)
      PROVE  CInv'
  <2>1. h \in Header /\ h.round > 0
    BY DEF TypeOK, RoundsInv
  <2>2. waiting' \in [Authority -> SUBSET Header]
        /\ \A m \in Authority : waiting'[m] \subseteq waiting[m] \cup {h}
    BY <1>4 DEF loopback, TypeOK
  <2>. QED  BY <1>4, <2>1, <2>2, ForeignHeaderCInv DEF loopback
<1>5. ASSUME NEW n \in Authority, NEW v \in votes, process_vote(n, v)
      PROVE  CInv'
  BY <1>5, VoteCInv
<1>11. ASSUME NEW n \in Authority, NEW v \in votes, process_vote_again(n, v)
       PROVE  CInv'
  BY <1>11, VoteAgainCInv
<1>6. ASSUME NEW n \in Authority, NEW h \in unsaved[n], process_lost_certificate(n, h)
      PROVE  CInv'
  BY <1>6, LostCertificateCInv
<1>7. ASSUME NEW n \in Authority, refuse(n)
      PROVE  CInv'
  <2>1. /\ VotingInv'
        /\ votes' = votes
        /\ gc_round' \in [Authority -> Nat]
        /\ last_voted' \in [Authority -> SUBSET (Nat \X Authority)]
    BY <1>7, NoVoteStep DEF refuse
  <2>2. CountingInv'
    BY <1>7, <2>1, FrameStep DEF refuse
  <2>3. TypeOK' /\ RoundsInv'
    BY <1>7, <2>1 DEF refuse, TypeOK, RoundsInv
  <2>. QED  BY <2>1, <2>2, <2>3
<1>8. ASSUME NEW n \in Authority, Restart(n)
      PROVE  CInv'
  BY <1>8, RestartCInv
<1>9. ASSUME NEW n \in Authority, NEW v \in votes, RestartBeforeStore(n, v)
      PROVE  CInv'
  BY <1>9, RestartBeforeStoreCInv
<1>10. ASSUME NEW n \in Authority, Crash(n)
       PROVE  CInv'
  <2>1. UNCHANGED <<boot, proposed, current_header, used, weight, last_voted, waiting,
                    gc_round, unsaved, made, votes, certificates>>
        /\ down' \subseteq Authority
    BY <1>10 DEF Crash, core, network, TypeOK
  <2>2. CountingInv'
    BY <2>1, FrameStep
  <2>3. TypeOK' /\ RoundsInv'
    BY <2>1 DEF TypeOK, RoundsInv
  <2>4. VotingInv'
    BY <2>1 DEF VotingInv, MemoryInv, VoteOnce, SameSlot
  <2>. QED  BY <2>2, <2>3, <2>4
<1>. QED
  BY <1>1, <1>2, <1>3, <1>4, <1>5, <1>6, <1>7, <1>8, <1>9, <1>10, <1>11 DEF Next

\* The invariant holds in every reachable state.
LEMMA Invariance == Spec => []CInv
BY InitCInv, NextCInv, PTL DEF Spec

-----------------------------------------------------------------------------
\* The variables keep their types, and no aggregator counts a stake twice.
THEOREM TypeCorrect == Spec => []TypeOK
<1>1. CInv => TypeOK
  BY DEF CInv
<1>. QED  BY <1>1, Invariance, PTL

\* An authority that does not restart votes once per author and round.
THEOREM VotesOnce == Spec => []VoteOnce
<1>1. CInv => VoteOnce
  BY DEF CInv, VotingInv
<1>. QED  BY <1>1, Invariance, PTL

\* A certificate holds a quorum, and its voters voted for its header.
THEOREM Backed == Spec => []CertificatesBacked
<1>1. CInv => CertificatesBacked
  BY DEF CInv, CountingInv
<1>. QED  BY <1>1, Invariance, PTL

\* A header has at most one certificate, across restarts too.
THEOREM CertifiedOnce == Spec => []QuorumOnce
<1>1. CInv => QuorumOnce
  BY DEF CInv, CountingInv
<1>. QED  BY <1>1, Invariance, PTL

\* Two quorums share a voter that does not restart, and that voter votes once.
LEMMA CInvUnique ==
    ASSUME ~IsValid(Restartable), CInv
    PROVE  UniqueCertificates
<1>. USE DEF CInv
<1>1. SUFFICES ASSUME NEW c \in certificates, NEW d \in certificates,
                      SameSlot(c.header, d.header),
                      \A n \in Authority : gc_round[n] <= c.header.round
               PROVE  c.header = d.header
  BY DEF UniqueCertificates
<1>2. /\ c.header \in Header /\ d.header \in Header
      /\ c.votes \in SUBSET Authority /\ d.votes \in SUBSET Authority
      /\ IsQuorum(c.votes) /\ IsQuorum(d.votes)
  BY DEF TypeOK, CountingInv, CertificatesBacked
<1>3. CASE c.header.author \notin Restartable
  <2>1. c.header.boot = 0 /\ d.header.boot = 0
    BY <1>1, <1>2, <1>3 DEF CountingInv, HeadersInv, Header, SameSlot
  <2>. QED  BY <1>1, <1>2, <2>1 DEF Header, SameSlot
<1>4. CASE c.header.author \in Restartable
  <2>1. PICK a \in c.votes \cap d.votes : a \notin Restartable
    BY <1>2, QuorumsShareOutside, CertificationAssumption
  <2>2. a # c.header.author /\ a # d.header.author
    BY <1>1, <1>4, <2>1 DEF SameSlot
  <2>3. /\ [header |-> c.header, voter |-> a] \in votes
        /\ [header |-> d.header, voter |-> a] \in votes
    BY <2>1, <2>2 DEF CountingInv, CertificatesBacked
  <2>. DEFINE v == [header |-> c.header, voter |-> a]
              w == [header |-> d.header, voter |-> a]
  <2>4. /\ v \in votes /\ w \in votes
        /\ v.voter = w.voter /\ v.voter \notin Restartable
        /\ SameSlot(v.header, w.header)
        /\ gc_round[v.voter] <= v.header.round
    BY <1>1, <1>2, <2>1, <2>3
  <2>. QED  BY <2>4 DEF VotingInv, VoteOnce
<1>. QED  BY <1>3, <1>4

\* As long as those that may restart hold less than f+1 stake, no two headers
\* of one author and round are certified before somebody cleans up the round,
\* because voters remember what they voted for (core.rs:278-283).
THEOREM UniquePerSlot ==
    ASSUME ~IsValid(Restartable)
    PROVE  Spec => []UniqueCertificates
<1>1. CInv => UniqueCertificates
  BY CInvUnique
<1>. QED  BY <1>1, Invariance, PTL
=============================================================================
