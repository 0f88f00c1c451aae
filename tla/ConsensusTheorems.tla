------------------------- MODULE ConsensusTheorems --------------------------
(***************************************************************************)
(* What the ordering engines do, for every committee, every DAG, every     *)
(* number of nodes and every order of delivery.                            *)
(*                                                                         *)
(* What an engine counts before it commits a leader on headers is no more  *)
(* than the votes that came, each as often as it came.  What one node may  *)
(* commit is linked from every later leader of every node.  And of its     *)
(* output: nothing more often than it was handed over, nothing before its  *)
(* parents or later certificates of their authors, no supported leader     *)
(* left out, and never a panic.                                            *)
(*                                                                         *)
(* The invariants of the output come in layers: what holds whatever        *)
(* happens (OrderingInv), and on it how often a certificate is output      *)
(* (TalliedInv) and what holds of the engines that do not restart          *)
(* (SteadyInv); on the latter, the order of their output (CausalInv).      *)
(***************************************************************************)
EXTENDS ConsensusLemmas

HeaderRoundsOf == {round(v) : v \in Vertices}

\* No more stake is counted for a leader than the votes that came for it.
CountedInv ==
    /\ scenario \in Scenarios /\ parents \in Dags
    /\ heard \in [Node -> [Vertices -> Nat]]
    /\ stake_vote \in [Node -> [HeaderRoundsOf -> Nat]]
    /\ \A n \in Node : \A r \in HeaderRoundsOf :
        stake_vote[n][r] <= Cardinality(VoteUnits(n, r))

-----------------------------------------------------------------------------
\* The votes of a node to which the headers came as often as x says.
VotesOf(x, r) == UNION {StakeUnits({origin(h)}) \X (1..x[h]) : h \in Linking(r)}

\* The votes that came are finitely many.
LEMMA VotesFinite ==
    ASSUME parents \in Dags, NEW x \in [Vertices -> Nat], NEW r
    PROVE  IsFiniteSet(VotesOf(x, r)) /\ Cardinality(VotesOf(x, r)) \in Nat
<1>. DEFINE U(h) == StakeUnits({origin(h)}) \X (1..x[h])
            f == [h \in Linking(r) |-> U(h)]
            T == {U(h) : h \in Linking(r)}
<1>1. IsFiniteSet(Linking(r))
  <2>1. Linking(r) \subseteq Authority \X {r}
    BY VertexType DEF Linking
  <2>2. IsFiniteSet(Authority \X {r})
    BY AuthorityFinite, FS_Singleton, FS_Product
  <2>. QED  BY <2>1, <2>2, FS_Subset
<1>2. f \in Surjection(Linking(r), T)
  BY DEF Surjection
<1>3. IsFiniteSet(T)
  BY <1>1, <1>2, FS_Surjection
<1>4. \A X \in T : IsFiniteSet(X)
  <2>1. ASSUME NEW h \in Linking(r) PROVE IsFiniteSet(U(h))
    <3>1. h \in Vertices /\ origin(h) \in Authority /\ x[h] \in Int
      BY VertexType DEF Linking
    <3>2. IsFiniteSet(1..x[h])
      BY <3>1, FS_Interval
    <3>3. IsFiniteSet(StakeUnits({origin(h)}))
      BY <3>1, UnitsFinite
    <3>. QED  BY <3>2, <3>3, FS_Product
  <2>. QED  BY <2>1
<1>. HIDE DEF T
<1>5. IsFiniteSet(UNION T)
  BY <1>3, <1>4, FS_UNION
<1>. QED  BY <1>5, FS_CardinalityType DEF VotesOf, T

\* A header that comes adds its author's units, once more, to the votes it is for.
LEMMA VotesAdd ==
    ASSUME parents \in Dags, NEW x \in [Vertices -> Nat], NEW h \in Vertices,
           NEW y, y = [x EXCEPT ![h] = @ + 1]
    PROVE  /\ \A r : Cardinality(VotesOf(x, r)) <= Cardinality(VotesOf(y, r))
           /\ h \in Linking(round(h)) =>
                Cardinality(VotesOf(x, round(h))) + StakeOf({origin(h)})
                    <= Cardinality(VotesOf(y, round(h)))
<1>1. /\ y \in [Vertices -> Nat] /\ \A r : Linking(r) \subseteq Vertices
      /\ \A v \in Vertices : x[v] \in Nat /\ 1..x[v] \subseteq 1..y[v]
  BY DEF Linking
<1>2. \A r : VotesOf(x, r) \subseteq VotesOf(y, r)
  <2>1. SUFFICES ASSUME NEW r, NEW v \in Linking(r),
                        NEW u \in StakeUnits({origin(v)}) \X (1..x[v])
                 PROVE  u \in VotesOf(y, r)
    BY DEF VotesOf
  <2>2. u \in StakeUnits({origin(v)}) \X (1..y[v])
    BY <1>1, <2>1
  <2>. QED  BY <2>2 DEF VotesOf
<1>3. \A r : /\ IsFiniteSet(VotesOf(x, r)) /\ Cardinality(VotesOf(x, r)) \in Nat
             /\ IsFiniteSet(VotesOf(y, r)) /\ Cardinality(VotesOf(y, r)) \in Nat
  BY <1>1, VotesFinite
<1>4. \A r : Cardinality(VotesOf(x, r)) <= Cardinality(VotesOf(y, r))
  BY <1>2, <1>3, FS_Subset
<1>5. ASSUME h \in Linking(round(h))
      PROVE  Cardinality(VotesOf(x, round(h))) + StakeOf({origin(h)})
                 <= Cardinality(VotesOf(y, round(h)))
  <2>. DEFINE S == StakeUnits({origin(h)})
              k == x[h] + 1
              V == VotesOf(x, round(h))
              W == VotesOf(y, round(h))
  <2>1. x[h] \in Nat /\ y[h] = k /\ k \in 1..y[h] /\ k \notin 1..x[h]
    BY <1>1
  <2>2. S \X {k} \subseteq W
    <3>1. ASSUME NEW u \in S \X {k} PROVE u \in S \X (1..y[h])
      BY <2>1
    <3>. QED  BY <1>5, <3>1 DEF VotesOf
  <2>3. V \cap (S \X {k}) = {}
    <3>1. SUFFICES ASSUME NEW v \in Linking(round(h)),
                          NEW u \in StakeUnits({origin(v)}) \X (1..x[v]), u \in S \X {k}
                   PROVE  FALSE
      BY DEF VotesOf
    <3>2. u[1] \in StakeUnits({origin(v)}) /\ u[1] \in S /\ u[2] \in 1..x[v] /\ u[2] = k
      BY <3>1
    <3>3. origin(v) = origin(h)
      BY <3>2 DEF StakeUnits
    <3>4. v \in Vertices /\ round(v) = round(h)
      BY DEF Linking
    <3>5. v = h
      BY <3>3, <3>4, VertexType
    <3>. QED  BY <2>1, <3>2, <3>5
  <2>4. IsFiniteSet(S) /\ Cardinality(S) = StakeOf({origin(h)}) /\ Cardinality(S) \in Nat
    BY VertexType, UnitsFinite, FS_CardinalityType DEF StakeOf
  <2>5. IsFiniteSet(S \X {k}) /\ Cardinality(S \X {k}) = Cardinality(S)
    <3>. HIDE DEF S, k
    <3>1. IsFiniteSet({k}) /\ Cardinality({k}) = 1
      BY FS_Singleton
    <3>2. IsFiniteSet(S \X {k}) /\ Cardinality(S \X {k}) = Cardinality(S) * Cardinality({k})
      BY <2>4, <3>1, FS_Product
    <3>. QED  BY <2>4, <3>1, <3>2
  <2>6. V \subseteq W /\ IsFiniteSet(V) /\ IsFiniteSet(W)
        /\ Cardinality(V) \in Nat /\ Cardinality(W) \in Nat
    BY <1>2, <1>3
  <2>. DEFINE N == S \X {k}
  <2>7. IsFiniteSet(N) /\ Cardinality(N) = StakeOf({origin(h)}) /\ Cardinality(N) \in Nat
        /\ N \subseteq W /\ V \cap N = {}
    BY <2>2, <2>3, <2>4, <2>5
  <2>. HIDE DEF V, W, N
  <2>8. Cardinality(V \cup N) = Cardinality(V) + Cardinality(N)
    <3>1. Cardinality(V \cup N) = Cardinality(V) + Cardinality(N) - Cardinality(V \cap N)
      BY <2>6, <2>7, FS_Union
    <3>2. Cardinality(V \cap N) = 0
      BY <2>7, FS_EmptySet
    <3>. QED  BY <2>6, <2>7, <3>1, <3>2
  <2>9. Cardinality(V \cup N) <= Cardinality(W)
    <3>1. V \cup N \subseteq W
      BY <2>6, <2>7
    <3>. QED  BY <2>6, <3>1, FS_Subset
  <2>10. Cardinality(V) + StakeOf({origin(h)}) <= Cardinality(W)
    BY <2>7, <2>8, <2>9
  <2>. QED  BY <2>10 DEF V, W
<1>. QED  BY <1>4, <1>5

\* The votes of all nodes, before and after a step.
LEMMA VotesType ==
    ASSUME parents \in Dags, heard \in [Node -> [Vertices -> Nat]],
           scenario' = scenario, heard' \in [Node -> [Vertices -> Nat]], NEW n \in Node, NEW r
    PROVE  /\ VoteUnits(n, r) = VotesOf(heard[n], r) /\ VoteUnits(n, r)' = VotesOf(heard'[n], r)
           /\ Cardinality(VoteUnits(n, r)) \in Nat /\ Cardinality(VoteUnits(n, r)') \in Nat
<1>1. VoteUnits(n, r) = VotesOf(heard[n], r) /\ VoteUnits(n, r)' = VotesOf(heard'[n], r)
  BY DEF VoteUnits, VotesOf, Linking, Vertices, parents
<1>. QED  BY <1>1, VotesFinite

\* Nothing is counted at the start.
LEMMA InitCounted == Init => CountedInv
<1>. SUFFICES ASSUME Init PROVE CountedInv
  OBVIOUS
<1>1. /\ scenario \in Scenarios /\ parents \in Dags
      /\ heard = [n \in Node |-> [v \in Vertices |-> 0]]
      /\ stake_vote = [n \in Node |-> [r \in HeaderRoundsOf |-> 0]]
  BY DEF Init, HeaderRoundsOf, Dags, parents
<1>2. heard \in [Node -> [Vertices -> Nat]]
  BY <1>1
<1>3. \A n \in Node : \A r \in HeaderRoundsOf : Cardinality(VoteUnits(n, r)) \in Nat
  <2>1. \A n \in Node : \A r : VoteUnits(n, r) = VotesOf(heard[n], r)
    BY DEF VoteUnits, VotesOf
  <2>. QED  BY <1>1, <1>2, <2>1, VotesFinite
<1>. QED  BY <1>1, <1>2, <1>3 DEF CountedInv

\* A header adds its author's stake, if it links the leader.
LEMMA HeaderCounted ==
    ASSUME CountedInv, NEW n \in Node, NEW h \in Vertices, ProcessHeader(n, h)
    PROVE  CountedInv'
<1>. DEFINE q == round(h)
            Votes(m, r) == Cardinality(VoteUnits(m, r))
<1>1. /\ scenario \in Scenarios /\ scenario' = scenario
      /\ parents \in Dags /\ parents' = parents
      /\ heard \in [Node -> [Vertices -> Nat]]
      /\ heard' = [heard EXCEPT ![n][h] = @ + 1]
      /\ stake_vote \in [Node -> [HeaderRoundsOf -> Nat]]
      /\ Vertices' = Vertices /\ HeaderRoundsOf' = HeaderRoundsOf
      /\ q \in HeaderRoundsOf
  BY DEF CountedInv, ProcessHeader, Vertices, HeaderRoundsOf, parents
<1>2. heard' \in [Node -> [Vertices -> Nat]]
  BY <1>1
<1>3. /\ \A m \in Node : \A r \in HeaderRoundsOf :
            Votes(m, r) <= Votes(m, r)' /\ Votes(m, r) \in Nat /\ Votes(m, r)' \in Nat
      /\ h \in Linking(q) => Votes(n, q) + StakeOf({origin(h)}) <= Votes(n, q)'
  <2>1. \A m \in Node : \A r : /\ VoteUnits(m, r) = VotesOf(heard[m], r)
                               /\ VoteUnits(m, r)' = VotesOf(heard'[m], r)
                               /\ Votes(m, r) \in Nat /\ Votes(m, r)' \in Nat
    BY <1>1, <1>2, VotesType
  <2>2. \A m \in Node \ {n} : heard'[m] = heard[m]
    BY <1>1
  <2>3. heard[n] \in [Vertices -> Nat] /\ heard'[n] = [heard[n] EXCEPT ![h] = @ + 1]
    BY <1>1
  <2>4. /\ \A r : Cardinality(VotesOf(heard[n], r)) <= Cardinality(VotesOf(heard'[n], r))
        /\ h \in Linking(q) => Cardinality(VotesOf(heard[n], q)) + StakeOf({origin(h)})
                                   <= Cardinality(VotesOf(heard'[n], q))
    BY <1>1, <2>3, VotesAdd
  <2>. QED  BY <2>1, <2>2, <2>4
<1>4. \A m \in Node : \A r \in HeaderRoundsOf :
        stake_vote[m][r] \in Nat /\ stake_vote[m][r] <= Votes(m, r)
  BY <1>1 DEF CountedInv
<1>. HIDE DEF Votes
<1>5. CASE stake_vote' = stake_vote
  <2>1. \A m \in Node : \A r \in HeaderRoundsOf : stake_vote'[m][r] <= Votes(m, r)'
    BY <1>3, <1>4, <1>5
  <2>. QED  BY <1>1, <1>2, <1>5, <2>1 DEF CountedInv, Votes
<1>6. CASE stake_vote' = [stake_vote EXCEPT ![n][q] = header_stake(n, h)]
  <2>1. StakeOf({origin(h)}) \in Nat
    BY <1>1, VertexType, StakeType
  <2>2. header_stake(n, h) \in Nat /\ header_stake(n, h) <= Votes(n, q)'
    <3>1. CASE leader_of(q - 1) \notin parents[h]
      <4>1. header_stake(n, h) = stake_vote[n][q]
        BY <3>1, <1>1, <1>4 DEF header_stake
      <4>. QED  BY <4>1, <1>1, <1>3, <1>4
    <3>2. CASE leader_of(q - 1) \in parents[h]
      <4>1. header_stake(n, h) = stake_vote[n][q] + StakeOf({origin(h)})
        BY <3>2 DEF header_stake
      <4>2. h \in Linking(q)
        BY <3>2 DEF Linking
      <4>. QED  BY <4>1, <4>2, <1>1, <1>3, <1>4, <2>1
    <3>. QED  BY <3>1, <3>2
  <2>3. stake_vote' \in [Node -> [HeaderRoundsOf -> Nat]]
    BY <1>1, <1>6, <2>2
  <2>4. \A m \in Node : \A r \in HeaderRoundsOf : stake_vote'[m][r] <= Votes(m, r)'
    <3>1. SUFFICES ASSUME NEW m \in Node, NEW r \in HeaderRoundsOf
                   PROVE  stake_vote'[m][r] <= Votes(m, r)'
      OBVIOUS
    <3>2. CASE m = n /\ r = q
      BY <3>2, <1>1, <1>6, <2>2
    <3>3. CASE ~(m = n /\ r = q)
      <4>1. stake_vote'[m][r] = stake_vote[m][r]
        BY <3>3, <1>1, <1>6
      <4>. QED  BY <4>1, <1>3, <1>4
    <3>. QED  BY <3>2, <3>3
  <2>. QED  BY <1>1, <1>2, <2>3, <2>4 DEF CountedInv, Votes
<1>. QED  BY <1>5, <1>6 DEF ProcessHeader

\* Nothing else receives headers; a restart forgets what was counted.
LEMMA OthersCounted ==
    ASSUME CountedInv, scenario' = scenario, heard' = heard,
           \/ stake_vote' = stake_vote
           \/ \E n \in Node : stake_vote' = [stake_vote EXCEPT ![n] = [r \in DOMAIN @ |-> 0]]
    PROVE  CountedInv'
<1>1. /\ scenario \in Scenarios /\ scenario' = scenario
      /\ parents \in Dags /\ parents' = parents
      /\ heard \in [Node -> [Vertices -> Nat]]
      /\ stake_vote \in [Node -> [HeaderRoundsOf -> Nat]]
      /\ Vertices' = Vertices /\ HeaderRoundsOf' = HeaderRoundsOf
  BY DEF CountedInv, Vertices, HeaderRoundsOf, parents
<1>2. \A n, r : VoteUnits(n, r)' = VoteUnits(n, r)
  BY <1>1 DEF VoteUnits, Linking
<1>3. \A n \in Node : \A r \in HeaderRoundsOf : Cardinality(VoteUnits(n, r)) \in Nat
  BY <1>1, VotesType
<1>4. CASE stake_vote' = stake_vote
  BY <1>1, <1>2, <1>4 DEF CountedInv
<1>5. ASSUME NEW n \in Node, stake_vote' = [stake_vote EXCEPT ![n] = [r \in DOMAIN @ |-> 0]]
      PROVE  CountedInv'
  <2>1. stake_vote' = [stake_vote EXCEPT ![n] = [r \in HeaderRoundsOf |-> 0]]
    BY <1>1, <1>5
  <2>2. stake_vote' \in [Node -> [HeaderRoundsOf -> Nat]]
    BY <1>1, <2>1
  <2>3. \A m \in Node : \A r \in HeaderRoundsOf :
          stake_vote'[m][r] <= Cardinality(VoteUnits(m, r))
    BY <1>1, <1>3, <2>1 DEF CountedInv
  <2>. QED  BY <1>1, <1>2, <2>2, <2>3 DEF CountedInv
<1>. QED  BY <1>4, <1>5

\* The invariant holds, however often a header comes.
LEMMA CountedInvariant == Spec => []CountedInv
<1>1. CountedInv /\ [Next]_vars => CountedInv'
  <2>. SUFFICES ASSUME CountedInv, [Next]_vars PROVE CountedInv'
    OBVIOUS
  <2>1. ASSUME NEW n \in Node, NEW h \in Vertices, ProcessHeader(n, h)
        PROVE  CountedInv'
    BY <2>1, HeaderCounted
  <2>2. ASSUME NEW n \in Node, NEW c \in Vertices, ProcessCertificate(n, c)
        PROVE  CountedInv'
    BY <2>2, OthersCounted DEF ProcessCertificate
  <2>3. ASSUME NEW n \in Node, Restart(n)
        PROVE  CountedInv'
    BY <2>3, OthersCounted DEF Restart
  <2>4. CASE UNCHANGED vars
    BY <2>4, OthersCounted DEF vars
  <2>5. scenario.nodes \subseteq Node
    BY BoundsAssumption DEF CountedInv
  <2>. QED  BY <2>1, <2>2, <2>3, <2>4, <2>5 DEF Next
<1>. QED  BY <1>1, InitCounted, PTL DEF Spec

-----------------------------------------------------------------------------
\* A leader is committed on headers only when headers that link it came with a
\* quorum of stake, each as often as it came, whatever else comes in between
\* (run, lib.rs:136-144).
THEOREM HeaderVotes == Spec => []HeaderCommitHasVotes
<1>1. CountedInv => HeaderCommitHasVotes
  <2>1. SUFFICES ASSUME CountedInv, NEW n \in Node, NEW r \in DOMAIN stake_vote[n],
                        stake_vote[n][r] >= quorum_threshold
                 PROVE  Cardinality(VoteUnits(n, r)) >= quorum_threshold
    BY DEF HeaderCommitHasVotes
  <2>2. r \in HeaderRoundsOf /\ stake_vote[n][r] \in Nat
    BY <2>1 DEF CountedInv
  <2>3. stake_vote[n][r] <= Cardinality(VoteUnits(n, r)) /\ Cardinality(VoteUnits(n, r)) \in Nat
    <3>1. VoteUnits(n, r) = VotesOf(heard[n], r) /\ heard[n] \in [Vertices -> Nat]
      BY <2>1 DEF CountedInv, VoteUnits, VotesOf
    <3>. QED  BY <2>1, <2>2, <3>1, VotesFinite DEF CountedInv
  <2>. QED  BY <2>1, <2>2, <2>3, ThresholdTypes
<1>. QED  BY <1>1, CountedInvariant, PTL

-----------------------------------------------------------------------------
\* What was handed to an engine includes the history of all of it.
HistoryInv ==
    /\ scenario \in Scenarios /\ parents \in Dags
    /\ received \in [Node -> [Vertices -> Nat]]
    /\ \A n \in Node : \A c \in Vertices :
        received[n][c] > 0 => parents[c] \ genesis \subseteq Handed(n)

\* Nothing was handed over at the start.
LEMMA InitHistory == Init => HistoryInv
<1>. SUFFICES ASSUME Init PROVE HistoryInv
  OBVIOUS
<1>. QED  BY DEF Init, HistoryInv, Dags, parents

\* A certificate is handed over after its parents.
LEMMA CertificateHistory ==
    ASSUME HistoryInv, NEW n \in Node, NEW c \in Vertices, ProcessCertificate(n, c)
    PROVE  HistoryInv'
<1>1. /\ scenario \in Scenarios /\ scenario' = scenario
      /\ parents \in Dags /\ parents' = parents
      /\ received \in [Node -> [Vertices -> Nat]]
      /\ Vertices' = Vertices
  BY DEF HistoryInv, ProcessCertificate, Vertices, parents
<1>2. received' = [received EXCEPT ![n][c] = @ + 1]
  BY DEF ProcessCertificate
<1>3. /\ received' \in [Node -> [Vertices -> Nat]]
      /\ \A m \in Node : \A v \in Vertices : received[m][v] > 0 => received'[m][v] > 0
      /\ \A m \in Node : \A v \in Vertices :
            received'[m][v] > 0 => received[m][v] > 0 \/ (m = n /\ v = c)
  BY <1>1, <1>2
<1>4. \A m \in Node : Handed(m) \subseteq Handed(m)'
  BY <1>1, <1>3 DEF Handed
<1>5. parents[c] \ genesis \subseteq Handed(n)
  <2>1. parents[c] \subseteq Certificates
    BY <1>1, DagRules DEF Rules
  <2>. QED  BY <2>1 DEF ProcessCertificate, deliver_certificate, Handed, Certificates
<1>6. \A m \in Node : \A v \in Vertices :
        received'[m][v] > 0 => parents[v] \ genesis \subseteq Handed(m)'
  BY <1>3, <1>4, <1>5 DEF HistoryInv
<1>. QED  BY <1>1, <1>3, <1>6 DEF HistoryInv

\* Nothing else hands over certificates, and a restart takes none back.
LEMMA OthersHistory ==
    ASSUME HistoryInv, scenario' = scenario, received' = received
    PROVE  HistoryInv'
BY DEF HistoryInv, Handed, Vertices, parents

\* The histories are complete at every time.
LEMMA HistoryInvariant == Spec => []HistoryInv
<1>1. HistoryInv /\ [Next]_vars => HistoryInv'
  <2>. SUFFICES ASSUME HistoryInv, [Next]_vars PROVE HistoryInv'
    OBVIOUS
  <2>1. ASSUME NEW n \in Node, NEW h \in Vertices, ProcessHeader(n, h)
        PROVE  HistoryInv'
    BY <2>1, OthersHistory DEF ProcessHeader
  <2>2. ASSUME NEW n \in Node, NEW c \in Vertices, ProcessCertificate(n, c)
        PROVE  HistoryInv'
    BY <2>2, CertificateHistory
  <2>3. ASSUME NEW n \in Node, Restart(n)
        PROVE  HistoryInv'
    BY <2>3, OthersHistory DEF Restart
  <2>4. CASE UNCHANGED vars
    BY <2>4, OthersHistory DEF vars
  <2>5. scenario.nodes \subseteq Node
    BY BoundsAssumption DEF HistoryInv
  <2>. QED  BY <2>1, <2>2, <2>3, <2>4, <2>5 DEF Next
<1>. QED  BY <1>1, InitHistory, PTL DEF Spec

\* What one node may commit directly, no other node passes over, whatever the
\* committee, the DAG, the nodes, the order of delivery and the restarts: the
\* fact agreement between the engines rests on (order_leaders and linked,
\* lib.rs:318-353).
THEOREM LeadersLinked == Spec => []SupportedLeadersLinked
<1>1. HistoryInv => SupportedLeadersLinked
  <2>1. SUFFICES ASSUME HistoryInv, NEW n \in Node, NEW v \in Vertices, Supported(n, v),
                        NEW m \in Node, NEW w \in Handed(m),
                        w = leader_of(round(w)), round(w) > round(v)
                 PROVE  linked(Handed(m), w, v)
    BY DEF SupportedLeadersLinked
  <2>2. parents \in Dags /\ v = leader_of(round(v))
    BY <2>1 DEF HistoryInv, Supported
  <2>3. Handed(m) \in SUBSET Certificates
    BY DEF Handed, Certificates
  <2>4. \A c \in Handed(m) \cap Vertices : parents[c] \ genesis \subseteq Handed(m)
    <3>1. \A c \in Vertices : c \notin genesis
      <4>1. \A g \in genesis : round(g) = 0
        BY DEF genesis, round
      <4>2. \A c \in Vertices : round(c) \in Nat /\ round(c) > 0
        BY <2>2, DagRules DEF Rules
      <4>. QED  BY <4>1, <4>2
    <3>. QED  BY <2>1, <3>1 DEF HistoryInv, Handed
  <2>. DEFINE C == {y \in Known(n) : v \in parents[y]}
  <2>5. C \in SUBSET Vertices /\ \A y \in C : v \in parents[y]
    BY DEF Known
  <2>6. IsValid({origin(y) : y \in C})
    BY <2>1 DEF Supported
  <2>. HIDE DEF C
  <2>. QED  BY <2>1, <2>2, <2>3, <2>4, <2>5, <2>6, SupportedIsLinked
<1>. QED  BY <1>1, HistoryInvariant, PTL

-----------------------------------------------------------------------------
(***************************************************************************)
(* What the handlers keep.  For one node in state st, that was handed H    *)
(* and has output out:                                                     *)
(***************************************************************************)

\* What was output of v, and is yet to be, does not exceed the deliveries of v.
Occurrences(s, v) == {i \in DOMAIN s : s[i] = v}
ToOutput(st, v)   == IF Gone(st, v) THEN 0 ELSE 1

Tallied(st, out, got) ==
    \A v \in Vertices : Cardinality(Occurrences(out, v)) + ToOutput(st, v) <= got[v]

\* A leader with support is committed, or a later one is.
Counted(st, H) ==
    \A v \in Vertices : HasSupport(v, H \cap Vertices) => round(v) <= st.last_committed_round

\* A supported leader that is not later than the last commit was output.
Included(st, out) ==
    \A v \in Vertices :
        HasSupport(v, Vertices) /\ round(v) <= st.last_committed_round => v \in ToSet(out)

\* The engine takes in a certificate.
Receive(st, c) == [st EXCEPT !.dag = @ \cup {c}]

\* That changes the dag only.
LEMMA ReceiveWellState ==
    ASSUME parents \in Dags, NEW st, WellState(st), NEW c \in Vertices
    PROVE  /\ WellState(Receive(st, c))
           /\ Receive(st, c).dag = st.dag \cup {c}
           /\ Receive(st, c).last_committed = st.last_committed
           /\ Receive(st, c).last_committed_round = st.last_committed_round
<1>. DEFINE u == Receive(st, c)
<1>1. /\ u.dag = st.dag \cup {c}
      /\ u.last_committed = st.last_committed
      /\ u.last_committed_round = st.last_committed_round
      /\ u \in StateType
  BY DEF Receive, WellState, StateType, Certificates
<1>2. IsFiniteSet(u.dag)
  BY <1>1, FS_AddElement DEF WellState
<1>3. c \notin genesis
  <2>1. round(c) \in Nat /\ round(c) > 0
    BY DagRules DEF Rules
  <2>. QED  BY <2>1, CertificateType DEF Certificates
<1>. HIDE DEF u
<1>4. WellState(u)
  BY <1>1, <1>2, <1>3 DEF WellState
<1>. QED  BY <1>1, <1>4 DEF u

\* The members of a sequence are counted by finite sets, which grow by one for
\* what is in the sequence that is appended, when that repeats nothing.
LEMMA OccurrencesAdd ==
    ASSUME NEW S, NEW s \in Seq(S), NEW t \in Seq(S), NEW v
    PROVE  /\ Cardinality(Occurrences(s, v)) \in Nat
           /\ v \notin ToSet(t) =>
                Cardinality(Occurrences(s \o t, v)) = Cardinality(Occurrences(s, v))
           /\ IsInjective(t) /\ v \in ToSet(t) =>
                Cardinality(Occurrences(s \o t, v)) = Cardinality(Occurrences(s, v)) + 1
<1>1. /\ DOMAIN s = 1..Len(s) /\ DOMAIN t = 1..Len(t) /\ Len(s) \in Nat /\ Len(t) \in Nat
      /\ DOMAIN (s \o t) = 1..(Len(s) + Len(t))
      /\ \A i \in 1..(Len(s) + Len(t)) :
            (s \o t)[i] = IF i <= Len(s) THEN s[i] ELSE t[i - Len(s)]
  OBVIOUS
<1>2. IsFiniteSet(Occurrences(s, v)) /\ Cardinality(Occurrences(s, v)) \in Nat
  <2>1. IsFiniteSet(1..Len(s)) /\ Occurrences(s, v) \subseteq 1..Len(s)
    BY <1>1, FS_Interval DEF Occurrences
  <2>. QED  BY <2>1, FS_Subset, FS_CardinalityType
<1>3. ASSUME v \notin ToSet(t)
      PROVE  Occurrences(s \o t, v) = Occurrences(s, v)
  <2>1. \A k \in 1..Len(t) : t[k] # v
    BY <1>1, <1>3 DEF ToSet
  <2>2. ASSUME NEW i \in 1..(Len(s) + Len(t)), (s \o t)[i] = v
        PROVE  i \in 1..Len(s) /\ s[i] = v
    <3>1. CASE i <= Len(s)
      BY <1>1, <2>2, <3>1
    <3>2. CASE ~(i <= Len(s))
      <4>1. i - Len(s) \in 1..Len(t) /\ t[i - Len(s)] = v
        BY <1>1, <2>2, <3>2
      <4>. QED  BY <2>1, <4>1
    <3>. QED  BY <3>1, <3>2
  <2>3. \A i \in 1..Len(s) : i \in 1..(Len(s) + Len(t)) /\ (s \o t)[i] = s[i]
    BY <1>1
  <2>. QED  BY <1>1, <2>2, <2>3 DEF Occurrences
<1>4. ASSUME IsInjective(t), v \in ToSet(t)
      PROVE  Cardinality(Occurrences(s \o t, v)) = Cardinality(Occurrences(s, v)) + 1
  <2>1. PICK k \in 1..Len(t) : t[k] = v
    BY <1>1, <1>4 DEF ToSet
  <2>2. \A j \in 1..Len(t) : t[j] = v => j = k
    BY <1>1, <1>4, <2>1 DEF IsInjective
  <2>3. ASSUME NEW i \in 1..(Len(s) + Len(t)), (s \o t)[i] = v
        PROVE  (i \in 1..Len(s) /\ s[i] = v) \/ i = Len(s) + k
    <3>1. CASE i <= Len(s)
      BY <1>1, <2>3, <3>1
    <3>2. CASE ~(i <= Len(s))
      <4>1. i - Len(s) \in 1..Len(t) /\ t[i - Len(s)] = v
        BY <1>1, <2>3, <3>2
      <4>2. i - Len(s) = k
        BY <2>2, <4>1
      <4>. QED  BY <1>1, <4>2
    <3>. QED  BY <3>1, <3>2
  <2>4. /\ \A i \in 1..Len(s) : i \in 1..(Len(s) + Len(t)) /\ (s \o t)[i] = s[i]
        /\ Len(s) + k \in 1..(Len(s) + Len(t)) /\ (s \o t)[Len(s) + k] = v
        /\ Len(s) + k \notin 1..Len(s)
    <3>1. Len(s) + k \in 1..(Len(s) + Len(t)) /\ Len(s) + k > Len(s)
          /\ (Len(s) + k) - Len(s) = k
      BY <1>1
    <3>2. (s \o t)[Len(s) + k] = t[(Len(s) + k) - Len(s)]
      BY <1>1, <3>1
    <3>. QED  BY <1>1, <2>1, <3>1, <3>2
  <2>5. Occurrences(s \o t, v) = Occurrences(s, v) \cup {Len(s) + k}
    BY <1>1, <2>3, <2>4 DEF Occurrences
  <2>6. Len(s) + k \notin Occurrences(s, v)
    BY <1>1, <2>4 DEF Occurrences
  <2>. QED  BY <1>2, <2>5, <2>6, FS_AddElement
<1>. QED  BY <1>2, <1>3, <1>4

\* A delivery is counted before what it adds to the dag is output.
LEMMA ReceiveTallied ==
    ASSUME parents \in Dags, NEW st, WellState(st), NEW c \in Vertices,
           NEW out \in Seq(Vertices), NEW got \in [Vertices -> Nat], Tallied(st, out, got)
    PROVE  Tallied(Receive(st, c), out, [got EXCEPT ![c] = @ + 1])
<1>1. SUFFICES ASSUME NEW v \in Vertices
               PROVE  Cardinality(Occurrences(out, v)) + ToOutput(Receive(st, c), v)
                          <= [got EXCEPT ![c] = @ + 1][v]
  BY DEF Tallied
<1>2. /\ Cardinality(Occurrences(out, v)) + ToOutput(st, v) <= got[v]
      /\ Cardinality(Occurrences(out, v)) \in Nat /\ got[v] \in Nat
  BY OccurrencesAdd DEF Tallied
<1>3. ToOutput(st, v) \in {0, 1} /\ ToOutput(Receive(st, c), v) \in {0, 1}
  BY DEF ToOutput
<1>4. CASE v = c
  <2>1. [got EXCEPT ![c] = @ + 1][v] = got[v] + 1
    BY <1>4
  <2>. QED  BY <1>2, <1>3, <2>1
<1>5. CASE v # c
  <2>1. Gone(Receive(st, c), v) <=> Gone(st, v)
    <3>1. /\ Receive(st, c).dag = st.dag \cup {c}
          /\ Receive(st, c).last_committed = st.last_committed
      BY ReceiveWellState
    <3>2. v \in Receive(st, c).dag <=> v \in st.dag
      BY <1>5, <3>1
    <3>. QED  BY <3>1, <3>2 DEF Gone
  <2>2. ToOutput(Receive(st, c), v) = ToOutput(st, v) /\ [got EXCEPT ![c] = @ + 1][v] = got[v]
    BY <1>5, <2>1 DEF ToOutput
  <2>. QED  BY <1>2, <2>2
<1>. QED  BY <1>4, <1>5

\* Its history was handed over before.
LEMMA ReceiveHistory ==
    ASSUME parents \in Dags, NEW st, WellState(st), NEW c \in Vertices,
           NEW H, IsHistory(H, st), parents[c] \ genesis \subseteq H
    PROVE  IsHistory(H \cup {c}, Receive(st, c))
<1>1. \A v \in H \cup {c} : v \in Receive(st, c).dag \/ Past(Receive(st, c), v)
  <2>1. \A v : Past(Receive(st, c), v) <=> Past(st, v)
    BY ReceiveWellState DEF Past
  <2>. QED  BY <2>1, ReceiveWellState DEF IsHistory
<1>2. \A x \in (H \cup {c}) \cap Vertices : parents[x] \ genesis \subseteq H \cup {c}
  BY DEF IsHistory
<1>. QED  BY <1>1, <1>2, ReceiveWellState DEF IsHistory, Certificates

\* A commit outputs once what it did not output before, and has it gone.
LEMMA CommitTallied ==
    ASSUME parents \in Dags, NEW st, WellState(st), NEW out \in Seq(Vertices),
           NEW got \in [Vertices -> Nat], Tallied(st, out, got),
           NEW last, NEW d, Commits_leader(st, last, d)
    PROVE  Tallied(d.st, out \o d.sequence, got)
<1>. DEFINE B == ToSet(d.sequence)
<1>1. /\ d.sequence \in Seq(Vertices) /\ IsInjective(d.sequence)
      /\ Advances(st, d.st, B) /\ \A v \in B : ~Gone(st, v)
  BY DEF Commits_leader
<1>2. PICK seq \in Seq(Vertices) : seq = d.sequence
  BY <1>1
<1>3. B \in SUBSET Vertices
  BY <1>2 DEF ToSet
<1>. HIDE DEF B
<1>4. /\ \A v \in B : Gone(d.st, v)
      /\ \A v \in Vertices : Gone(st, v) => Gone(d.st, v)
  BY <1>1, <1>3, GoneStays
<1>5. ASSUME NEW v \in Vertices
      PROVE  Cardinality(Occurrences(out \o seq, v)) + ToOutput(d.st, v) <= got[v]
  <2>1. /\ Cardinality(Occurrences(out, v)) + ToOutput(st, v) <= got[v]
        /\ Cardinality(Occurrences(out, v)) \in Nat /\ got[v] \in Nat
    BY OccurrencesAdd DEF Tallied
  <2>2. CASE v \in B
    <3>1. Cardinality(Occurrences(out \o seq, v)) = Cardinality(Occurrences(out, v)) + 1
      BY <1>1, <1>2, <2>2, OccurrencesAdd DEF B
    <3>2. ToOutput(st, v) = 1 /\ ToOutput(d.st, v) = 0
      BY <1>1, <1>4, <2>2 DEF ToOutput
    <3>. QED  BY <2>1, <3>1, <3>2
  <2>3. CASE v \notin B
    <3>1. Cardinality(Occurrences(out \o seq, v)) = Cardinality(Occurrences(out, v))
      BY <1>2, <2>3, OccurrencesAdd DEF B
    <3>2. ToOutput(d.st, v) <= ToOutput(st, v) /\ ToOutput(st, v) \in {0, 1}
          /\ ToOutput(d.st, v) \in {0, 1}
      BY <1>4 DEF ToOutput
    <3>. QED  BY <2>1, <3>1, <3>2
  <2>. QED  BY <2>2, <2>3
<1>. QED  BY <1>2, <1>5 DEF Tallied

\* A commit forgets nothing that is not past.
LEMMA CommitHistory ==
    ASSUME parents \in Dags, gc_depth \in Nat, NEW st, WellState(st),
           NEW H, IsHistory(H, st), NEW last, NEW d, Commits_leader(st, last, d)
    PROVE  IsHistory(H, d.st)
<1>1. Advances(st, d.st, ToSet(d.sequence))
  BY DEF Commits_leader
<1>2. ASSUME NEW v \in H PROVE v \in d.st.dag \/ Past(d.st, v)
  <2>1. v \in Certificates /\ (v \in st.dag \/ Past(st, v))
    BY <1>2 DEF IsHistory
  <2>. QED  BY <1>1, <2>1, PastStays DEF Advances
<1>. QED  BY <1>1, <1>2 DEF IsHistory, Advances

\* A commit outputs the supported leaders it jumps over.
LEMMA CommitIncluded ==
    ASSUME parents \in Dags, gc_depth \in Nat, NEW st, WellState(st),
           NEW H, IsHistory(H, st), NEW out \in Seq(Vertices), Included(st, out),
           NEW last \in H \cap Vertices, last = leader_of(round(last)),
           NEW d, Commits_leader(st, last, d)
    PROVE  Included(d.st, out \o d.sequence)
<1>1. SUFFICES ASSUME NEW v \in Vertices, HasSupport(v, Vertices),
                      round(v) <= d.st.last_committed_round
               PROVE  v \in ToSet(out \o d.sequence)
  BY DEF Included
<1>2. /\ d.sequence \in Seq(Vertices) /\ d.st.last_committed_round = round(last)
      /\ ToSet(order_leaders(st, last)) \subseteq ToSet(d.sequence)
  BY DEF Commits_leader
<1>3. PICK seq \in Seq(Vertices) : seq = d.sequence
  BY <1>2
<1>4. ToSet(out \o d.sequence) = ToSet(out) \cup ToSet(d.sequence)
  BY <1>3, ConcatMembers
<1>5. round(v) \in Nat /\ st.last_committed_round \in Nat
  BY VertexType DEF WellState, StateType
<1>6. CASE round(v) <= st.last_committed_round
  BY <1>1, <1>4, <1>6 DEF Included
<1>7. CASE round(v) > st.last_committed_round
  <2>1. v \in ToSet(order_leaders(st, last))
    BY <1>1, <1>2, <1>7, SupportedInChain
  <2>. QED  BY <1>2, <1>4, <2>1
<1>. QED  BY <1>5, <1>6, <1>7

-----------------------------------------------------------------------------
\* How the handling of a message ends, from the state st of node n.
Leaders(st) ==
    {l \in st.dag \cap Vertices : l = leader_of(round(l)) /\ round(l) > st.last_committed_round}

Kept(n, st) == state' = [state EXCEPT ![n] = st] /\ output' = output /\ halted' = halted

Panicked(n, st, last) ==
    /\ panics(st, last)
    /\ state' = [state EXCEPT ![n] = st] /\ output' = output /\ halted' = halted \cup {n}

Committed(n, st, last) ==
    \E d : /\ Commits_leader(st, last, d)
           /\ state' = [state EXCEPT ![n] = d.st]
           /\ output' = [output EXCEPT ![n] = @ \o d.sequence]
           /\ halted' = halted

Outcome(n, st) ==
    \/ Kept(n, st)
    \/ \E last \in Leaders(st) : Panicked(n, st, last) \/ Committed(n, st, last)

\* What every node's state is, whatever happens.
OrderingInv ==
    /\ HistoryInv
    /\ state \in [Node -> StateType]
    /\ output \in [Node -> Seq(Vertices)]
    /\ heard \in [Node -> [Vertices -> Nat]]
    /\ restarts \in [Node -> Nat]
    /\ halted \subseteq Node
    /\ strays \in [Node -> SUBSET Vertices]
    /\ \A n \in Node : WellState(state[n]) /\ state[n].dag \subseteq Handed(n)

\* A scenario is one of the given ones.
LEMMA ScenarioType ==
    ASSUME HistoryInv
    PROVE  /\ scenario \in Scenarios /\ parents \in Dags /\ gc_depth \in Nat
           /\ scenario.nodes \subseteq Node /\ scenario.restarts \in Nat
BY BoundsAssumption DEF HistoryInv, gc_depth

\* A leader that is to be committed is, or the engine panics.
LEMMA CommitOutcome ==
    ASSUME parents \in Dags, gc_depth \in Nat, NEW n \in Node,
           NEW st, WellState(st), NEW last \in Leaders(st), Commit(n, st, last)
    PROVE  Panicked(n, st, last) \/ Committed(n, st, last)
<1>1. CASE panics(st, last)
  BY <1>1 DEF Commit, Panicked
<1>2. CASE ~panics(st, last)
  <2>1. Commits_leader(st, last, commit(st, last))
    BY CommitLeader DEF Leaders
  <2>. DEFINE d == commit(st, last)
  <2>2. /\ state' = [state EXCEPT ![n] = d.st]
        /\ output' = [output EXCEPT ![n] = @ \o d.sequence]
        /\ halted' = halted
    BY <1>2 DEF Commit
  <2>. HIDE DEF d
  <2>3. Commits_leader(st, last, d)
    BY <2>1 DEF d
  <2>. QED  BY <2>2, <2>3 DEF Committed
<1>. QED  BY <1>1, <1>2

\* The leader of a round that is not settled can be committed.
LEMMA UnsettledLeader ==
    ASSUME parents \in Dags, NEW st, WellState(st), NEW x \in Vertices,
           ~Settled(st, round(x) - 1)
    PROVE  leader_of(round(x) - 1) \in Leaders(st)
<1>. DEFINE r == round(x) - 1
<1>1. r \in Nat
  <2>1. round(x) \in Nat /\ round(x) > 0
    BY DagRules DEF Rules
  <2>. QED  BY <2>1
<1>2. st.last_committed_round \in Nat /\ st.dag \subseteq Certificates
  BY DEF WellState, StateType
<1>. HIDE DEF r
<1>3. r > st.last_committed_round /\ leader_of(r) \in st.dag
  BY <1>1, <1>2 DEF Settled, r
<1>4. round(leader_of(r)) = r
  BY DEF round, leader_of
<1>5. leader_of(r) \in Vertices
  BY <1>1, <1>2, <1>3, <1>4, CertificateType
<1>6. leader_of(r) \in Leaders(st)
  BY <1>3, <1>4, <1>5 DEF Leaders
<1>. QED  BY <1>6 DEF r

\* How the handling of a header ends.
LEMMA HeaderOutcome ==
    ASSUME OrderingInv, NEW n \in Node, NEW h \in Vertices, ProcessHeader(n, h)
    PROVE  /\ Outcome(n, state[n])
           /\ heard' = [heard EXCEPT ![n][h] = @ + 1]
           /\ scenario' = scenario /\ received' = received /\ restarts' = restarts
           /\ strays' = strays
<1>. DEFINE st == state[n]
            r == round(h) - 1
<1>1. parents \in Dags /\ gc_depth \in Nat /\ WellState(st) /\ state \in [Node -> StateType]
  BY ScenarioType DEF OrderingInv
<1>2. state = [state EXCEPT ![n] = st]
  BY <1>1
<1>3. \/ UNCHANGED <<state, output, halted>>
      \/ ~Settled(st, r) /\ Commit(n, st, leader_of(r))
  BY DEF ProcessHeader
<1>4. CASE UNCHANGED <<state, output, halted>>
  <2>. HIDE DEF st
  <2>1. Kept(n, st)
    BY <1>2, <1>4 DEF Kept
  <2>2. Outcome(n, st)
    BY <2>1 DEF Outcome
  <2>. QED  BY <2>2 DEF st, ProcessHeader
<1>5. CASE ~Settled(st, r) /\ Commit(n, st, leader_of(r))
  <2>. HIDE DEF st
  <2>1. leader_of(r) \in Leaders(st)
    BY <1>1, <1>5, UnsettledLeader
  <2>. HIDE DEF r
  <2>2. Outcome(n, st)
    BY <1>1, <1>5, <2>1, CommitOutcome DEF Outcome
  <2>. QED  BY <2>2 DEF st, ProcessHeader
<1>. QED  BY <1>3, <1>4, <1>5 DEF ProcessHeader

\* The authors of the children of the previous round's leader in the dag.
SupportOf(st, c) ==
    {origin(v) : v \in {x \in st.dag : round(x) = round(c) /\ leader_of(round(c) - 1) \in parents[x]}}

\* How the handling of a certificate ends.
LEMMA CertificateOutcome ==
    ASSUME OrderingInv, NEW n \in Node, NEW c \in Vertices, ProcessCertificate(n, c)
    PROVE  LET st == Receive(state[n], c)
           IN  /\ \/ Kept(n, st)
                     /\ (Settled(st, round(c) - 1) \/ ~IsValid(SupportOf(st, c)))
                  \/ /\ leader_of(round(c) - 1) \in Leaders(st) /\ IsValid(SupportOf(st, c))
                     /\ \/ Panicked(n, st, leader_of(round(c) - 1))
                        \/ Committed(n, st, leader_of(round(c) - 1))
               /\ received' = [received EXCEPT ![n][c] = @ + 1]
               /\ parents[c] \ genesis \subseteq Handed(n)
               /\ scenario' = scenario /\ heard' = heard /\ restarts' = restarts
               /\ strays' = IF round(c) < state[n].last_committed[origin(c)]
                              THEN [strays EXCEPT ![n] = @ \cup {c}] ELSE strays
<1>. DEFINE st == Receive(state[n], c)
            r == round(c) - 1
<1>1. parents \in Dags /\ gc_depth \in Nat /\ WellState(state[n])
  BY ScenarioType DEF OrderingInv
<1>2. WellState(st)
  BY <1>1, ReceiveWellState
<1>3. /\ IF ~Settled(st, r) /\ IsValid(SupportOf(st, c))
           THEN Commit(n, st, leader_of(r))
           ELSE state' = [state EXCEPT ![n] = st] /\ UNCHANGED <<output, halted>>
      /\ received' = [received EXCEPT ![n][c] = @ + 1]
      /\ scenario' = scenario /\ heard' = heard /\ restarts' = restarts
      /\ strays' = IF round(c) < st.last_committed[origin(c)]
                     THEN [strays EXCEPT ![n] = @ \cup {c}] ELSE strays
      /\ st.last_committed = state[n].last_committed
  <2>1. st.last_committed = state[n].last_committed
    BY <1>1, ReceiveWellState
  <2>. QED  BY <2>1 DEF ProcessCertificate, Receive, SupportOf
<1>4. parents[c] \ genesis \subseteq Handed(n)
  <2>1. parents[c] \subseteq Certificates
    BY <1>1, DagRules DEF Rules
  <2>. QED  BY <2>1 DEF ProcessCertificate, deliver_certificate, Handed, Certificates
<1>. HIDE DEF st
<1>5. CASE ~Settled(st, r) /\ IsValid(SupportOf(st, c))
  <2>1. leader_of(r) \in Leaders(st)
    BY <1>1, <1>2, <1>5, UnsettledLeader
  <2>2. Panicked(n, st, leader_of(r)) \/ Committed(n, st, leader_of(r))
    BY <1>1, <1>2, <1>3, <1>5, <2>1, CommitOutcome
  <2>. QED  BY <1>3, <1>4, <1>5, <2>1, <2>2 DEF st
<1>6. CASE Settled(st, r) \/ ~IsValid(SupportOf(st, c))
  <2>1. Kept(n, st)
    BY <1>3, <1>6 DEF Kept
  <2>. QED  BY <1>3, <1>4, <1>6, <2>1 DEF st
<1>. QED  BY <1>5, <1>6

\* What an outcome does to the node and to the others.
After(n, st) ==
    /\ state' \in [Node -> StateType] /\ output' \in [Node -> Seq(Vertices)]
    /\ halted' \subseteq Node
    /\ \A m \in Node \ {n} : state'[m] = state[m] /\ output'[m] = output[m]
    /\ WellState(state'[n]) /\ state'[n].dag \subseteq st.dag
    /\ IsPrefix(output[n], output'[n])
    /\ st.last_committed_round <= state'[n].last_committed_round
    /\ \A a \in Authority : st.last_committed[a] <= state'[n].last_committed[a]
    /\ \/ state'[n] = st /\ output'[n] = output[n]
       \/ \E last \in Leaders(st) : \E d : /\ Commits_leader(st, last, d)
                                            /\ state'[n] = d.st
                                            /\ output'[n] = output[n] \o d.sequence

\* Whatever the outcome, it does no more than that.
LEMMA OutcomeState ==
    ASSUME parents \in Dags, gc_depth \in Nat,
           state \in [Node -> StateType], output \in [Node -> Seq(Vertices)],
           halted \subseteq Node, NEW n \in Node, NEW st, WellState(st), Outcome(n, st)
    PROVE  After(n, st)
<1>1. /\ st \in StateType /\ output[n] \in Seq(Vertices)
      /\ st.last_committed_round \in Nat
      /\ \A a \in Authority : st.last_committed[a] \in Nat
  BY DEF WellState, StateType
<1>2. CASE state' = [state EXCEPT ![n] = st] /\ output' = output /\ halted' \subseteq Node
  <2>1. /\ state' \in [Node -> StateType] /\ output' \in [Node -> Seq(Vertices)]
        /\ \A m \in Node \ {n} : state'[m] = state[m] /\ output'[m] = output[m]
        /\ state'[n] = st /\ output'[n] = output[n]
    BY <1>1, <1>2
  <2>2. IsPrefix(output[n], output'[n])
    BY <1>1, <2>1, ConcatPrefix
  <2>3. /\ st.last_committed_round <= st.last_committed_round
        /\ \A a \in Authority : st.last_committed[a] <= st.last_committed[a]
    BY <1>1
  <2>. QED  BY <1>2, <2>1, <2>2, <2>3 DEF After
<1>3. ASSUME NEW last \in Leaders(st), Committed(n, st, last)
      PROVE  After(n, st)
  <2>1. PICK d : /\ Commits_leader(st, last, d)
                 /\ state' = [state EXCEPT ![n] = d.st]
                 /\ output' = [output EXCEPT ![n] = @ \o d.sequence]
                 /\ halted' = halted
    BY <1>3 DEF Committed
  <2>2. d.sequence \in Seq(Vertices) /\ Advances(st, d.st, ToSet(d.sequence))
    BY <2>1 DEF Commits_leader
  <2>3. /\ WellState(d.st) /\ d.st.dag \subseteq st.dag
        /\ st.last_committed_round <= d.st.last_committed_round
        /\ \A a \in Authority : st.last_committed[a] <= d.st.last_committed[a]
    BY <2>2 DEF Advances
  <2>4. d.st \in StateType /\ output[n] \o d.sequence \in Seq(Vertices)
    BY <1>1, <2>2, <2>3 DEF WellState
  <2>5. /\ state' \in [Node -> StateType] /\ output' \in [Node -> Seq(Vertices)]
        /\ \A m \in Node \ {n} : state'[m] = state[m] /\ output'[m] = output[m]
        /\ state'[n] = d.st /\ output'[n] = output[n] \o d.sequence
    BY <2>1, <2>4
  <2>6. IsPrefix(output[n], output'[n])
    BY <1>1, <2>2, <2>5, ConcatPrefix
  <2>. QED  BY <2>1, <2>3, <2>5, <2>6 DEF After
<1>4. CASE Kept(n, st)
  BY <1>2, <1>4 DEF Kept
<1>5. ASSUME NEW last \in Leaders(st), Panicked(n, st, last)
      PROVE  state' = [state EXCEPT ![n] = st] /\ output' = output /\ halted' \subseteq Node
  BY <1>5 DEF Panicked
<1>. QED  BY <1>2, <1>3, <1>4, <1>5 DEF Outcome

-----------------------------------------------------------------------------
\* What each handler leaves alone, and what it hands over.
LEMMA HandedOver ==
    ASSUME HistoryInv, NEW n \in Node, NEW c \in Vertices, scenario' = scenario,
           received' = [received EXCEPT ![n][c] = @ + 1]
    PROVE  /\ Handed(n)' = Handed(n) \cup {c}
           /\ \A m \in Node \ {n} : Handed(m)' = Handed(m)
<1>1. /\ received \in [Node -> [Vertices -> Nat]] /\ Vertices' = Vertices
      /\ genesis' = genesis
  BY DEF HistoryInv, Vertices, parents, genesis
<1>2. /\ \A m \in Node \ {n} : \A v \in Vertices : received'[m][v] = received[m][v]
      /\ \A v \in Vertices : received'[n][v] > 0 <=> (received[n][v] > 0 \/ v = c)
  BY <1>1
<1>. QED  BY <1>1, <1>2 DEF Handed

\* What leaves the deliveries alone hands nothing over.
LEMMA NothingHandedOver ==
    ASSUME scenario' = scenario, received' = received
    PROVE  \A m \in Node : Handed(m)' = Handed(m)
BY DEF Handed, Vertices, parents

\* The invariant in the next state, said with the operators of this one.
LEMMA OrderingNext ==
    ASSUME HistoryInv', scenario' = scenario,
           state' \in [Node -> StateType], output' \in [Node -> Seq(Vertices)],
           heard' \in [Node -> [Vertices -> Nat]], restarts' \in [Node -> Nat],
           halted' \subseteq Node, strays' \in [Node -> SUBSET Vertices],
           \A n \in Node : WellState(state'[n]) /\ state'[n].dag \subseteq Handed(n)'
    PROVE  OrderingInv'
BY DEF OrderingInv, StateType, WellState, Vertices, Certificates, parents

\* The engines start as they should.
LEMMA OrderingInit == Init => OrderingInv
<1>. SUFFICES ASSUME Init PROVE OrderingInv
  OBVIOUS
<1>1. HistoryInv
  BY InitHistory
<1>2. /\ state = [n \in Node |-> InitialState] /\ output = [n \in Node |-> <<>>]
      /\ received = [n \in Node |-> [v \in Vertices |-> 0]]
      /\ heard = [n \in Node |-> [v \in Vertices |-> 0]]
      /\ halted = {} /\ restarts = [n \in Node |-> 0] /\ strays = [n \in Node |-> {}]
  BY DEF Init
<1>3. WellState(InitialState) /\ InitialState \in StateType /\ InitialState.dag = genesis
  BY InitialWellState DEF WellState, InitialState
<1>4. \A n \in Node : WellState(state[n]) /\ state[n].dag \subseteq Handed(n)
  BY <1>2, <1>3 DEF Handed
<1>. QED  BY <1>1, <1>2, <1>3, <1>4 DEF OrderingInv

\* A header keeps them so.
LEMMA HeaderOrdering ==
    ASSUME OrderingInv, NEW n \in Node, NEW h \in Vertices, ProcessHeader(n, h)
    PROVE  After(n, state[n]) /\ OrderingInv'
<1>1. /\ HistoryInv /\ parents \in Dags /\ gc_depth \in Nat
      /\ state \in [Node -> StateType] /\ output \in [Node -> Seq(Vertices)]
      /\ heard \in [Node -> [Vertices -> Nat]] /\ restarts \in [Node -> Nat]
      /\ halted \subseteq Node /\ strays \in [Node -> SUBSET Vertices]
      /\ \A m \in Node : WellState(state[m]) /\ state[m].dag \subseteq Handed(m)
  BY ScenarioType DEF OrderingInv
<1>2. /\ Outcome(n, state[n])
      /\ heard' = [heard EXCEPT ![n][h] = @ + 1]
      /\ scenario' = scenario /\ received' = received /\ restarts' = restarts
      /\ strays' = strays
  BY HeaderOutcome
<1>3. After(n, state[n])
  BY <1>1, <1>2, OutcomeState
<1>4. HistoryInv'
  BY <1>1, <1>2, OthersHistory
<1>5. \A m \in Node : Handed(m)' = Handed(m)
  BY <1>2, NothingHandedOver
<1>6. \A m \in Node : WellState(state'[m]) /\ state'[m].dag \subseteq Handed(m)'
  BY <1>1, <1>3, <1>5 DEF After
<1>7. heard' \in [Node -> [Vertices -> Nat]]
  BY <1>1, <1>2
<1>8. /\ state' \in [Node -> StateType] /\ output' \in [Node -> Seq(Vertices)]
      /\ halted' \subseteq Node
  BY <1>3 DEF After
<1>9. OrderingInv'
  BY <1>1, <1>2, <1>4, <1>6, <1>7, <1>8, OrderingNext
<1>. QED  BY <1>3, <1>9

\* So does a certificate.
LEMMA CertificateOrdering ==
    ASSUME OrderingInv, NEW n \in Node, NEW c \in Vertices, ProcessCertificate(n, c)
    PROVE  /\ WellState(Receive(state[n], c)) /\ Outcome(n, Receive(state[n], c))
           /\ After(n, Receive(state[n], c))
           /\ OrderingInv'
<1>. DEFINE st == Receive(state[n], c)
<1>1. /\ HistoryInv /\ parents \in Dags /\ gc_depth \in Nat
      /\ state \in [Node -> StateType] /\ output \in [Node -> Seq(Vertices)]
      /\ heard \in [Node -> [Vertices -> Nat]] /\ restarts \in [Node -> Nat]
      /\ received \in [Node -> [Vertices -> Nat]]
      /\ halted \subseteq Node /\ strays \in [Node -> SUBSET Vertices]
      /\ \A m \in Node : WellState(state[m]) /\ state[m].dag \subseteq Handed(m)
  BY ScenarioType DEF OrderingInv, HistoryInv
<1>2. /\ Outcome(n, st)
      /\ received' = [received EXCEPT ![n][c] = @ + 1]
      /\ scenario' = scenario /\ heard' = heard /\ restarts' = restarts
      /\ \/ strays' = strays
         \/ strays' = [strays EXCEPT ![n] = @ \cup {c}]
  BY CertificateOutcome DEF Outcome
<1>3. WellState(st) /\ st.dag = state[n].dag \cup {c}
  BY <1>1, ReceiveWellState
<1>. HIDE DEF st
<1>4. After(n, st)
  BY <1>1, <1>2, <1>3, OutcomeState
<1>5. HistoryInv'
  BY <1>1, CertificateHistory
<1>6. Handed(n)' = Handed(n) \cup {c} /\ \A m \in Node \ {n} : Handed(m)' = Handed(m)
  BY <1>1, <1>2, HandedOver
<1>7. \A m \in Node : WellState(state'[m]) /\ state'[m].dag \subseteq Handed(m)'
  <2>1. WellState(state'[n]) /\ state'[n].dag \subseteq Handed(n)'
    BY <1>1, <1>3, <1>4, <1>6 DEF After
  <2>2. \A m \in Node \ {n} : WellState(state'[m]) /\ state'[m].dag \subseteq Handed(m)'
    BY <1>1, <1>4, <1>6 DEF After
  <2>. QED  BY <2>1, <2>2
<1>8. strays' \in [Node -> SUBSET Vertices]
  <2>1. CASE strays' = strays
    BY <1>1, <2>1
  <2>2. CASE strays' = [strays EXCEPT ![n] = @ \cup {c}]
    <3>1. strays[n] \cup {c} \in SUBSET Vertices
      BY <1>1
    <3>. QED  BY <1>1, <2>2, <3>1
  <2>. QED  BY <1>2, <2>1, <2>2
<1>9. /\ state' \in [Node -> StateType] /\ output' \in [Node -> Seq(Vertices)]
      /\ halted' \subseteq Node
  BY <1>4 DEF After
<1>10. OrderingInv'
  BY <1>1, <1>2, <1>5, <1>7, <1>8, <1>9, OrderingNext
<1>. QED  BY <1>2, <1>3, <1>4, <1>10 DEF st

\* So does a restart.
LEMMA RestartOrdering ==
    ASSUME OrderingInv, NEW n \in Node, Restart(n)
    PROVE  /\ state' = [state EXCEPT ![n] = InitialState]
           /\ output' = output /\ received' = received /\ scenario' = scenario
           /\ halted' = halted \ {n}
           /\ OrderingInv'
<1>1. /\ HistoryInv /\ parents \in Dags
      /\ state \in [Node -> StateType] /\ output \in [Node -> Seq(Vertices)]
      /\ heard \in [Node -> [Vertices -> Nat]] /\ restarts \in [Node -> Nat]
      /\ halted \subseteq Node /\ strays \in [Node -> SUBSET Vertices]
      /\ \A m \in Node : WellState(state[m]) /\ state[m].dag \subseteq Handed(m)
  BY ScenarioType DEF OrderingInv
<1>2. /\ state' = [state EXCEPT ![n] = InitialState]
      /\ output' = output /\ received' = received /\ scenario' = scenario /\ heard' = heard
      /\ strays' = strays
      /\ halted' = halted \ {n} /\ restarts' = [restarts EXCEPT ![n] = @ + 1]
  BY DEF Restart
<1>3. WellState(InitialState) /\ InitialState \in StateType /\ InitialState.dag = genesis
  BY InitialWellState DEF WellState, InitialState
<1>4. HistoryInv' /\ \A m \in Node : Handed(m)' = Handed(m)
  BY <1>1, <1>2, OthersHistory, NothingHandedOver
<1>5. \A m \in Node : WellState(state'[m]) /\ state'[m].dag \subseteq Handed(m)'
  <2>1. genesis \subseteq Handed(n)
    BY DEF Handed
  <2>2. \A m \in Node : state'[m] = IF m = n THEN InitialState ELSE state[m]
    BY <1>1, <1>2
  <2>. QED  BY <1>1, <1>3, <1>4, <2>1, <2>2
<1>6. state' \in [Node -> StateType] /\ restarts' \in [Node -> Nat]
  BY <1>1, <1>2, <1>3
<1>7. OrderingInv'
  BY <1>1, <1>2, <1>4, <1>5, <1>6, OrderingNext
<1>. QED  BY <1>2, <1>7

\* And so does nothing at all.
LEMMA StutterOrdering ==
    ASSUME OrderingInv, UNCHANGED vars
    PROVE  OrderingInv'
<1>1. HistoryInv'
  BY OthersHistory DEF OrderingInv, vars
<1>2. \A m \in Node : Handed(m)' = Handed(m)
  BY NothingHandedOver DEF vars
<1>. QED  BY <1>1, <1>2, OrderingNext DEF OrderingInv, vars

\* The engines are as they should be at every time.
LEMMA OrderingInvariant == Spec => []OrderingInv
<1>1. OrderingInv /\ [Next]_vars => OrderingInv'
  <2>. SUFFICES ASSUME OrderingInv, [Next]_vars PROVE OrderingInv'
    OBVIOUS
  <2>1. ASSUME NEW n \in Node, NEW h \in Vertices, ProcessHeader(n, h)
        PROVE  OrderingInv'
    BY <2>1, HeaderOrdering
  <2>2. ASSUME NEW n \in Node, NEW c \in Vertices, ProcessCertificate(n, c)
        PROVE  OrderingInv'
    BY <2>2, CertificateOrdering
  <2>3. ASSUME NEW n \in Node, Restart(n)
        PROVE  OrderingInv'
    BY <2>3, RestartOrdering
  <2>4. CASE UNCHANGED vars
    BY <2>4, StutterOrdering
  <2>5. scenario.nodes \subseteq Node
    BY ScenarioType DEF OrderingInv
  <2>. QED  BY <2>1, <2>2, <2>3, <2>4, <2>5 DEF Next
<1>. QED  BY <1>1, OrderingInit, PTL DEF Spec

-----------------------------------------------------------------------------
\* Every variable has its type at every time, and the last committed round is
\* the latest of the authorities' (State, lib.rs:19-62).
THEOREM Types == Spec => []TypeOK
<1>1. OrderingInv /\ CountedInv => TypeOK
  <2>1. SUFFICES ASSUME OrderingInv, CountedInv PROVE TypeOK
    OBVIOUS
  <2>2. \A v \in Vertices : parents[v] \subseteq Certificates
    BY <2>1, ScenarioType, DagRules DEF Rules, OrderingInv
  <2>3. \A n \in Node : \A v \in Vertices : received[n][v] \in Nat /\ heard[n][v] \in Nat
    BY <2>1 DEF OrderingInv, HistoryInv
  <2>4. \A n \in Node : \A r \in {round(v) : v \in Vertices} : stake_vote[n][r] \in Nat
    BY <2>1 DEF CountedInv, HeaderRoundsOf
  <2>5. \A n \in Node : strays[n] \subseteq Vertices
    BY <2>1 DEF OrderingInv
  <2>. QED  BY <2>1, <2>2, <2>3, <2>4, <2>5 DEF OrderingInv, TypeOK, WellState, StateType
<1>. QED  BY <1>1, OrderingInvariant, CountedInvariant, PTL

\* A step of an engine that does not restart.
Forward(n) ==
    /\ IsPrefix(output[n], output'[n])
    /\ \A a \in Authority : state[n].last_committed[a] <= state'[n].last_committed[a]

\* What was output stays, and no authority's last committed round goes back,
\* whatever the engine receives, until it restarts (update, lib.rs:45-62).
THEOREM Forwards == Spec => OnlyForward
<1>. DEFINE Going == \A n \in Node : restarts'[n] = restarts[n] => Forward(n)
<1>1. OrderingInv /\ [Next]_vars => Going \/ UNCHANGED vars
  <2>1. SUFFICES ASSUME OrderingInv, Next PROVE Going
    OBVIOUS
  <2>2. /\ parents \in Dags /\ state \in [Node -> StateType] /\ output \in [Node -> Seq(Vertices)]
        /\ restarts \in [Node -> Nat] /\ scenario.nodes \subseteq Node
        /\ \A m \in Node : WellState(state[m])
    BY <2>1, ScenarioType DEF OrderingInv
  <2>3. ASSUME NEW m \in Node, state'[m] = state[m], output'[m] = output[m]
        PROVE  Forward(m)
    <3>1. IsPrefix(output[m], output'[m])
      BY <2>2, <2>3, ConcatPrefix
    <3>2. \A a \in Authority : state[m].last_committed[a] \in Nat
      BY <2>2, CommittedBound
    <3>. QED  BY <2>3, <3>1, <3>2 DEF Forward
  <2>4. ASSUME NEW n \in Node, NEW st, After(n, st),
               st.last_committed = state[n].last_committed
        PROVE  Going
    <3>1. Forward(n)
      BY <2>4 DEF After, Forward
    <3>2. \A m \in Node \ {n} : state'[m] = state[m] /\ output'[m] = output[m]
      BY <2>4 DEF After
    <3>. QED  BY <2>3, <3>1, <3>2
  <2>5. ASSUME NEW n \in Node, NEW h \in Vertices, ProcessHeader(n, h)
        PROVE  Going
    BY <2>1, <2>4, <2>5, HeaderOrdering
  <2>6. ASSUME NEW n \in Node, NEW c \in Vertices, ProcessCertificate(n, c)
        PROVE  Going
    <3>1. After(n, Receive(state[n], c))
      BY <2>1, <2>6, CertificateOrdering
    <3>2. Receive(state[n], c).last_committed = state[n].last_committed
      BY <2>2, ReceiveWellState
    <3>. HIDE DEF Going
    <3>. QED  BY <2>4, <3>1, <3>2
  <2>7. ASSUME NEW n \in Node, Restart(n)
        PROVE  Going
    <3>1. /\ state' = [state EXCEPT ![n] = InitialState] /\ output' = output
          /\ restarts' = [restarts EXCEPT ![n] = @ + 1]
      BY <2>7 DEF Restart
    <3>2. restarts'[n] # restarts[n]
      BY <2>2, <3>1
    <3>3. \A m \in Node \ {n} : state'[m] = state[m] /\ output'[m] = output[m]
      BY <2>2, <3>1
    <3>. QED  BY <2>3, <3>2, <3>3
  <2>. HIDE DEF Going
  <2>. QED  BY <2>1, <2>2, <2>5, <2>6, <2>7 DEF Next
<1>2. OrderingInv /\ [Next]_vars => [Going]_vars
  BY <1>1
<1>3. Spec => [][Going]_vars
  BY <1>2, OrderingInvariant, PTL DEF Spec
<1>. QED  BY <1>3 DEF OnlyForward, Forward

-----------------------------------------------------------------------------
\* Of no certificate was there more to output than was handed over.
TalliedInv == OrderingInv /\ \A n \in Node : Tallied(state[n], output[n], received[n])

\* The invariant in the next state.
LEMMA TalliedNext ==
    ASSUME OrderingInv', scenario' = scenario,
           \A n \in Node : Tallied(state'[n], output'[n], received'[n])
    PROVE  TalliedInv'
BY DEF TalliedInv, Tallied, ToOutput, Occurrences, Gone, Vertices, parents

\* The outcome of a handler is counted.
LEMMA OutcomeTallied ==
    ASSUME parents \in Dags, NEW n \in Node, NEW st, WellState(st), After(n, st),
           output \in [Node -> Seq(Vertices)],
           NEW got \in [Vertices -> Nat], Tallied(st, output[n], got)
    PROVE  Tallied(state'[n], output'[n], got)
<1>1. CASE state'[n] = st /\ output'[n] = output[n]
  BY <1>1
<1>2. ASSUME NEW last \in Leaders(st), NEW d, Commits_leader(st, last, d),
             state'[n] = d.st, output'[n] = output[n] \o d.sequence
      PROVE  Tallied(state'[n], output'[n], got)
  BY <1>2, CommitTallied
<1>. QED  BY <1>1, <1>2 DEF After

\* It holds however often a certificate is handed over.
LEMMA TalliedInvariant == Spec => []TalliedInv
<1>1. ASSUME NEW v \in Vertices, parents \in Dags PROVE ToOutput(InitialState, v) = 0
  <2>1. v \notin genesis
    BY <1>1, CertificateType, DagRules DEF Rules, Certificates
  <2>. QED  BY <2>1 DEF ToOutput, Gone, InitialState
<1>2. Init => TalliedInv
  <2>. SUFFICES ASSUME Init PROVE TalliedInv
    OBVIOUS
  <2>1. OrderingInv /\ parents \in Dags
    BY OrderingInit, ScenarioType DEF OrderingInv
  <2>2. \A n \in Node : /\ output[n] = <<>> /\ state[n] = InitialState
                        /\ received[n] = [v \in Vertices |-> 0]
    BY DEF Init
  <2>3. \A v : Occurrences(<<>>, v) = {}
    BY DEF Occurrences
  <2>4. ASSUME NEW n \in Node, NEW v \in Vertices
        PROVE  Cardinality(Occurrences(output[n], v)) + ToOutput(state[n], v) <= received[n][v]
    <3>1. Cardinality(Occurrences(output[n], v)) = 0
      BY <2>2, <2>3, FS_EmptySet
    <3>2. ToOutput(state[n], v) = 0 /\ received[n][v] = 0
      BY <1>1, <2>1, <2>2
    <3>. QED  BY <3>1, <3>2
  <2>. QED  BY <2>1, <2>4 DEF TalliedInv, Tallied
<1>3. TalliedInv /\ [Next]_vars => TalliedInv'
  <2>. SUFFICES ASSUME TalliedInv, [Next]_vars PROVE TalliedInv'
    OBVIOUS
  <2>1. /\ OrderingInv /\ HistoryInv /\ parents \in Dags /\ state \in [Node -> StateType]
        /\ output \in [Node -> Seq(Vertices)] /\ scenario.nodes \subseteq Node
        /\ received \in [Node -> [Vertices -> Nat]]
        /\ \A m \in Node : WellState(state[m]) /\ Tallied(state[m], output[m], received[m])
    BY ScenarioType DEF TalliedInv, OrderingInv, HistoryInv
  <2>2. ASSUME NEW n \in Node, NEW h \in Vertices, ProcessHeader(n, h)
        PROVE  TalliedInv'
    <3>1. After(n, state[n]) /\ OrderingInv'
      BY <2>1, <2>2, HeaderOrdering
    <3>2. scenario' = scenario /\ received' = received
      BY <2>2 DEF ProcessHeader
    <3>3. Tallied(state'[n], output'[n], received[n])
      BY <2>1, <3>1, OutcomeTallied
    <3>4. \A m \in Node : Tallied(state'[m], output'[m], received'[m])
      BY <2>1, <3>1, <3>2, <3>3 DEF After
    <3>. QED  BY <3>1, <3>2, <3>4, TalliedNext
  <2>3. ASSUME NEW n \in Node, NEW c \in Vertices, ProcessCertificate(n, c)
        PROVE  TalliedInv'
    <3>. DEFINE st == Receive(state[n], c)
                got == [received[n] EXCEPT ![c] = @ + 1]
    <3>1. WellState(st) /\ After(n, st) /\ OrderingInv'
      BY <2>1, <2>3, CertificateOrdering
    <3>2. scenario' = scenario /\ received' = [received EXCEPT ![n][c] = @ + 1]
      BY <2>3 DEF ProcessCertificate
    <3>3. /\ received'[n] = got /\ got \in [Vertices -> Nat]
          /\ \A m \in Node \ {n} : received'[m] = received[m]
      BY <2>1, <3>2
    <3>4. Tallied(st, output[n], got)
      BY <2>1, ReceiveTallied
    <3>. HIDE DEF st, got
    <3>5. Tallied(state'[n], output'[n], got)
      BY <2>1, <3>1, <3>3, <3>4, OutcomeTallied
    <3>6. \A m \in Node : Tallied(state'[m], output'[m], received'[m])
      BY <2>1, <3>1, <3>3, <3>5 DEF After
    <3>. QED  BY <3>1, <3>2, <3>6, TalliedNext
  <2>4. ASSUME NEW n \in Node, Restart(n)
        PROVE  TalliedInv'
    <3>1. /\ state' = [state EXCEPT ![n] = InitialState]
          /\ output' = output /\ received' = received /\ scenario' = scenario
          /\ OrderingInv'
      BY <2>1, <2>4, RestartOrdering
    <3>2. Tallied(InitialState, output[n], received[n])
      <4>1. SUFFICES ASSUME NEW v \in Vertices
                     PROVE  Cardinality(Occurrences(output[n], v)) + ToOutput(InitialState, v)
                                <= received[n][v]
        BY DEF Tallied
      <4>2. /\ Cardinality(Occurrences(output[n], v)) + ToOutput(state[n], v) <= received[n][v]
            /\ Cardinality(Occurrences(output[n], v)) \in Nat /\ received[n][v] \in Nat
        <5>1. output[n] \in Seq(Vertices)
          BY <2>1
        <5>. QED  BY <2>1, <5>1, OccurrencesAdd DEF Tallied
      <4>3. ToOutput(state[n], v) \in {0, 1} /\ ToOutput(InitialState, v) = 0
        BY <1>1, <2>1 DEF ToOutput
      <4>. QED  BY <4>2, <4>3
    <3>3. \A m \in Node : state'[m] = IF m = n THEN InitialState ELSE state[m]
      BY <2>1, <3>1
    <3>4. \A m \in Node : Tallied(state'[m], output'[m], received'[m])
      BY <2>1, <3>1, <3>2, <3>3
    <3>. QED  BY <3>1, <3>4, TalliedNext
  <2>5. CASE UNCHANGED vars
    <3>1. OrderingInv' /\ scenario' = scenario
      BY <2>1, <2>5, StutterOrdering DEF vars
    <3>2. \A m \in Node : Tallied(state'[m], output'[m], received'[m])
      BY <2>1, <2>5 DEF vars
    <3>. QED  BY <3>1, <3>2, TalliedNext
  <2>. QED  BY <2>1, <2>2, <2>3, <2>4, <2>5 DEF Next
<1>. QED  BY <1>2, <1>3, PTL DEF Spec

\* No engine outputs a certificate more often than it was handed to it, in any
\* order of delivery, with any number of deliveries and of restarts: by itself it
\* never comes back to one (update and order_dag, lib.rs:45-62,356-396).
THEOREM OutputsPerDelivery == Spec => []OutputPerDelivery
<1>1. TalliedInv => OutputPerDelivery
  <2>1. SUFFICES ASSUME TalliedInv, NEW n \in Node, NEW v \in Vertices
                 PROVE  Outputs(n, v) <= received[n][v]
    BY DEF OutputPerDelivery
  <2>2. /\ Cardinality(Occurrences(output[n], v)) + ToOutput(state[n], v) <= received[n][v]
        /\ Cardinality(Occurrences(output[n], v)) \in Nat /\ received[n][v] \in Nat
    <3>1. output[n] \in Seq(Vertices)
      BY <2>1 DEF TalliedInv, OrderingInv
    <3>. QED  BY <2>1, <3>1, OccurrencesAdd DEF TalliedInv, Tallied, OrderingInv, HistoryInv
  <2>3. ToOutput(state[n], v) \in {0, 1}
    BY DEF ToOutput
  <2>. QED  BY <2>2, <2>3 DEF Outputs, Occurrences
<1>. QED  BY <1>1, TalliedInvariant, PTL

-----------------------------------------------------------------------------
\* What an engine that never restarts has done with what it was handed, H.
Regular(st, out, H) == IsHistory(H, st) /\ Counted(st, H) /\ Included(st, out)

\* A commit of the latest supported leader keeps an engine regular.
LEMMA CommitRegular ==
    ASSUME parents \in Dags, gc_depth \in Nat, NEW st, WellState(st),
           NEW H, IsHistory(H, st), NEW out \in Seq(Vertices), Included(st, out),
           NEW last \in Leaders(st), NEW d, Commits_leader(st, last, d),
           \A v \in Vertices : HasSupport(v, H \cap Vertices) => round(v) <= round(last)
    PROVE  Regular(d.st, out \o d.sequence, H)
<1>1. last \in H \cap Vertices /\ last = leader_of(round(last))
  BY DEF Leaders, IsHistory
<1>2. IsHistory(H, d.st)
  BY CommitHistory
<1>3. Included(d.st, out \o d.sequence)
  BY <1>1, CommitIncluded
<1>4. Counted(d.st, H)
  BY DEF Counted, Commits_leader
<1>. QED  BY <1>2, <1>3, <1>4 DEF Regular

\* Nothing has the support of no header.
LEMMA NoSupport ==
    ASSUME NEW v, HasSupport(v, {})
    PROVE  FALSE
<1>1. {origin(y) : y \in Children(v, {})} = {}
  BY DEF Children
<1>2. StakeOf({}) >= validity_threshold
  BY <1>1 DEF HasSupport, IsValid
<1>. QED  BY <1>2, StakeEmpty, ThresholdTypes

\* An engine starts as a regular one.
LEMMA InitialRegular ==
    ASSUME parents \in Dags
    PROVE  Regular(InitialState, <<>>, genesis)
<1>1. genesis \cap Vertices = {}
  BY CertificateType DEF Certificates
<1>2. IsHistory(genesis, InitialState)
  BY <1>1 DEF IsHistory, InitialState, Certificates
<1>3. Counted(InitialState, genesis)
  BY <1>1, NoSupport DEF Counted
<1>4. Included(InitialState, <<>>)
  <2>1. \A v \in Vertices : round(v) \in Nat /\ round(v) > 0
    BY CertificateType DEF Certificates
  <2>. QED  BY <2>1 DEF Included, InitialState
<1>. QED  BY <1>2, <1>3, <1>4 DEF Regular

\* A certificate can only complete the support of the leader of the round before,
\* and when it does, the engine sees it.
LEMMA ReceiveCounts ==
    ASSUME parents \in Dags, gc_depth \in Nat, NEW st, WellState(st),
           NEW H, IsHistory(H, st), Counted(st, H),
           NEW c \in Vertices, parents[c] \ genesis \subseteq H,
           NEW v \in Vertices, HasSupport(v, (H \cup {c}) \cap Vertices),
           round(v) > st.last_committed_round
    PROVE  /\ v = leader_of(round(c) - 1) /\ round(v) = round(c) - 1
           /\ ~Settled(Receive(st, c), round(c) - 1)
           /\ IsValid(SupportOf(Receive(st, c), c))
<1>. DEFINE G == (H \cup {c}) \cap Vertices
            u == Receive(st, c)
<1>1. st.last_committed_round \in Nat /\ round(v) \in Nat /\ round(c) \in Nat
  BY CertificateType DEF Certificates, WellState, StateType
<1>2. v \in parents[c]
  <2>1. SUFFICES ASSUME v \notin parents[c] PROVE FALSE
    OBVIOUS
  <2>2. Children(v, G) = Children(v, H \cap Vertices)
    BY <2>1 DEF Children
  <2>3. HasSupport(v, H \cap Vertices)
    BY <2>2 DEF HasSupport
  <2>. QED  BY <1>1, <2>3 DEF Counted
<1>3. round(v) = round(c) - 1 /\ v = leader_of(round(c) - 1)
  BY <1>2, DagRules DEF Rules, HasSupport
<1>4. v \in st.dag
  <2>1. v \in H
    BY <1>2, CertificateType DEF Certificates
  <2>. QED  BY <2>1, LaterIsHeld
<1>5. u.dag = st.dag \cup {c} /\ u.last_committed_round = st.last_committed_round
  BY ReceiveWellState
<1>6. ~Settled(u, round(c) - 1)
  BY <1>1, <1>3, <1>4, <1>5 DEF Settled
<1>7. Children(v, G) \subseteq {x \in u.dag : round(x) = round(c) /\ leader_of(round(c) - 1) \in parents[x]}
  <2>1. SUFFICES ASSUME NEW y \in G, v \in parents[y]
                 PROVE  y \in u.dag /\ round(y) = round(c)
    BY <1>3 DEF Children
  <2>2. round(y) \in Nat /\ round(v) = round(y) - 1
    BY <2>1, DagRules, CertificateType DEF Rules
  <2>3. round(y) = round(c)
    BY <1>1, <1>3, <2>2
  <2>4. CASE y = c
    BY <1>5, <2>3, <2>4
  <2>5. CASE y \in H
    BY <1>1, <1>5, <2>2, <2>3, <2>5, LaterIsHeld
  <2>. QED  BY <2>4, <2>5
<1>8. {origin(y) : y \in Children(v, G)} \subseteq SupportOf(u, c)
  BY <1>7 DEF SupportOf
<1>9. SupportOf(u, c) \subseteq Authority
  <2>1. u.dag \subseteq Certificates
    BY <1>5, ReceiveWellState DEF WellState, StateType
  <2>. QED  BY <2>1, CertificateType DEF SupportOf
<1>10. IsValid(SupportOf(u, c))
  <2>. DEFINE S == {origin(y) : y \in Children(v, G)}
              T == SupportOf(u, c)
  <2>1. T \in SUBSET Authority /\ S \in SUBSET T /\ IsValid(S)
    BY <1>8, <1>9 DEF HasSupport
  <2>. HIDE DEF S, T
  <2>2. StakeOf(S) <= StakeOf(T) /\ StakeOf(S) \in Nat /\ StakeOf(T) \in Nat
    BY <2>1, StakeMonotone, StakeType
  <2>3. IsValid(T)
    BY <2>1, <2>2, ThresholdTypes DEF IsValid
  <2>. QED  BY <2>3 DEF T
<1>. QED  BY <1>3, <1>6, <1>10

-----------------------------------------------------------------------------
\* When no node restarts, no engine has stopped, and each of them is regular.
SteadyInv ==
    /\ OrderingInv
    /\ scenario.restarts = 0 =>
        /\ halted = {}
        /\ \A n \in Node : Regular(state[n], output[n], Handed(n))

\* The invariant in the next state.
LEMMA SteadyNext ==
    ASSUME OrderingInv', scenario' = scenario,
           scenario.restarts = 0 =>
               /\ halted' = {}
               /\ \A n \in Node : Regular(state'[n], output'[n], Handed(n)')
    PROVE  SteadyInv'
BY DEF SteadyInv, Regular, IsHistory, Counted, Included, HasSupport, Children, Past,
       Vertices, Certificates, parents, gc_depth

\* A header keeps the engines regular.
LEMMA HeaderSteady ==
    ASSUME SteadyInv, NEW n \in Node, NEW h \in Vertices, ProcessHeader(n, h)
    PROVE  SteadyInv'
<1>. DEFINE H == Handed(n)
            st == state[n]
<1>1. /\ OrderingInv /\ parents \in Dags /\ gc_depth \in Nat
      /\ state \in [Node -> StateType] /\ output \in [Node -> Seq(Vertices)] /\ WellState(st)
  BY ScenarioType DEF SteadyInv, OrderingInv
<1>2. OrderingInv' /\ After(n, st) /\ Outcome(n, st)
  BY <1>1, HeaderOrdering, HeaderOutcome
<1>3. scenario' = scenario /\ \A m \in Node : Handed(m)' = Handed(m)
  BY NothingHandedOver DEF ProcessHeader
<1>4. ASSUME scenario.restarts = 0
      PROVE  halted' = {} /\ Regular(state'[n], output'[n], H)
  <2>1. halted = {} /\ Regular(st, output[n], H) /\ IsHistory(H, st)
    BY <1>4 DEF SteadyInv, Regular
  <2>2. CASE Kept(n, st)
    BY <1>1, <2>1, <2>2 DEF Kept
  <2>3. ASSUME NEW last \in Leaders(st)
        PROVE  ~Panicked(n, st, last)
    BY <1>1, <2>1, NoPanic DEF Leaders, IsHistory, Panicked
  <2>4. ASSUME NEW last \in Leaders(st), Committed(n, st, last)
        PROVE  halted' = {} /\ Regular(state'[n], output'[n], H)
    <3>1. PICK d : /\ Commits_leader(st, last, d)
                   /\ state' = [state EXCEPT ![n] = d.st]
                   /\ output' = [output EXCEPT ![n] = @ \o d.sequence]
                   /\ halted' = halted
      BY <2>4 DEF Committed
    <3>2. \A v \in Vertices : HasSupport(v, H \cap Vertices) => round(v) <= round(last)
      <4>1. st.last_committed_round \in Nat /\ \A v \in Vertices : round(v) \in Nat
        BY <1>1, CertificateType DEF Certificates, WellState, StateType
      <4>2. last \in Vertices /\ round(last) > st.last_committed_round
        BY DEF Leaders
      <4>. QED  BY <2>1, <4>1, <4>2 DEF Regular, Counted
    <3>3. Included(st, output[n]) /\ output[n] \in Seq(Vertices)
      BY <1>1, <2>1 DEF Regular
    <3>4. Regular(d.st, output[n] \o d.sequence, H)
      <4>. HIDE DEF H, st
      <4>. QED  BY <1>1, <2>1, <3>1, <3>2, <3>3, CommitRegular
    <3>5. state'[n] = d.st /\ output'[n] = output[n] \o d.sequence
      BY <1>1, <3>1
    <3>. QED  BY <2>1, <3>1, <3>4, <3>5
  <2>. QED  BY <1>2, <2>2, <2>3, <2>4 DEF Outcome
<1>5. ASSUME scenario.restarts = 0
      PROVE  halted' = {} /\ \A m \in Node : Regular(state'[m], output'[m], Handed(m)')
  <2>1. \A m \in Node : Regular(state[m], output[m], Handed(m))
    BY <1>5 DEF SteadyInv
  <2>2. \A m \in Node \ {n} : state'[m] = state[m] /\ output'[m] = output[m]
    BY <1>2 DEF After
  <2>3. \A m \in Node : Regular(state'[m], output'[m], Handed(m))
    BY <1>4, <1>5, <2>1, <2>2
  <2>. QED  BY <1>3, <1>4, <1>5, <2>3
<1>. QED  BY <1>2, <1>3, <1>5, SteadyNext

\* So does a certificate.
LEMMA CertificateSteady ==
    ASSUME SteadyInv, NEW n \in Node, NEW c \in Vertices, ProcessCertificate(n, c)
    PROVE  SteadyInv'
<1>. DEFINE H == Handed(n)
            G == Handed(n) \cup {c}
            old == state[n]
            st == Receive(state[n], c)
            l == leader_of(round(c) - 1)
<1>1. /\ OrderingInv /\ HistoryInv /\ parents \in Dags /\ gc_depth \in Nat
      /\ state \in [Node -> StateType] /\ output \in [Node -> Seq(Vertices)] /\ WellState(old)
  BY ScenarioType DEF SteadyInv, OrderingInv
<1>2. OrderingInv' /\ After(n, st) /\ WellState(st)
  BY <1>1, CertificateOrdering
<1>3. /\ \/ Kept(n, st) /\ (Settled(st, round(c) - 1) \/ ~IsValid(SupportOf(st, c)))
         \/ l \in Leaders(st) /\ (Panicked(n, st, l) \/ Committed(n, st, l))
      /\ received' = [received EXCEPT ![n][c] = @ + 1]
      /\ parents[c] \ genesis \subseteq H
      /\ scenario' = scenario
  BY <1>1, CertificateOutcome
<1>4. Handed(n)' = G /\ \A m \in Node \ {n} : Handed(m)' = Handed(m)
  BY <1>1, <1>3, HandedOver
<1>5. /\ st.dag = old.dag \cup {c}
      /\ st.last_committed_round = old.last_committed_round
  BY <1>1, ReceiveWellState
<1>6. ASSUME scenario.restarts = 0
      PROVE  halted' = {} /\ Regular(state'[n], output'[n], G)
  <2>1. /\ halted = {} /\ IsHistory(H, old) /\ Counted(old, H) /\ Included(old, output[n])
    BY <1>6 DEF SteadyInv, Regular
  <2>2. IsHistory(G, st)
    <3>. HIDE DEF H, old
    <3>. QED  BY <1>1, <1>3, <2>1, ReceiveHistory DEF H, old
  <2>3. Included(st, output[n])
    BY <1>5, <2>1 DEF Included
  <2>4. ASSUME NEW v \in Vertices, HasSupport(v, G \cap Vertices),
               round(v) > st.last_committed_round
        PROVE  /\ v = l /\ round(v) = round(c) - 1
               /\ ~Settled(st, round(c) - 1) /\ IsValid(SupportOf(st, c))
    <3>1. round(v) > old.last_committed_round
      BY <1>5, <2>4
    <3>. QED  BY <1>1, <1>3, <2>1, <2>4, <3>1, ReceiveCounts
  <2>5. st.last_committed_round \in Nat /\ \A v \in Vertices : round(v) \in Nat
    BY <1>1, <1>2, CertificateType DEF Certificates, WellState, StateType
  <2>. HIDE DEF H, G, old, st, l
  <2>6. CASE Kept(n, st) /\ (Settled(st, round(c) - 1) \/ ~IsValid(SupportOf(st, c)))
    <3>1. Counted(st, G)
      BY <2>4, <2>5, <2>6 DEF Counted
    <3>2. state'[n] = st /\ output'[n] = output[n] /\ halted' = {}
      BY <1>1, <2>1, <2>6 DEF Kept
    <3>. QED  BY <2>2, <2>3, <3>1, <3>2 DEF Regular
  <2>7. CASE l \in Leaders(st) /\ Panicked(n, st, l)
    BY <1>1, <1>2, <2>2, <2>7, NoPanic DEF Leaders, IsHistory, Panicked
  <2>8. CASE l \in Leaders(st) /\ Committed(n, st, l)
    <3>1. PICK d : /\ Commits_leader(st, l, d)
                   /\ state' = [state EXCEPT ![n] = d.st]
                   /\ output' = [output EXCEPT ![n] = @ \o d.sequence]
                   /\ halted' = halted
      BY <2>8 DEF Committed
    <3>2. \A v \in Vertices : HasSupport(v, G \cap Vertices) => round(v) <= round(l)
      <4>1. l \in Vertices /\ round(l) > st.last_committed_round
        BY <2>8 DEF Leaders
      <4>. QED  BY <2>4, <2>5, <4>1
    <3>3. output[n] \in Seq(Vertices)
      BY <1>1
    <3>4. Regular(d.st, output[n] \o d.sequence, G)
      BY <1>1, <1>2, <2>2, <2>3, <2>8, <3>1, <3>2, <3>3, CommitRegular
    <3>5. state'[n] = d.st /\ output'[n] = output[n] \o d.sequence
      BY <1>1, <3>1
    <3>. QED  BY <2>1, <3>1, <3>4, <3>5
  <2>. QED  BY <1>3, <2>6, <2>7, <2>8
<1>7. ASSUME scenario.restarts = 0
      PROVE  halted' = {} /\ \A m \in Node : Regular(state'[m], output'[m], Handed(m)')
  <2>1. \A m \in Node : Regular(state[m], output[m], Handed(m))
    BY <1>7 DEF SteadyInv
  <2>2. \A m \in Node \ {n} : state'[m] = state[m] /\ output'[m] = output[m]
    BY <1>2 DEF After
  <2>3. \A m \in Node \ {n} : Regular(state'[m], output'[m], Handed(m)')
    BY <1>4, <2>1, <2>2
  <2>4. Regular(state'[n], output'[n], Handed(n)')
    BY <1>4, <1>6, <1>7
  <2>. QED  BY <1>6, <1>7, <2>3, <2>4
<1>. QED  BY <1>2, <1>3, <1>7, SteadyNext

\* The engines start as regular ones.
LEMMA SteadyInit == Init => SteadyInv
<1>. SUFFICES ASSUME Init PROVE SteadyInv
  OBVIOUS
<1>1. OrderingInv /\ parents \in Dags /\ halted = {}
  BY OrderingInit, ScenarioType DEF OrderingInv, Init
<1>2. \A n \in Node : /\ state[n] = InitialState /\ output[n] = <<>>
                      /\ Handed(n) = genesis
  <2>1. \A n \in Node : \A v \in Vertices : received[n][v] = 0
    BY DEF Init
  <2>. QED  BY <2>1 DEF Init, Handed
<1>. QED  BY <1>1, <1>2, InitialRegular DEF SteadyInv

\* Restarts are for the scenarios that have them.
LEMMA RestartsAllowed ==
    ASSUME OrderingInv, NEW n \in Node, Restart(n)
    PROVE  scenario.restarts # 0
<1>1. restarts[n] \in Nat /\ restarts[n] < scenario.restarts /\ scenario.restarts \in Nat
  BY ScenarioType DEF OrderingInv, Restart
<1>. QED  BY <1>1

\* Every step keeps them so.
LEMMA SteadyStep ==
    ASSUME SteadyInv, [Next]_vars
    PROVE  SteadyInv'
<1>1. OrderingInv /\ scenario.nodes \subseteq Node
  BY ScenarioType DEF SteadyInv, OrderingInv
<1>2. ASSUME NEW n \in Node, NEW h \in Vertices, ProcessHeader(n, h)
      PROVE  SteadyInv'
  BY <1>2, HeaderSteady
<1>3. ASSUME NEW n \in Node, NEW c \in Vertices, ProcessCertificate(n, c)
      PROVE  SteadyInv'
  BY <1>3, CertificateSteady
<1>4. ASSUME NEW n \in Node, Restart(n)
      PROVE  SteadyInv'
  <2>1. scenario' = scenario /\ OrderingInv' /\ scenario.restarts # 0
    BY <1>1, <1>4, RestartOrdering, RestartsAllowed
  <2>. QED  BY <2>1, SteadyNext
<1>5. CASE UNCHANGED vars
  <2>1. OrderingInv' /\ scenario' = scenario
    BY <1>1, <1>5, StutterOrdering DEF vars
  <2>2. \A m \in Node : Handed(m)' = Handed(m)
    BY <1>5, NothingHandedOver DEF vars
  <2>3. state' = state /\ output' = output /\ halted' = halted
    BY <1>5 DEF vars
  <2>. QED  BY <2>1, <2>2, <2>3, SteadyNext DEF SteadyInv
<1>. QED  BY <1>1, <1>2, <1>3, <1>4, <1>5 DEF Next

\* The engines are regular at every time.
LEMMA SteadyInvariant == Spec => []SteadyInv
BY SteadyInit, SteadyStep, PTL DEF Spec

\* No walk between two leaders meets a round with no certificate: an engine that
\* keeps its memory never stops at "We should have the whole history" (linked,
\* lib.rs:345).
THEOREM NeverPanic == Spec => []NeverPanics
<1>1. SteadyInv => NeverPanics
  BY DEF SteadyInv, NeverPanics, Steady
<1>. QED  BY <1>1, SteadyInvariant, PTL

\* An engine that keeps its memory holds, of the history of what it holds, all
\* that is not garbage collected and not older than its author's last committed
\* certificate, which it output or dropped (rx_primary and update,
\* lib.rs:45-62,71-73).
THEOREM Histories == Spec => []HistoryKnown
<1>1. SteadyInv => HistoryKnown
  <2>. SUFFICES ASSUME SteadyInv,
                       NEW n \in Steady, NEW v \in state[n].dag \ genesis,
                       NEW p \in parents[v] \ genesis
                PROVE  p \in state[n].dag \/ Past(state[n], p)
    BY DEF HistoryKnown, Past
  <2>1. n \in Node /\ IsHistory(Handed(n), state[n])
    BY DEF SteadyInv, Steady, Regular
  <2>2. v \in Handed(n) \cap Vertices
    BY <2>1 DEF IsHistory, Certificates
  <2>3. p \in Handed(n)
    BY <2>1, <2>2 DEF IsHistory
  <2>. QED  BY <2>1, <2>3 DEF IsHistory
<1>. QED  BY <1>1, SteadyInvariant, PTL

\* Once an engine that keeps its memory has received the whole DAG, it has output
\* every leader that f+1 stake of headers link, the ones it jumped over included
\* (order_leaders, lib.rs:318-337).
THEOREM SupportedCommitted == Spec => []SupportedLeadersCommitted
<1>1. SteadyInv => SupportedLeadersCommitted
  <2>. SUFFICES ASSUME SteadyInv,
                       NEW n \in Steady, \A v \in Vertices : received[n][v] > 0,
                       NEW v \in Vertices, v = leader_of(round(v)),
                       IsValid({origin(x) : x \in {y \in Vertices : v \in parents[y]}})
                PROVE  v \in ToSet(output[n])
    BY DEF SupportedLeadersCommitted
  <2>1. /\ n \in Node
        /\ Counted(state[n], Handed(n)) /\ Included(state[n], output[n])
    BY DEF SteadyInv, Steady, Regular
  <2>2. Handed(n) \cap Vertices = Vertices
    BY DEF Handed
  <2>3. HasSupport(v, Vertices)
    BY DEF HasSupport, Children
  <2>4. round(v) <= state[n].last_committed_round
    BY <2>1, <2>2, <2>3 DEF Counted
  <2>. QED  BY <2>1, <2>3, <2>4 DEF Included
<1>. QED  BY <1>1, SteadyInvariant, PTL
-----------------------------------------------------------------------------
\* The output of order_dag is sorted by round.
RoundsRise(s) == \A i, j \in 1..Len(s) : i < j => round(s[i]) <= round(s[j])

\* The rounds still rise when later ones are added.
LEMMA ConcatRises ==
    ASSUME NEW T, NEW s \in Seq(T), NEW t \in Seq(T), RoundsRise(s), RoundsRise(t),
           \A x \in ToSet(s) : \A y \in ToSet(t) : round(x) <= round(y)
    PROVE  RoundsRise(s \o t)
<1>. DEFINE u == s \o t
<1>1. /\ Len(u) = Len(s) + Len(t) /\ Len(s) \in Nat /\ Len(t) \in Nat
      /\ \A i \in 1..Len(u) : \/ i \in 1..Len(s) /\ u[i] = s[i]
                              \/ /\ i > Len(s) /\ i - Len(s) \in 1..Len(t)
                                 /\ u[i] = t[i - Len(s)]
  OBVIOUS
<1>. HIDE DEF u
<1>2. SUFFICES ASSUME NEW i \in 1..Len(u), NEW j \in 1..Len(u), i < j
               PROVE  round(u[i]) <= round(u[j])
  BY DEF RoundsRise, u
<1>3. CASE i \in 1..Len(s) /\ j \in 1..Len(s)
  BY <1>1, <1>2, <1>3 DEF RoundsRise
<1>4. CASE i \in 1..Len(s) /\ j > Len(s)
  <2>1. u[i] \in ToSet(s) /\ u[j] \in ToSet(t)
    BY <1>1, <1>4 DEF ToSet
  <2>. QED  BY <2>1
<1>5. CASE i > Len(s) /\ j > Len(s)
  <2>1. i - Len(s) \in 1..Len(t) /\ j - Len(s) \in 1..Len(t) /\ i - Len(s) < j - Len(s)
    BY <1>1, <1>2, <1>5
  <2>2. round(t[i - Len(s)]) <= round(t[j - Len(s)])
    BY <2>1 DEF RoundsRise
  <2>. QED  BY <1>1, <1>5, <2>2
<1>. QED  BY <1>1, <1>2, <1>3, <1>4, <1>5

\* sort_by_round sorts.
LEMMA SortRises ==
    ASSUME NEW T, NEW s \in Seq(T), NEW last \in Nat, \A v \in ToSet(s) : round(v) \in 1..last
    PROVE  RoundsRise(sort_by_round(s, last))
<1>. DEFINE Of(r) == {v \in ToSet(s) : round(v) = r}
            ss == [r \in 1..last |-> Among(s, Of(r))]
<1>1. \A r \in 1..last : ss[r] \in Seq(T) /\ ToSet(ss[r]) = Of(r)
  <2>1. SUFFICES ASSUME NEW r \in 1..last
                 PROVE  Among(s, Of(r)) \in Seq(T) /\ ToSet(Among(s, Of(r))) = Of(r)
    OBVIOUS
  <2>2. ToSet(s) \cap Of(r) = Of(r)
    OBVIOUS
  <2>. HIDE DEF Of
  <2>. QED  BY <2>2, AmongMembers
<1>2. ss \in Seq(Seq(T)) /\ Len(ss) = last
  BY <1>1
<1>3. sort_by_round(s, last) = FlattenSeq(ss)
  BY DEF sort_by_round
<1>. HIDE DEF ss
<1>4. PICK f \in [0..last -> Seq(T)] :
         /\ f[0] = <<>>
         /\ \A i \in 1..last : f[i] = f[i - 1] \o ss[i]
         /\ FlattenSeq(ss) = f[last]
  BY <1>2, Flattening
<1>. DEFINE P == {k \in 0..last : RoundsRise(f[k]) /\ \A v \in ToSet(f[k]) : round(v) \in 1..k}
<1>5. 0 \in P
  BY <1>4 DEF RoundsRise, ToSet
<1>6. ASSUME NEW k \in 0..(last - 1), k \in P
      PROVE  k + 1 \in P
  <2>1. k + 1 \in 1..last /\ (k + 1) - 1 = k /\ k \in 0..last /\ k + 1 \in 0..last
    OBVIOUS
  <2>2. /\ f[k + 1] = f[k] \o ss[k + 1] /\ f[k] \in Seq(T) /\ ss[k + 1] \in Seq(T)
        /\ ToSet(ss[k + 1]) = Of(k + 1)
    BY <1>1, <1>4, <2>1
  <2>3. ToSet(f[k] \o ss[k + 1]) = ToSet(f[k]) \cup Of(k + 1)
    BY <2>2, ConcatMembers
  <2>4. \A v \in ToSet(f[k]) : round(v) \in 1..k
    BY <1>6
  <2>5. RoundsRise(ss[k + 1])
    <3>1. \A i \in 1..Len(ss[k + 1]) : ss[k + 1][i] \in ToSet(ss[k + 1])
      BY <2>2 DEF ToSet
    <3>2. \A i \in 1..Len(ss[k + 1]) : round(ss[k + 1][i]) = k + 1
      BY <2>2, <3>1
    <3>. QED  BY <2>1, <3>2 DEF RoundsRise
  <2>6. RoundsRise(f[k])
    BY <1>6
  <2>7. \A x \in ToSet(f[k]) : \A y \in ToSet(ss[k + 1]) : round(x) <= round(y)
    BY <2>1, <2>2, <2>4
  <2>8. RoundsRise(f[k] \o ss[k + 1])
    BY <2>2, <2>5, <2>6, <2>7, ConcatRises
  <2>9. \A v \in ToSet(f[k + 1]) : round(v) \in 1..(k + 1)
    BY <2>1, <2>2, <2>3, <2>4
  <2>. QED  BY <2>1, <2>2, <2>8, <2>9
<1>. HIDE DEF P
<1>7. \A k \in 0..last : k \in P
  BY <1>5, <1>6, Induction
<1>8. last \in P
  BY <1>7
<1>. QED  BY <1>3, <1>4, <1>8 DEF P

\* So the rounds rise in what order_dag returns.
LEMMA OrderDagRises ==
    ASSUME parents \in Dags, gc_depth \in Nat, NEW st, WellState(st),
           NEW last \in Vertices, last \in st.dag, round(last) > st.last_committed_round
    PROVE  RoundsRise(order_dag(st, last))
<1>. DEFINE s == Search(st, last)[Cardinality(st.dag)]
            o == s.ordered
            Recent == {v \in Vertices : round(v) + gc_depth >= st.last_committed_round}
            recent == Among(o, Recent)
<1>1. SearchInv(st, last, s) /\ s.buffer = <<>>
  BY SearchEnds DEF SearchEnd
<1>2. o \in Seq(Vertices) /\ \A v \in ToSet(o) : v = last \/ round(v) < round(last)
  <2>1. ToSet(s.buffer) = {}
    BY <1>1, NoMember
  <2>. QED  BY <1>1, <2>1 DEF SearchInv
<1>. HIDE DEF s, o
<1>3. recent \in Seq(Vertices) /\ ToSet(recent) \subseteq ToSet(o)
  <2>. HIDE DEF Recent
  <2>. QED  BY <1>2, AmongMembers
<1>4. \A v \in Vertices : round(v) \in Nat /\ round(v) > 0
  BY DagRules DEF Rules
<1>5. \A v \in ToSet(recent) : round(v) \in 1..round(last)
  <2>1. \A v \in ToSet(recent) : v \in Vertices
    BY <1>3 DEF ToSet
  <2>. QED  BY <1>2, <1>3, <1>4, <2>1
<1>. HIDE DEF recent
<1>6. round(last) \in Nat
  BY <1>4
<1>7. RoundsRise(sort_by_round(recent, round(last)))
  BY <1>3, <1>5, <1>6, SortRises
<1>. QED  BY <1>7, OrderDagUnfolds DEF recent, o, s

-----------------------------------------------------------------------------
\* Garbage collected.
Old(st, v) == round(v) + gc_depth < st.last_committed_round

\* A certificate of p's author is among the first k of out: p or a later one.
Reached(out, k, p) ==
    \E j \in 1..k : out[j] = p \/ (origin(out[j]) = origin(p) /\ round(out[j]) > round(p))

(***************************************************************************)
(* What was output comes after its parents or after a later certificate of *)
(* their authors, but for what is garbage collected; and the last          *)
(* committed certificate of an authority was output.                       *)
(***************************************************************************)
Causal(st, out) ==
    /\ \A i \in 1..Len(out) : \A p \in parents[out[i]] \ genesis :
        Reached(out, i - 1, p) \/ Old(st, p)
    /\ \A a \in Authority : st.last_committed[a] = 0 \/ <<a, st.last_committed[a]>> \in ToSet(out)

\* What a state holds of a history, a later one does.
LEMMA AdvanceHistory ==
    ASSUME parents \in Dags, gc_depth \in Nat, NEW st, WellState(st),
           NEW H, IsHistory(H, st), NEW u, NEW B, Advances(st, u, B)
    PROVE  IsHistory(H, u)
BY PastStays DEF IsHistory, Advances

\* The sub-dag of one leader is output in a causal order.
LEMMA CausalStep ==
    ASSUME parents \in Dags, gc_depth \in Nat, NEW st, WellState(st),
           NEW H, IsHistory(H, st), NEW out \in Seq(Vertices), Causal(st, out),
           NEW last \in Vertices, last \in st.dag, round(last) > st.last_committed_round,
           NEW batch, batch = order_dag(st, last), NEW u, u = updates(st, batch)
    PROVE  out \o batch \in Seq(Vertices) /\ Causal(u, out \o batch) /\ IsHistory(H, u)
<1>. DEFINE B == ToSet(batch)
            O == out \o batch
<1>1. batch \in Seq(Vertices) /\ IsSubDag(st, last, B) /\ RoundsRise(batch)
  BY OrderDag, OrderDagRises
<1>2. Advances(st, u, B) /\ IsHistory(H, u)
  BY <1>1, UpdatesAdvance, AdvanceHistory
<1>3. O \in Seq(Vertices) /\ ToSet(O) = ToSet(out) \cup B
  BY <1>1, ConcatMembers
<1>4. /\ B \subseteq Vertices /\ ToSet(out) \subseteq Vertices
      /\ \A v \in Vertices : round(v) \in Nat /\ origin(v) \in Authority
  BY <1>1, VertexType DEF ToSet
<1>5. /\ \A v \in Vertices : Old(st, v) => Old(u, v)
      /\ u.last_committed_round \in Nat
  <2>1. st.last_committed_round \in Nat /\ u.last_committed_round \in Nat
        /\ st.last_committed_round <= u.last_committed_round
    BY <1>2 DEF Advances, WellState, StateType
  <2>. QED  BY <1>4, <2>1 DEF Old
<1>6. \A x \in Vertices : \A p \in parents[x] \ genesis : p \in Vertices /\ round(p) = round(x) - 1
  BY DagRules, CertificateType DEF Rules, Certificates
<1>7. ASSUME NEW x \in B, NEW p \in parents[x] \ genesis
      PROVE  p \in B \/ Reached(out, Len(out), p) \/ Old(u, p)
  <2>1. x \in Vertices /\ x \in st.dag /\ p \in Vertices
    BY <1>1, <1>4, <1>6 DEF IsSubDag
  <2>2. p \in st.dag \/ Past(st, p)
    BY <2>1 DEF IsHistory
  <2>3. CASE p \in st.dag /\ st.last_committed[origin(p)] # round(p)
    <3>1. p \in Pending(st, x)
      BY <2>3 DEF Pending
    <3>2. p \in B \/ Old(st, p)
      BY <1>1, <3>1 DEF IsSubDag, Old
    <3>. QED  BY <1>5, <2>1, <3>2
  <2>4. CASE round(p) <= st.last_committed[origin(p)]
    <3>. DEFINE a == origin(p)
                q == <<a, st.last_committed[a]>>
    <3>1. a \in Authority /\ st.last_committed[a] \in Nat /\ round(p) \in Nat
          /\ p = <<a, round(p)>>
      BY <2>1, VertexType, CommittedBound
    <3>2. round(p) > 0
      BY <2>1, DagRules DEF Rules
    <3>3. q \in ToSet(out)
      BY <2>4, <3>1, <3>2 DEF Causal
    <3>4. PICK j \in 1..Len(out) : out[j] = q
      BY <3>3 DEF ToSet
    <3>5. origin(q) = a /\ round(q) = st.last_committed[a]
      BY DEF origin, round
    <3>. HIDE DEF a
    <3>6. CASE round(p) = st.last_committed[a]
      BY <3>1, <3>4, <3>6 DEF Reached
    <3>7. CASE round(p) < st.last_committed[a]
      <4>. HIDE DEF q
      <4>. QED  BY <3>4, <3>5, <3>7 DEF Reached, a
    <3>. QED  BY <2>4, <3>1, <3>6, <3>7 DEF a
  <2>5. CASE Old(st, p)
    BY <1>5, <2>1, <2>5
  <2>6. st.last_committed[origin(p)] \in Nat
    BY <1>4, <2>1, CommittedBound
  <2>. QED  BY <1>4, <2>1, <2>2, <2>3, <2>4, <2>5, <2>6 DEF Past, Old
<1>8. /\ Len(O) = Len(out) + Len(batch) /\ Len(out) \in Nat /\ Len(batch) \in Nat
      /\ \A i \in 1..Len(out) : O[i] = out[i]
      /\ \A i \in 1..Len(batch) : i + Len(out) \in 1..Len(O) /\ O[i + Len(out)] = batch[i]
      /\ \A i \in 1..Len(O) : i \in 1..Len(out) \/ i - Len(out) \in 1..Len(batch)
  BY <1>1
<1>. HIDE DEF O
<1>9. \A k \in 0..Len(out) : \A i \in Nat : \A p :
        k <= i /\ Reached(out, k, p) => Reached(O, i, p)
  <2>1. SUFFICES ASSUME NEW k \in 0..Len(out), NEW i \in Nat, NEW p, k <= i, NEW j \in 1..k,
                        out[j] = p \/ (origin(out[j]) = origin(p) /\ round(out[j]) > round(p))
                 PROVE  Reached(O, i, p)
    BY DEF Reached
  <2>2. j \in 1..Len(out) /\ j \in 1..i
    BY <1>8, <2>1
  <2>3. O[j] = out[j]
    BY <1>8, <2>2
  <2>. QED  BY <2>1, <2>2, <2>3 DEF Reached
<1>10. ASSUME NEW i \in 1..Len(O), NEW p \in parents[O[i]] \ genesis
       PROVE  Reached(O, i - 1, p) \/ Old(u, p)
  <2>1. CASE i \in 1..Len(out)
    <3>1. O[i] = out[i] /\ out[i] \in Vertices
      BY <1>8, <2>1
    <3>2. Reached(out, i - 1, p) \/ Old(st, p)
      BY <1>10, <2>1, <3>1 DEF Causal
    <3>3. p \in Vertices
      BY <1>6, <1>10, <3>1
    <3>4. i - 1 \in 0..Len(out) /\ i - 1 \in Nat /\ i - 1 <= i - 1
      BY <1>8, <2>1
    <3>5. Reached(out, i - 1, p) => Reached(O, i - 1, p)
      BY <1>9, <3>4
    <3>6. Old(st, p) => Old(u, p)
      BY <1>5, <3>3
    <3>. QED  BY <3>2, <3>5, <3>6
  <2>2. CASE i - Len(out) \in 1..Len(batch)
    <3>. DEFINE k == i - Len(out)
    <3>1. k \in 1..Len(batch) /\ i = k + Len(out)
      BY <1>8, <2>2
    <3>. HIDE DEF k
    <3>2. O[i] = batch[k] /\ batch[k] \in B /\ batch[k] \in Vertices
      BY <1>1, <1>8, <3>1 DEF ToSet
    <3>3. p \in Vertices /\ round(p) = round(batch[k]) - 1
      BY <1>6, <1>10, <3>2
    <3>4. CASE p \in B
      <4>1. PICK j \in 1..Len(batch) : batch[j] = p
        BY <1>1, <3>4 DEF ToSet
      <4>2. ~(k <= j)
        <5>1. k < j => round(batch[k]) <= round(batch[j])
          BY <1>1, <3>1 DEF RoundsRise
        <5>2. k = j => round(batch[k]) = round(batch[j])
          OBVIOUS
        <5>. QED  BY <1>4, <3>1, <3>2, <3>3, <4>1, <5>1, <5>2
      <4>3. j + Len(out) \in 1..(i - 1) /\ O[j + Len(out)] = p
        BY <1>8, <3>1, <4>1, <4>2
      <4>. QED  BY <4>3 DEF Reached
    <3>5. CASE Reached(out, Len(out), p)
      <4>1. Len(out) \in 0..Len(out) /\ i - 1 \in Nat /\ Len(out) <= i - 1
        BY <1>8, <3>1
      <4>. QED  BY <1>9, <3>5, <4>1
    <3>. QED  BY <1>7, <1>10, <3>2, <3>4, <3>5
  <2>. QED  BY <1>8, <2>1, <2>2
<1>11. ASSUME NEW a \in Authority, u.last_committed[a] # 0
       PROVE  <<a, u.last_committed[a]>> \in ToSet(O)
  <2>1. CASE u.last_committed[a] = st.last_committed[a]
    BY <1>3, <1>11, <2>1 DEF Causal
  <2>2. ASSUME NEW b \in B, origin(b) = a, u.last_committed[a] = round(b)
        PROVE  <<a, u.last_committed[a]>> \in ToSet(O)
    <3>1. b \in Vertices /\ b = <<a, u.last_committed[a]>>
      BY <1>4, <2>2, VertexType
    <3>. QED  BY <1>3, <2>2, <3>1
  <2>. QED  BY <1>2, <2>1, <2>2 DEF Advances
<1>12. Causal(u, O)
  BY <1>10, <1>11 DEF Causal
<1>. QED  BY <1>2, <1>3, <1>12 DEF O

\* And so are those of all leaders of a commit.
LEMMA CommitCausal ==
    ASSUME parents \in Dags, gc_depth \in Nat, NEW st, WellState(st),
           NEW H, IsHistory(H, st), NEW out \in Seq(Vertices), Causal(st, out),
           NEW last \in Leaders(st), NEW d, Commits_leader(st, last, d)
    PROVE  Causal(d.st, out \o d.sequence)
<1>. DEFINE leaders == order_leaders(st, last)
<1>1. /\ last \in Vertices /\ last \in st.dag /\ last = leader_of(round(last))
      /\ round(last) > st.last_committed_round
  BY DEF Leaders
<1>2. PICK n \in Nat : \E f : IsCommitRun(st, last, n, f)
  BY <1>1, CommitRun
<1>3. PICK f : IsCommitRun(st, last, n, f)
  BY <1>2
<1>4. IsChain(st, last, st.last_committed_round + 1, leaders)
  BY <1>1, OrderLeaders
<1>5. /\ n = Len(leaders) /\ f[0].st = st /\ f[0].sequence = <<>>
      /\ \A i \in 1..n : f[i] = CommitStep(f[i - 1], leaders[i])
      /\ \A i \in 0..n : Progress(st, leaders, i, f[i])
      /\ d = f[n]
  <2>1. d = commit(st, last)
    BY DEF Commits_leader
  <2>. QED  BY <1>3, <2>1 DEF IsCommitRun
<1>. HIDE DEF leaders
<1>. DEFINE P == {k \in 0..n : Causal(f[k].st, out \o f[k].sequence) /\ IsHistory(H, f[k].st)}
<1>6. 0 \in P
  <2>1. out \o <<>> = out
    OBVIOUS
  <2>2. Causal(f[0].st, out \o f[0].sequence) /\ IsHistory(H, f[0].st)
    BY <1>5, <2>1
  <2>. QED  BY <2>2
<1>7. ASSUME NEW k \in 0..(n - 1), k \in P
      PROVE  k + 1 \in P
  <2>. DEFINE st1 == f[k].st
              s == f[k].sequence
              l == leaders[k + 1]
              batch == order_dag(st1, l)
              u == updates(st1, batch)
  <2>1. k \in Nat /\ k + 1 \in 1..n /\ (k + 1) - 1 = k /\ k \in 0..n /\ k + 1 \in 0..n
    OBVIOUS
  <2>2. Progress(st, leaders, k, f[k]) /\ s \in Seq(Vertices)
    BY <1>5, <2>1 DEF Progress
  <2>3. WellState(st1) /\ l \in Vertices /\ l \in st1.dag /\ round(l) > st1.last_committed_round
    BY <1>1, <1>4, <1>5, <2>1, <2>2, NextLeader
  <2>4. f[k + 1].st = u /\ f[k + 1].sequence = s \o batch
    <3>1. f[k + 1] = CommitStep(f[k], leaders[k + 1])
      <4>1. f[k + 1] = CommitStep(f[(k + 1) - 1], leaders[k + 1])
        BY <1>5, <2>1
      <4>. QED  BY <2>1, <4>1
    <3>2. CommitStep(f[k], leaders[k + 1]) = [st |-> u, sequence |-> s \o batch]
      BY DEF CommitStep
    <3>. HIDE DEF st1, s, l, batch, u
    <3>. QED  BY <3>1, <3>2
  <2>5. Causal(st1, out \o s) /\ IsHistory(H, st1) /\ out \o s \in Seq(Vertices)
    BY <1>7, <2>2
  <2>6. batch \in Seq(Vertices)
    BY <2>3, OrderDag
  <2>. HIDE DEF st1, s, l
  <2>7. Causal(u, (out \o s) \o batch) /\ IsHistory(H, u)
    <3>. HIDE DEF batch, u
    <3>1. batch = order_dag(st1, l) /\ u = updates(st1, batch)
      BY DEF batch, u
    <3>. QED  BY <2>3, <2>5, <3>1, CausalStep
  <2>. HIDE DEF batch, u
  <2>8. (out \o s) \o batch = out \o (s \o batch)
    BY <2>2, <2>6, ConcatAssociative
  <2>. QED  BY <2>1, <2>4, <2>7, <2>8
<1>. HIDE DEF P
<1>8. \A k \in 0..n : k \in P
  BY <1>6, <1>7, Induction
<1>9. n \in P
  BY <1>8
<1>. QED  BY <1>5, <1>9 DEF P

-----------------------------------------------------------------------------
\* The engines that keep their memory have an output that is causal.
CausalInv ==
    /\ SteadyInv
    /\ scenario.restarts = 0 => \A n \in Node : Causal(state[n], output[n])

\* The invariant in the next state.
LEMMA CausalNext ==
    ASSUME SteadyInv', scenario' = scenario,
           scenario.restarts = 0 => \A n \in Node : Causal(state'[n], output'[n])
    PROVE  CausalInv'
BY DEF CausalInv, Causal, Reached, Old, Vertices, parents, gc_depth

\* Whatever the outcome, the output stays causal.
LEMMA OutcomeCausal ==
    ASSUME parents \in Dags, gc_depth \in Nat, NEW n \in Node,
           NEW st, WellState(st), After(n, st), output \in [Node -> Seq(Vertices)],
           NEW H, IsHistory(H, st), Causal(st, output[n])
    PROVE  Causal(state'[n], output'[n])
<1>1. output[n] \in Seq(Vertices)
  OBVIOUS
<1>2. CASE state'[n] = st /\ output'[n] = output[n]
  BY <1>2
<1>3. ASSUME NEW last \in Leaders(st), NEW d, Commits_leader(st, last, d),
             state'[n] = d.st, output'[n] = output[n] \o d.sequence
      PROVE  Causal(state'[n], output'[n])
  BY <1>1, <1>3, CommitCausal
<1>. QED  BY <1>2, <1>3 DEF After

\* It is causal at every time.
LEMMA CausalInvariant == Spec => []CausalInv
<1>1. Init => CausalInv
  <2>. SUFFICES ASSUME Init PROVE CausalInv
    OBVIOUS
  <2>1. SteadyInv /\ parents \in Dags
    BY SteadyInit, OrderingInit, ScenarioType DEF OrderingInv
  <2>2. \A n \in Node : state[n] = InitialState /\ output[n] = <<>>
    BY DEF Init
  <2>3. Causal(InitialState, <<>>)
    <3>1. Len(<<>>) = 0
      OBVIOUS
    <3>. QED  BY <3>1 DEF Causal, InitialState
  <2>. QED  BY <2>1, <2>2, <2>3 DEF CausalInv
<1>2. CausalInv /\ [Next]_vars => CausalInv'
  <2>. SUFFICES ASSUME CausalInv, [Next]_vars PROVE CausalInv'
    OBVIOUS
  <2>1. /\ SteadyInv /\ OrderingInv /\ HistoryInv /\ parents \in Dags /\ gc_depth \in Nat
        /\ output \in [Node -> Seq(Vertices)] /\ state \in [Node -> StateType]
        /\ scenario.nodes \subseteq Node
        /\ \A m \in Node : WellState(state[m])
    BY ScenarioType DEF CausalInv, SteadyInv, OrderingInv
  <2>2. SteadyInv'
    BY <2>1, SteadyStep
  <2>3. ASSUME scenario.restarts = 0
        PROVE  \A m \in Node : IsHistory(Handed(m), state[m]) /\ Causal(state[m], output[m])
    BY <2>3 DEF CausalInv, SteadyInv, Regular
  <2>4. ASSUME NEW n \in Node, NEW h \in Vertices, ProcessHeader(n, h)
        PROVE  CausalInv'
    <3>1. After(n, state[n]) /\ scenario' = scenario
      BY <2>1, <2>4, HeaderOrdering DEF ProcessHeader
    <3>2. ASSUME scenario.restarts = 0
          PROVE  \A m \in Node : Causal(state'[m], output'[m])
      <4>1. Causal(state'[n], output'[n])
        BY <2>1, <2>3, <3>1, <3>2, OutcomeCausal
      <4>. QED  BY <2>3, <3>1, <3>2, <4>1 DEF After
    <3>. QED  BY <2>2, <3>1, <3>2, CausalNext
  <2>5. ASSUME NEW n \in Node, NEW c \in Vertices, ProcessCertificate(n, c)
        PROVE  CausalInv'
    <3>. DEFINE st == Receive(state[n], c)
                H == Handed(n) \cup {c}
    <3>1. WellState(st) /\ After(n, st)
      BY <2>1, <2>5, CertificateOrdering
    <3>2. /\ scenario' = scenario /\ parents[c] \ genesis \subseteq Handed(n)
          /\ st.last_committed = state[n].last_committed
          /\ st.last_committed_round = state[n].last_committed_round
      BY <2>1, <2>5, CertificateOutcome, ReceiveWellState
    <3>3. ASSUME scenario.restarts = 0
          PROVE  \A m \in Node : Causal(state'[m], output'[m])
      <4>1. Causal(st, output[n])
        BY <2>3, <3>2, <3>3 DEF Causal, Old
      <4>2. IsHistory(H, st)
        BY <2>1, <2>3, <3>2, <3>3, ReceiveHistory
      <4>. HIDE DEF st, H
      <4>3. Causal(state'[n], output'[n])
        BY <2>1, <2>3, <3>1, <3>3, <4>1, <4>2, OutcomeCausal
      <4>. QED  BY <2>3, <3>1, <3>3, <4>3 DEF After
    <3>. QED  BY <2>2, <3>2, <3>3, CausalNext
  <2>6. ASSUME NEW n \in Node, Restart(n)
        PROVE  CausalInv'
    <3>1. scenario' = scenario /\ scenario.restarts # 0
      BY <2>1, <2>6, RestartsAllowed DEF Restart
    <3>. QED  BY <2>2, <3>1, CausalNext
  <2>7. CASE UNCHANGED vars
    <3>1. scenario' = scenario /\ state' = state /\ output' = output
      BY <2>7 DEF vars
    <3>. QED  BY <2>2, <2>3, <3>1, CausalNext
  <2>. QED  BY <2>1, <2>4, <2>5, <2>6, <2>7 DEF Next
<1>. QED  BY <1>1, <1>2, PTL DEF Spec

\* An engine that keeps its memory outputs a certificate after its parents, or
\* after later certificates of their authors, but for those that were garbage
\* collected, in any DAG and whatever it receives again (order_dag,
\* lib.rs:356-396).
THEOREM CausallyOrdered == Spec => []CausalOrder
<1>1. CausalInv => CausalOrder
  <2>. SUFFICES ASSUME CausalInv, NEW n \in Steady
                PROVE  \A i \in DOMAIN output[n] : \A p \in parents[output[n][i]] \ genesis :
                           Reached(output[n], i - 1, p) \/ Old(state[n], p)
    BY DEF CausalOrder, Old, Reached
  <2>1. n \in Node /\ Causal(state[n], output[n])
    BY DEF CausalInv, Steady
  <2>2. DOMAIN output[n] = 1..Len(output[n])
    BY <2>1 DEF CausalInv, SteadyInv, OrderingInv
  <2>. QED  BY <2>1, <2>2 DEF Causal
<1>. QED  BY <1>1, CausalInvariant, PTL

=============================================================================
