------------------------- MODULE CommitteeTheorems -------------------------
(***************************************************************************)
(* The arithmetic of quorums, for every committee: what the thresholds of  *)
(* config/src/lib.rs guarantee about the stake of sets of authorities.     *)
(***************************************************************************)
EXTENDS Committee, FiniteSetTheorems, TLAPS

-----------------------------------------------------------------------------
\* Stake is a number, and additive.

\* The authorities are finitely many.
LEMMA AuthorityFinite == IsFiniteSet(Authority)
<1>. DEFINE f == [i \in 1..Len(Keys) |-> Keys[i]]
<1>1. Len(Keys) \in Nat
  BY CommitteeAssumption
<1>2. IsFiniteSet(1..Len(Keys))
  BY <1>1, FS_Interval
<1>3. f \in Surjection(1..Len(Keys), Authority)
  BY DEF Surjection, Authority
<1>. QED  BY <1>2, <1>3, FS_Surjection

\* The units of stake of a set of authorities are finitely many.
LEMMA UnitsFinite ==
    ASSUME NEW S \in SUBSET Authority
    PROVE  IsFiniteSet(StakeUnits(S))
<1>. DEFINE U(a) == {a} \X (1..Stake[a])
            f    == [a \in S |-> U(a)]
            T    == {U(a) : a \in S}
<1>1. IsFiniteSet(S)
  BY AuthorityFinite, FS_Subset
<1>2. f \in Surjection(S, T)
  BY DEF Surjection
<1>3. IsFiniteSet(T)
  BY <1>1, <1>2, FS_Surjection
<1>4. \A X \in T : IsFiniteSet(X)
  <2>1. ASSUME NEW a \in S
        PROVE  IsFiniteSet(U(a))
    <3>1. Stake[a] \in Int
      BY CommitteeAssumption
    <3>2. IsFiniteSet(1..Stake[a])
      BY <3>1, FS_Interval
    <3>. QED  BY <3>2, FS_Singleton, FS_Product
  <2>. QED  BY <2>1
<1>. HIDE DEF T
<1>5. IsFiniteSet(UNION T)
  BY <1>3, <1>4, FS_UNION
<1>. QED  BY <1>5 DEF StakeUnits, T

\* The stake of a set of authorities is a natural number.
LEMMA StakeType ==
    ASSUME NEW S \in SUBSET Authority
    PROVE  StakeOf(S) \in Nat
BY UnitsFinite, FS_CardinalityType DEF StakeOf

\* Nobody holds no stake.
LEMMA StakeEmpty == StakeOf({}) = 0
<1>1. StakeUnits({}) = {}
  BY DEF StakeUnits
<1>. QED  BY <1>1, FS_EmptySet DEF StakeOf

\* The stakes of a union and of an intersection.
LEMMA StakeUnion ==
    ASSUME NEW S \in SUBSET Authority, NEW T \in SUBSET Authority
    PROVE  StakeOf(S \cup T) = StakeOf(S) + StakeOf(T) - StakeOf(S \cap T)
<1>1. StakeUnits(S \cup T) = StakeUnits(S) \cup StakeUnits(T)
  BY DEF StakeUnits
<1>2. StakeUnits(S \cap T) = StakeUnits(S) \cap StakeUnits(T)
  BY DEF StakeUnits
<1>3. IsFiniteSet(StakeUnits(S)) /\ IsFiniteSet(StakeUnits(T))
  BY UnitsFinite
<1>4. Cardinality(StakeUnits(S) \cup StakeUnits(T))
         = Cardinality(StakeUnits(S)) + Cardinality(StakeUnits(T))
              - Cardinality(StakeUnits(S) \cap StakeUnits(T))
  BY <1>3, FS_Union
<1>. QED  BY <1>1, <1>2, <1>4 DEF StakeOf

\* A new authority adds its own stake.
LEMMA StakeAdd ==
    ASSUME NEW S \in SUBSET Authority, NEW a \in Authority, a \notin S
    PROVE  StakeOf(S \cup {a}) = StakeOf(S) + StakeOf({a})
<1>1. S \cap {a} = {}
  OBVIOUS
<1>2. StakeOf(S \cup {a}) = StakeOf(S) + StakeOf({a}) - StakeOf(S \cap {a})
  BY StakeUnion
<1>3. StakeOf(S \cap {a}) = 0
  BY <1>1, StakeEmpty
<1>4. StakeOf(S) \in Nat /\ StakeOf({a}) \in Nat
  BY StakeType
<1>. QED  BY <1>2, <1>3, <1>4

\* More authorities hold no less stake.
LEMMA StakeMonotone ==
    ASSUME NEW T \in SUBSET Authority, NEW S \in SUBSET T
    PROVE  StakeOf(S) <= StakeOf(T)
<1>1. StakeUnits(S) \subseteq StakeUnits(T)
  BY DEF StakeUnits
<1>. QED  BY <1>1, UnitsFinite, FS_Subset DEF StakeOf

\* The whole committee has stake.
LEMMA TotalStakePositive == TotalStake \in Nat /\ TotalStake > 0
<1>1. TotalStake \in Nat
  BY StakeType DEF TotalStake
<1>2. <<Keys[1], 1>> \in StakeUnits(Authority)
  <2>1. Keys[1] \in Authority
    BY CommitteeAssumption DEF Authority
  <2>2. 1 \in 1..Stake[Keys[1]]
    BY <2>1, CommitteeAssumption
  <2>. QED  BY <2>1, <2>2 DEF StakeUnits
<1>3. StakeUnits(Authority) # {}
  BY <1>2
<1>. QED  BY <1>1, <1>3, UnitsFinite, FS_EmptySet DEF TotalStake, StakeOf

-----------------------------------------------------------------------------
\* Quorums.

\* The thresholds are numbers, and the whole committee is a quorum.
LEMMA ThresholdTypes ==
    /\ quorum_threshold \in Nat /\ quorum_threshold > 0
    /\ validity_threshold \in Nat /\ validity_threshold > 0
    /\ validity_threshold <= quorum_threshold
    /\ quorum_threshold <= TotalStake
BY TotalStakePositive DEF quorum_threshold, validity_threshold

\* All authorities together are a quorum.
LEMMA CommitteeIsQuorum == IsQuorum(Authority)
BY ThresholdTypes DEF IsQuorum, TotalStake

\* A set with a quorum of stake has members, and so have its supersets.
LEMMA QuorumMonotone ==
    ASSUME NEW T \in SUBSET Authority, NEW S \in SUBSET T, IsQuorum(S)
    PROVE  IsQuorum(T)
BY StakeMonotone, StakeType, ThresholdTypes DEF IsQuorum

\* A quorum has members.
LEMMA QuorumNonEmpty ==
    ASSUME NEW S, IsQuorum(S)
    PROVE  S # {}
BY StakeEmpty, ThresholdTypes DEF IsQuorum

\* The members that two quorums share hold at least f+1 stake: the thresholds
\* of config/src/lib.rs:168-181 fit together for every total stake, not only
\* for totals of the form 3f+1.
THEOREM QuorumsIntersect ==
    ASSUME NEW S \in SUBSET Authority, NEW T \in SUBSET Authority,
           IsQuorum(S), IsQuorum(T)
    PROVE  IsValid(S \cap T)
<1>. DEFINE N == TotalStake
<1>1. StakeOf(S \cup T) = StakeOf(S) + StakeOf(T) - StakeOf(S \cap T)
  BY StakeUnion
<1>2. StakeOf(S \cup T) <= N
  BY StakeMonotone DEF TotalStake
<1>3. /\ StakeOf(S) \in Nat /\ StakeOf(T) \in Nat
      /\ StakeOf(S \cap T) \in Nat /\ StakeOf(S \cup T) \in Nat
  BY StakeType
<1>4. N \in Nat
  BY TotalStakePositive
<1>. HIDE DEF N
<1>5. 2 * ((2 * N) \div 3 + 1) - N >= (N + 2) \div 3
  BY <1>4
<1>. QED
  BY <1>1, <1>2, <1>3, <1>4, <1>5
     DEF IsQuorum, IsValid, quorum_threshold, validity_threshold, N

\* A quorum is not contained in a set that holds less than f+1 stake, nor is
\* what two quorums share.
THEOREM QuorumsShareOutside ==
    ASSUME NEW S \in SUBSET Authority, NEW T \in SUBSET Authority,
           IsQuorum(S), IsQuorum(T), NEW F \in SUBSET Authority, ~IsValid(F)
    PROVE  \E a \in S \cap T : a \notin F
<1>1. SUFFICES ASSUME S \cap T \subseteq F
               PROVE  FALSE
  OBVIOUS
<1>2. StakeOf(S \cap T) <= StakeOf(F)
  BY <1>1, StakeMonotone
<1>3. StakeOf(S \cap T) >= validity_threshold
  BY QuorumsIntersect DEF IsValid
<1>. QED  BY <1>2, <1>3, StakeType, ThresholdTypes DEF IsValid
=============================================================================
