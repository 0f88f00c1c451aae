------------------------- MODULE AgreementTheorems --------------------------
(***************************************************************************)
(* Any two engines that keep their memory and were not led astray output   *)
(* the same certificates in the same order, as far as both went.           *)
(*                                                                         *)
(* The order inside a sub-dag depends on what was committed before, and on *)
(* nothing else the engine has received: SameBatch.  Which leaders are     *)
(* committed is a matter of the DAG, since the last one has the support    *)
(* that makes every later leader link it: LeadersAgree.  So the output is  *)
(* that of a ledger which goes through the rounds of the DAG, and of two   *)
(* ledgers the shorter one is the beginning of the longer one:             *)
(* LedgersAgree.  That each engine follows its ledger, until it is led     *)
(* astray, is the invariant (FaithfulInv).                                 *)
(***************************************************************************)
EXTENDS ConsensusTheorems

\* How Among takes a sequence member by member.
Only(x, S) == IF x \in S THEN <<x>> ELSE <<>>

IsAmong(f, s, S, T) ==
    /\ f \in [0..Len(s) -> Seq(T)]
    /\ f[0] = <<>>
    /\ \A i \in 1..Len(s) : f[i] = f[i - 1] \o Only(s[i], S)
    /\ Among(s, S) = f[Len(s)]

\* Among is such a sequence.
LEMMA AmongUnfolds ==
    ASSUME NEW T, NEW s \in Seq(T), NEW S
    PROVE  \E f : IsAmong(f, s, S, T)
<1>. DEFINE ss == [i \in 1..Len(s) |-> Only(s[i], S)]
<1>1. ss \in Seq(Seq(T)) /\ Len(ss) = Len(s)
  <2>1. \A i \in 1..Len(s) : Only(s[i], S) \in Seq(T)
    BY DEF Only
  <2>. HIDE DEF Only
  <2>. QED  BY <2>1
<1>2. Among(s, S) = FlattenSeq(ss)
  BY DEF Among, Only
<1>3. \A i \in 1..Len(s) : ss[i] = Only(s[i], S)
  OBVIOUS
<1>. HIDE DEF ss
<1>4. PICK f \in [0..Len(ss) -> Seq(T)] :
         /\ f[0] = <<>>
         /\ \A i \in 1..Len(ss) : f[i] = f[i - 1] \o ss[i]
         /\ FlattenSeq(ss) = f[Len(ss)]
  BY <1>1, Flattening
<1>5. IsAmong(f, s, S, T)
  BY <1>1, <1>2, <1>3, <1>4 DEF IsAmong
<1>. QED  BY <1>5

\* A member gives one member or none.
LEMMA OnlyType ==
    ASSUME NEW T, NEW x \in T, NEW S
    PROVE  Only(x, S) \in Seq(T)
BY DEF Only

\* Among distributes over sequences.
LEMMA AmongConcat ==
    ASSUME NEW T, NEW s \in Seq(T), NEW t \in Seq(T), NEW S
    PROVE  Among(s \o t, S) = Among(s, S) \o Among(t, S)
<1>1. PICK m \in Nat, k \in Nat : m = Len(s) /\ k = Len(t)
  OBVIOUS
<1>. DEFINE u == s \o t
<1>2. /\ u \in Seq(T) /\ Len(u) = m + k
      /\ \A i \in 1..m : u[i] = s[i] /\ s[i] \in T
      /\ \A i \in 1..k : u[m + i] = t[i] /\ t[i] \in T
  BY <1>1
<1>. HIDE DEF u
<1>3. PICK f : IsAmong(f, s, S, T)
  BY AmongUnfolds
<1>4. PICK g : IsAmong(g, t, S, T)
  BY AmongUnfolds
<1>5. PICK h : IsAmong(h, u, S, T)
  BY <1>2, AmongUnfolds
<1>6. /\ f[0] = <<>> /\ Among(s, S) = f[m]
      /\ \A i \in 1..m : f[i] = f[i - 1] \o Only(s[i], S)
      /\ \A i \in 0..m : f[i] \in Seq(T)
  BY <1>1, <1>3 DEF IsAmong
<1>7. /\ g[0] = <<>> /\ Among(t, S) = g[k]
      /\ \A i \in 1..k : g[i] = g[i - 1] \o Only(t[i], S)
      /\ \A i \in 0..k : g[i] \in Seq(T)
  BY <1>1, <1>4 DEF IsAmong
<1>8. /\ h[0] = <<>> /\ Among(u, S) = h[m + k]
      /\ \A i \in 1..(m + k) : h[i] = h[i - 1] \o Only(u[i], S)
  BY <1>2, <1>5 DEF IsAmong
<1>. DEFINE P == {i \in 0..m : h[i] = f[i]}
            Q == {i \in 0..k : h[m + i] = f[m] \o g[i]}
<1>9. \A i \in 0..m : i \in P
  <2>1. 0 \in P
    BY <1>6, <1>8
  <2>2. ASSUME NEW i \in 0..(m - 1), i \in P
        PROVE  i + 1 \in P
    <3>1. i + 1 \in 0..m /\ i + 1 \in 1..m /\ i + 1 \in 1..(m + k) /\ (i + 1) - 1 = i
      OBVIOUS
    <3>2. h[i + 1] = h[i] \o Only(u[i + 1], S) /\ f[i + 1] = f[i] \o Only(s[i + 1], S)
      BY <1>6, <1>8, <3>1
    <3>3. u[i + 1] = s[i + 1]
      BY <1>2, <3>1
    <3>. QED  BY <2>2, <3>1, <3>2, <3>3
  <2>. HIDE DEF P
  <2>. QED  BY <2>1, <2>2, Induction
<1>10. \A i \in 0..k : i \in Q
  <2>1. 0 \in Q
    <3>1. m \in P
      BY <1>9
    <3>2. h[m] = f[m] /\ m + 0 = m /\ f[m] \in Seq(T)
      BY <1>6, <3>1
    <3>3. f[m] \o <<>> = f[m]
      <4>1. PICK a \in Seq(T) : a = f[m]
        BY <3>2
      <4>. QED  BY <4>1, ConcatEmptySeq
    <3>4. g[0] = <<>> /\ 0 \in 0..k
      BY <1>7
    <3>. QED  BY <3>2, <3>3, <3>4
  <2>2. ASSUME NEW i \in 0..(k - 1), i \in Q
        PROVE  i + 1 \in Q
    <3>1. /\ i + 1 \in 0..k /\ i + 1 \in 1..k /\ m + (i + 1) \in 1..(m + k)
          /\ (i + 1) - 1 = i /\ (m + (i + 1)) - 1 = m + i /\ i \in 0..k /\ m \in 0..m
      OBVIOUS
    <3>. DEFINE o == Only(t[i + 1], S)
    <3>2. h[m + (i + 1)] = h[m + i] \o Only(u[m + (i + 1)], S) /\ g[i + 1] = g[i] \o o
      BY <1>7, <1>8, <3>1
    <3>3. u[m + (i + 1)] = t[i + 1] /\ t[i + 1] \in T
      BY <1>2, <3>1
    <3>4. h[m + i] = f[m] \o g[i]
      BY <2>2
    <3>5. o \in Seq(T) /\ f[m] \in Seq(T) /\ g[i] \in Seq(T)
      BY <1>6, <1>7, <3>1, <3>3, OnlyType
    <3>. HIDE DEF o
    <3>6. (f[m] \o g[i]) \o o = f[m] \o (g[i] \o o)
      <4>1. PICK a \in Seq(T), b \in Seq(T), d \in Seq(T) : a = f[m] /\ b = g[i] /\ d = o
        BY <3>5
      <4>2. (a \o b) \o d = a \o (b \o d)
        BY ConcatAssociative
      <4>. QED  BY <4>1, <4>2
    <3>7. h[m + (i + 1)] = f[m] \o g[i + 1]
      BY <3>2, <3>3, <3>4, <3>6 DEF o
    <3>. QED  BY <3>1, <3>7
  <2>. HIDE DEF Q
  <2>. QED  BY <2>1, <2>2, Induction
<1>11. h[m + k] = f[m] \o g[k]
  <2>1. k \in 0..k
    OBVIOUS
  <2>2. k \in Q
    BY <1>10, <2>1
  <2>. QED  BY <2>2
<1>. QED  BY <1>6, <1>7, <1>8, <1>11 DEF u

\* Of no member it takes nothing.
LEMMA AmongNone ==
    ASSUME NEW T, NEW s \in Seq(T), NEW S, ToSet(s) \cap S = {}
    PROVE  Among(s, S) = <<>>
<1>. DEFINE a == Among(s, S)
<1>1. a \in Seq(T) /\ ToSet(a) = {}
  BY AmongMembers
<1>. HIDE DEF a
<1>2. a = <<>>
  <2>1. Len(a) \in Nat /\ \A i \in 1..Len(a) : a[i] \in ToSet(a)
    BY <1>1 DEF ToSet
  <2>2. Len(a) = 0
    BY <1>1, <2>1
  <2>. QED  BY <1>1, <2>2
<1>. QED  BY <1>2 DEF a

\* Of one member it takes that, or nothing.
LEMMA AmongOne ==
    ASSUME NEW T, NEW x \in T, NEW S
    PROVE  Among(<<x>>, S) = Only(x, S)
<1>1. <<x>> \in Seq(T) /\ Len(<<x>>) = 1 /\ <<x>>[1] = x
  OBVIOUS
<1>2. PICK f : IsAmong(f, <<x>>, S, T)
  BY <1>1, AmongUnfolds
<1>3. f[0] = <<>> /\ f[1] = f[1 - 1] \o Only(x, S) /\ Among(<<x>>, S) = f[1]
  BY <1>1, <1>2 DEF IsAmong
<1>4. <<>> \o Only(x, S) = Only(x, S)
  <2>1. PICK a \in Seq(T) : a = Only(x, S)
    BY OnlyType
  <2>. QED  BY <2>1, ConcatEmptySeq
<1>5. 1 - 1 = 0
  OBVIOUS
<1>. QED  BY <1>3, <1>4, <1>5

\* Only the members of a sequence count.
LEMMA AmongSame ==
    ASSUME NEW T, NEW s \in Seq(T), NEW A, NEW B, ToSet(s) \cap A = ToSet(s) \cap B
    PROVE  Among(s, A) = Among(s, B)
<1>1. \A i \in 1..Len(s) : s[i] \in A <=> s[i] \in B
  BY DEF ToSet
<1>2. [i \in 1..Len(s) |-> IF s[i] \in A THEN <<s[i]>> ELSE <<>>]
        = [i \in 1..Len(s) |-> IF s[i] \in B THEN <<s[i]>> ELSE <<>>]
  BY <1>1
<1>. QED  BY <1>2 DEF Among

\* Twice is once with both sets.
LEMMA AmongAmong ==
    ASSUME NEW T, NEW s \in Seq(T), NEW A, NEW B
    PROVE  Among(Among(s, A), B) = Among(s, A \cap B)
<1>1. PICK m \in Nat : m = Len(s) /\ \A i \in 1..m : s[i] \in T
  OBVIOUS
<1>. DEFINE C == A \cap B
<1>2. \A x : x \in C <=> x \in A /\ x \in B
  OBVIOUS
<1>. HIDE DEF C
<1>3. PICK f : IsAmong(f, s, A, T)
  BY AmongUnfolds
<1>4. PICK h : IsAmong(h, s, C, T)
  BY AmongUnfolds
<1>5. /\ f[0] = <<>> /\ Among(s, A) = f[m]
      /\ \A i \in 1..m : f[i] = f[i - 1] \o Only(s[i], A)
      /\ \A i \in 0..m : f[i] \in Seq(T)
  BY <1>1, <1>3 DEF IsAmong
<1>6. /\ h[0] = <<>> /\ Among(s, C) = h[m]
      /\ \A i \in 1..m : h[i] = h[i - 1] \o Only(s[i], C)
      /\ \A i \in 0..m : h[i] \in Seq(T)
  BY <1>1, <1>4 DEF IsAmong
<1>7. Among(<<>>, B) = <<>>
  <2>1. <<>> \in Seq(T) /\ ToSet(<<>>) = {}
    BY NoMember
  <2>. QED  BY <2>1, AmongNone
<1>. DEFINE P == {i \in 0..m : Among(f[i], B) = h[i]}
<1>8. 0 \in P
  BY <1>5, <1>6, <1>7
<1>9. ASSUME NEW i \in 0..(m - 1), i \in P
      PROVE  i + 1 \in P
  <2>1. i + 1 \in 0..m /\ i + 1 \in 1..m /\ (i + 1) - 1 = i /\ i \in 0..m
    OBVIOUS
  <2>2. PICK x \in T : x = s[i + 1]
    BY <1>1, <2>1
  <2>3. f[i + 1] = f[i] \o Only(x, A) /\ f[i] \in Seq(T)
    BY <1>5, <2>1, <2>2
  <2>4. h[i + 1] = h[i] \o Only(x, C) /\ h[i] \in Seq(T)
    BY <1>6, <2>1, <2>2
  <2>5. Among(f[i + 1], B) = h[i] \o Among(Only(x, A), B)
    <3>1. Among(f[i], B) = h[i]
      BY <1>9
    <3>2. Only(x, A) \in Seq(T)
      BY OnlyType
    <3>3. Among(f[i] \o Only(x, A), B) = Among(f[i], B) \o Among(Only(x, A), B)
      <4>1. PICK a \in Seq(T), b \in Seq(T) : a = f[i] /\ b = Only(x, A)
        BY <2>3, <3>2
      <4>2. Among(a \o b, B) = Among(a, B) \o Among(b, B)
        BY AmongConcat
      <4>. QED  BY <4>1, <4>2
    <3>. QED  BY <2>3, <3>1, <3>3
  <2>6. Among(Only(x, A), B) = Only(x, C)
    <3>1. CASE x \in A
      <4>1. Only(x, A) = <<x>> /\ Only(x, C) = Only(x, B)
        BY <1>2, <3>1 DEF Only
      <4>. QED  BY <4>1, AmongOne
    <3>2. CASE x \notin A
      <4>1. Only(x, A) = <<>> /\ Only(x, C) = <<>>
        BY <1>2, <3>2 DEF Only
      <4>. QED  BY <1>7, <4>1
    <3>. QED  BY <3>1, <3>2
  <2>. QED  BY <2>1, <2>4, <2>5, <2>6
<1>. HIDE DEF P
<1>10. \A i \in 0..m : i \in P
  BY <1>8, <1>9, Induction
<1>11. m \in P
  BY <1>10
<1>. QED  BY <1>5, <1>6, <1>11 DEF P, C

\* The last member goes last.
LEMMA AmongFront ==
    ASSUME NEW T, NEW s \in Seq(T), s # <<>>, NEW S
    PROVE  Among(s, S) = Among(Front(s), S) \o Only(Last(s), S)
<1>1. Front(s) \in Seq(T) /\ Last(s) \in T
  BY FrontAndLast
<1>2. s = Front(s) \o <<Last(s)>>
  BY DEF Front, Last
<1>3. <<Last(s)>> \in Seq(T)
  BY <1>1
<1>4. Among(Front(s) \o <<Last(s)>>, S) = Among(Front(s), S) \o Among(<<Last(s)>>, S)
  <2>1. PICK a \in Seq(T), b \in Seq(T) : a = Front(s) /\ b = <<Last(s)>>
    BY <1>1, <1>3
  <2>2. Among(a \o b, S) = Among(a, S) \o Among(b, S)
    BY AmongConcat
  <2>. QED  BY <2>1, <2>2
<1>5. Among(<<Last(s)>>, S) = Only(Last(s), S)
  BY <1>1, AmongOne
<1>. QED  BY <1>2, <1>4, <1>5

\* Appending a member, and taking it back.
LEMMA AppendLast ==
    ASSUME NEW T, NEW a \in Seq(T), NEW x \in T
    PROVE  /\ a \o <<x>> # <<>> /\ Front(a \o <<x>>) = a /\ Last(a \o <<x>>) = x
           /\ Append(a, x) = a \o <<x>>
BY DEF Front, Last

\* An appended member comes last.
LEMMA AmongAppend ==
    ASSUME NEW T, NEW s \in Seq(T), NEW x \in T, NEW S
    PROVE  Among(Append(s, x), S) = Among(s, S) \o Only(x, S)
<1>1. PICK a \in Seq(T) : a = Append(s, x)
  <2>1. Append(s, x) \in Seq(T)
    OBVIOUS
  <2>. QED  BY <2>1
<1>2. a # <<>> /\ Front(a) = s /\ Last(a) = x
  BY <1>1, AppendLast
<1>3. Among(a, S) = Among(Front(a), S) \o Only(Last(a), S)
  BY <1>2, AmongFront
<1>. QED  BY <1>1, <1>2, <1>3

-----------------------------------------------------------------------------
\* The certificates that are not garbage collected.
Recent(st) == {v \in Vertices : ~Old(st, v)}

(***************************************************************************)
(* What a state would hold if it had received every certificate up to the  *)
(* leader l, and no state has more of: the sub-dag of l is found in it     *)
(* just as well.                                                           *)
(***************************************************************************)
Whole(st, l) == [st EXCEPT !.dag = {v \in Certificates : ~Past(st, v) /\ round(v) <= round(l)}]

\* The dag has nothing that its author committed past.
NoStraggler(st) == \A v \in st.dag : st.last_committed[origin(v)] <= round(v)

\* It is a state an engine can be in, with the same commits.
LEMMA WholeState ==
    ASSUME parents \in Dags, gc_depth \in Nat, NEW st, WellState(st), NEW l \in Vertices
    PROVE  /\ WellState(Whole(st, l))
           /\ Whole(st, l).last_committed = st.last_committed
           /\ Whole(st, l).last_committed_round = st.last_committed_round
           /\ Whole(st, l).dag = {v \in Certificates : ~Past(st, v) /\ round(v) <= round(l)}
<1>. DEFINE D == {v \in Certificates : ~Past(st, v) /\ round(v) <= round(l)}
            u == Whole(st, l)
<1>1. /\ st \in StateType
      /\ st.last_committed_round = Max({st.last_committed[a] : a \in Authority})
  BY DEF WellState
<1>. HIDE DEF D
<1>2. u = [st EXCEPT !.dag = D]
  BY DEF Whole, D
<1>3. /\ u.last_committed = st.last_committed
      /\ u.last_committed_round = st.last_committed_round
      /\ u.dag = D
      /\ u \in [last_committed_round : Nat, last_committed : [Authority -> Nat],
                dag : SUBSET Certificates]
  <2>1. D \in SUBSET Certificates
    BY DEF D
  <2>. HIDE DEF u
  <2>. QED  BY <1>1, <1>2, <2>1 DEF StateType
<1>4. IsFiniteSet(D)
  <2>1. round(l) \in Nat
    BY VertexType
  <2>2. IsFiniteSet(0..round(l))
    BY <2>1, FS_Interval
  <2>3. IsFiniteSet(Authority \X (0..round(l)))
    BY <2>2, FS_Product, AuthorityFinite
  <2>4. D \subseteq Authority \X (0..round(l))
    <3>1. SUFFICES ASSUME NEW v \in D PROVE v \in Authority \X (0..round(l))
      OBVIOUS
    <3>2. v \in Certificates /\ round(v) <= round(l)
      BY DEF D
    <3>3. v = <<origin(v), round(v)>> /\ origin(v) \in Authority /\ round(v) \in Nat
      BY <3>2, CertificateType
    <3>. QED  BY <2>1, <3>2, <3>3
  <2>. QED  BY <2>3, <2>4, FS_Subset
<1>5. \A g \in genesis \cap D : st.last_committed[origin(g)] = 0
  <2>1. SUFFICES ASSUME NEW g \in genesis, g \in D PROVE st.last_committed[origin(g)] = 0
    OBVIOUS
  <2>2. g \in Certificates /\ ~Past(st, g)
    BY <2>1 DEF D
  <2>3. round(g) = 0 /\ origin(g) \in Authority
    BY <2>1, <2>2, CertificateType
  <2>4. st.last_committed[origin(g)] \in Nat /\ ~(0 > st.last_committed[origin(g)])
    BY <2>3, CommittedBound
  <2>. QED  BY <2>2, <2>3, <2>4 DEF Past
<1>. HIDE DEF u
<1>6. WellState(u)
  BY <1>1, <1>3, <1>4, <1>5 DEF WellState, StateType
<1>. QED  BY <1>3, <1>6 DEF u, D

\* What the search goes on to is the same in both states, but for the
\* certificates that are garbage collected.
LEMMA FreshSame ==
    ASSUME parents \in Dags, gc_depth \in Nat, NEW st, WellState(st), NoStraggler(st),
           NEW H, IsHistory(H, st), NEW l \in Vertices,
           NEW x \in H \cap Vertices, round(x) <= round(l),
           NEW V, NEW W, V \cap Recent(st) = W
    PROVE  Among(Fresh(st, x, V), Recent(st)) = Fresh(Whole(st, l), x, W)
<1>. DEFINE u == Whole(st, l)
            A == {p \in (parents[x] \cap st.dag) \ V : st.last_committed[origin(p)] # round(p)}
            B == {p \in (parents[x] \cap u.dag) \ W : u.last_committed[origin(p)] # round(p)}
            row == Row(round(x) - 1)
            R == Recent(st)
<1>1. /\ u.last_committed = st.last_committed
      /\ u.dag = {v \in Certificates : ~Past(st, v) /\ round(v) <= round(l)}
  BY WholeState
<1>2. row \in Seq(Authority \X {round(x) - 1})
  BY RowMembers
<1>3. A \cap R = B
  <2>1. SUFFICES ASSUME NEW p \in parents[x]
                 PROVE  p \in A /\ p \in R <=> p \in B
    BY DEF R, Recent
  <2>2. /\ p \in Certificates /\ round(p) <= round(l)
        /\ p \notin genesis => p \in H
    <3>1. parents[x] \subseteq Certificates /\ round(p) = round(x) - 1
      BY DagRules DEF Rules
    <3>2. round(x) \in Nat /\ round(l) \in Nat
      BY VertexType
    <3>. QED  BY <3>1, <3>2 DEF IsHistory
  <2>3. /\ origin(p) \in Authority /\ round(p) \in Nat
        /\ st.last_committed[origin(p)] \in Nat
        /\ p \in Vertices <=> round(p) > 0
        /\ p \in genesis <=> round(p) = 0
    BY <2>2, CertificateType, CommittedBound
  <2>4. ASSUME p \in A, p \in R PROVE p \in B
    <3>1. p \in st.dag /\ st.last_committed[origin(p)] <= round(p)
      BY <2>4 DEF A, NoStraggler
    <3>2. ~Past(st, p)
      BY <2>3, <2>4, <3>1 DEF Past, R, Recent, Old
    <3>. QED  BY <1>1, <2>2, <2>4, <3>2 DEF A, B, R
  <2>5. ASSUME p \in B PROVE p \in A /\ p \in R
    <3>1. ~Past(st, p) /\ st.last_committed[origin(p)] # round(p) /\ p \notin W
      BY <1>1, <2>5 DEF B
    <3>2. round(p) > 0
      BY <2>3, <3>1 DEF Past
    <3>3. p \in H /\ p \in Vertices
      BY <2>2, <2>3, <3>2
    <3>4. p \in st.dag
      BY <3>1, <3>3 DEF IsHistory
    <3>5. p \in R
      BY <3>1, <3>3 DEF Past, R, Recent, Old
    <3>6. p \notin V
      BY <3>1, <3>5 DEF R
    <3>. QED  BY <3>1, <3>4, <3>5, <3>6 DEF A
  <2>. QED  BY <2>4, <2>5
<1>. HIDE DEF A, B, row, R, u
<1>4. Among(Among(row, A), R) = Among(row, A \cap R)
  BY <1>2, AmongAmong
<1>5. Fresh(st, x, V) = Among(row, A) /\ Fresh(u, x, W) = Among(row, B)
  BY DEF Fresh, A, B, row
<1>. QED  BY <1>3, <1>4, <1>5 DEF R, u

\* What is garbage collected leads to nothing else.
LEMMA FreshOld ==
    ASSUME parents \in Dags, gc_depth \in Nat, NEW st, WellState(st),
           NEW x \in Vertices, x \notin Recent(st), NEW V
    PROVE  /\ Among(Fresh(st, x, V), Recent(st)) = <<>>
           /\ ToSet(Fresh(st, x, V)) \cap Recent(st) = {}
<1>1. Fresh(st, x, V) \in Seq(Vertices) /\ ToSet(Fresh(st, x, V)) \subseteq parents[x]
  BY FreshMembers
<1>2. \A p \in parents[x] : p \notin Recent(st)
  <2>1. SUFFICES ASSUME NEW p \in parents[x], p \in Vertices PROVE Old(st, p)
    BY DEF Recent
  <2>2. round(p) = round(x) - 1 /\ round(x) \in Nat /\ st.last_committed_round \in Nat
    BY DagRules, VertexType DEF Rules, WellState, StateType
  <2>3. Old(st, x)
    BY DEF Recent
  <2>. QED  BY <2>2, <2>3 DEF Old
<1>3. ToSet(Fresh(st, x, V)) \cap Recent(st) = {}
  BY <1>1, <1>2
<1>. QED  BY <1>1, <1>3, AmongNone

\* The search in st, without what is garbage collected, is the search in Whole(st, l).
Sees(st, s, t) ==
    /\ Among(s.buffer, Recent(st)) = t.buffer
    /\ Among(s.ordered, Recent(st)) = t.ordered
    /\ s.already_ordered \cap Recent(st) = t.already_ordered

\* A visit of the engine is one of the whole state, or nothing to it.
LEMMA VisitSees ==
    ASSUME parents \in Dags, gc_depth \in Nat, NEW st, WellState(st), NoStraggler(st),
           NEW H, IsHistory(H, st), NEW l \in Vertices, l \in st.dag,
           NEW s, SearchInv(st, l, s), s.buffer # <<>>,
           NEW t, SearchInv(Whole(st, l), l, t), Sees(st, s, t)
    PROVE  IF Last(s.buffer) \in Recent(st)
             THEN t.buffer # <<>> /\ Sees(st, Visit(st, s), Visit(Whole(st, l), t))
             ELSE Sees(st, Visit(st, s), t)
<1>. DEFINE u == Whole(st, l)
            R == Recent(st)
<1>1. PICK b \in Seq(Vertices), o \in Seq(Vertices) : b = s.buffer /\ o = s.ordered /\ b # <<>>
  BY DEF SearchInv
<1>2. PICK x \in Vertices, front \in Seq(Vertices) :
         x = Last(b) /\ front = Front(b) /\ x \in ToSet(b)
  BY <1>1, FrontAndLast
<1>3. x \in H /\ round(x) <= round(l)
  <2>1. x \in {l} \cup s.already_ordered
    BY <1>1, <1>2 DEF SearchInv
  <2>2. x \in st.dag /\ (x = l \/ round(x) < round(l))
    BY <2>1 DEF SearchInv
  <2>3. round(x) \in Nat /\ round(l) \in Nat
    BY VertexType
  <2>. QED  BY <2>2, <2>3 DEF IsHistory
<1>4. PICK fresh \in Seq(Vertices) : fresh = Fresh(st, x, s.already_ordered)
  BY FreshMembers
<1>5. Visit(st, s) = [buffer |-> front \o fresh, ordered |-> Append(o, x),
                      already_ordered |-> s.already_ordered \cup ToSet(fresh)]
  BY <1>1, <1>2, <1>4 DEF Visit
<1>6. /\ Among(front \o fresh, R) = Among(front, R) \o Among(fresh, R)
      /\ Among(b, R) = Among(front, R) \o Only(x, R)
      /\ Among(Append(o, x), R) = Among(o, R) \o Only(x, R)
  <2>1. Among(front \o fresh, R) = Among(front, R) \o Among(fresh, R)
    BY AmongConcat
  <2>2. Among(b, R) = Among(front, R) \o Only(x, R)
    BY <1>1, <1>2, AmongFront
  <2>3. Among(Append(o, x), R) = Among(o, R) \o Only(x, R)
    BY AmongAppend
  <2>. QED  BY <2>1, <2>2, <2>3
<1>7. PICK front2 \in Seq(Vertices), o2 \in Seq(Vertices) :
         front2 = Among(front, R) /\ o2 = Among(o, R)
  BY AmongMembers
<1>8. /\ t.buffer = front2 \o Only(x, R) /\ t.ordered = o2
      /\ t.already_ordered = s.already_ordered \cap R
  BY <1>1, <1>6, <1>7 DEF Sees
<1>9. CASE x \in R
  <2>1. Only(x, R) = <<x>>
    BY <1>9 DEF Only
  <2>2. t.buffer # <<>> /\ Front(t.buffer) = front2 /\ Last(t.buffer) = x
    BY <1>8, <2>1, AppendLast
  <2>3. Among(fresh, R) = Fresh(u, x, t.already_ordered)
    <3>1. s.already_ordered \cap Recent(st) = t.already_ordered
      BY DEF Sees
    <3>2. Among(Fresh(st, x, s.already_ordered), Recent(st))
            = Fresh(Whole(st, l), x, t.already_ordered)
      BY <1>3, <3>1, FreshSame
    <3>. QED  BY <1>4, <3>2
  <2>. DEFINE fresh2 == Fresh(u, x, t.already_ordered)
  <2>4. Visit(u, t) = [buffer |-> front2 \o fresh2, ordered |-> Append(o2, x),
                       already_ordered |-> t.already_ordered \cup ToSet(fresh2)]
    BY <1>8, <2>2 DEF Visit
  <2>5. ToSet(fresh) \cap R = ToSet(fresh2)
    BY <2>3, AmongMembers
  <2>6. Append(o2, x) = o2 \o <<x>>
    BY AppendLast
  <2>. HIDE DEF fresh2, R, u
  <2>7. Among(front \o fresh, R) = front2 \o fresh2 /\ Among(Append(o, x), R) = Append(o2, x)
    BY <1>6, <1>7, <2>1, <2>3, <2>6 DEF fresh2
  <2>8. (s.already_ordered \cup ToSet(fresh)) \cap R = t.already_ordered \cup ToSet(fresh2)
    BY <1>8, <2>5
  <2>9. Sees(st, Visit(st, s), Visit(u, t))
    BY <1>5, <2>4, <2>7, <2>8 DEF Sees, R
  <2>. QED  BY <1>1, <1>2, <1>9, <2>2, <2>9 DEF R, u
<1>10. CASE x \notin R
  <2>1. Among(fresh, R) = <<>> /\ ToSet(fresh) \cap R = {}
    BY <1>4, <1>10, FreshOld
  <2>2. Only(x, R) = <<>>
    BY <1>10 DEF Only
  <2>3. front2 \o <<>> = front2 /\ o2 \o <<>> = o2
    BY ConcatEmptySeq
  <2>. HIDE DEF R, u
  <2>4. Among(front \o fresh, R) = t.buffer /\ Among(Append(o, x), R) = t.ordered
    BY <1>6, <1>7, <1>8, <2>1, <2>2, <2>3
  <2>5. (s.already_ordered \cup ToSet(fresh)) \cap R = t.already_ordered
    BY <1>8, <2>1
  <2>6. Sees(st, Visit(st, s), t)
    BY <1>5, <2>4, <2>5 DEF Sees, R
  <2>. QED  BY <1>1, <1>2, <1>10, <2>6 DEF R
<1>. QED  BY <1>9, <1>10

\* So the searches find the same recent certificates in the same order.
LEMMA SearchesSee ==
    ASSUME parents \in Dags, gc_depth \in Nat, NEW st, WellState(st), NoStraggler(st),
           NEW H, IsHistory(H, st), NEW l \in Vertices, l \in st.dag,
           round(l) > st.last_committed_round,
           NEW n \in Nat, NEW f, IsSearchRun(st, l, n, f), f[n].buffer = <<>>,
           NEW k \in Nat, NEW g, IsSearchRun(Whole(st, l), l, k, g), g[k].buffer = <<>>
    PROVE  Among(f[n].ordered, Recent(st)) = g[k].ordered
<1>. DEFINE u == Whole(st, l)
            P == {i \in 0..n : \E j \in 0..k : Sees(st, f[i], g[j])}
<1>1. /\ f[0] = SearchStart(l) /\ \A i \in 1..n : f[i] = SearchStep(st, f[i - 1])
      /\ \A i \in 0..n : SearchInv(st, l, f[i])
  BY DEF IsSearchRun
<1>2. /\ g[0] = SearchStart(l) /\ \A j \in 1..k : g[j] = SearchStep(u, g[j - 1])
      /\ \A j \in 0..k : SearchInv(u, l, g[j])
  BY DEF IsSearchRun
<1>3. 0 \in P
  <2>1. l \in Recent(st)
    <3>1. round(l) \in Nat /\ st.last_committed_round \in Nat
      BY VertexType DEF WellState, StateType
    <3>. QED  BY <3>1 DEF Recent, Old
  <2>2. Among(<<l>>, Recent(st)) = <<l>>
    BY <2>1, AmongOne DEF Only
  <2>3. Among(<<>>, Recent(st)) = <<>>
    <3>1. <<>> \in Seq(Vertices) /\ ToSet(<<>>) = {}
      BY NoMember
    <3>. QED  BY <3>1, AmongNone
  <2>4. Sees(st, SearchStart(l), SearchStart(l))
    BY <2>2, <2>3 DEF Sees, SearchStart
  <2>. QED  BY <1>1, <1>2, <2>4
<1>4. ASSUME NEW i \in 0..(n - 1), i \in P
      PROVE  i + 1 \in P
  <2>1. i + 1 \in 0..n /\ i + 1 \in 1..n /\ (i + 1) - 1 = i /\ i \in 0..n
    OBVIOUS
  <2>2. PICK j \in 0..k : Sees(st, f[i], g[j])
    BY <1>4
  <2>. DEFINE s == f[i]
              t == g[j]
  <2>3. f[i + 1] = SearchStep(st, s) /\ SearchInv(st, l, s) /\ SearchInv(u, l, t)
    BY <1>1, <1>2, <2>1
  <2>4. CASE s.buffer = <<>>
    <3>1. f[i + 1] = s
      BY <2>3, <2>4 DEF SearchStep
    <3>. QED  BY <2>1, <2>2, <3>1
  <2>5. CASE s.buffer # <<>>
    <3>. HIDE DEF s, t
    <3>1. f[i + 1] = Visit(st, s)
      BY <2>3, <2>5 DEF SearchStep
    <3>2. Sees(st, s, t)
      BY <2>2 DEF s, t
    <3>3. IF Last(s.buffer) \in Recent(st)
            THEN t.buffer # <<>> /\ Sees(st, Visit(st, s), Visit(u, t))
            ELSE Sees(st, Visit(st, s), t)
      BY <2>3, <2>5, <3>2, VisitSees
    <3>4. CASE Last(s.buffer) \in Recent(st)
      <4>1. t.buffer # <<>> /\ Sees(st, Visit(st, s), Visit(u, t))
        BY <3>3, <3>4
      <4>2. j # k
        BY <4>1 DEF t
      <4>3. j + 1 \in 0..k /\ j + 1 \in 1..k /\ (j + 1) - 1 = j
        BY <4>2
      <4>4. g[j + 1] = Visit(u, t)
        BY <1>2, <4>1, <4>3 DEF SearchStep, t
      <4>. QED  BY <2>1, <3>1, <4>1, <4>3, <4>4
    <3>5. CASE Last(s.buffer) \notin Recent(st)
      <4>1. Sees(st, f[i + 1], g[j])
        BY <3>1, <3>3, <3>5 DEF t
      <4>. QED  BY <2>1, <4>1
    <3>. QED  BY <3>4, <3>5
  <2>. QED  BY <2>4, <2>5
<1>. HIDE DEF P
<1>5. \A i \in 0..n : i \in P
  BY <1>3, <1>4, Induction
<1>6. PICK j \in 0..k : Sees(st, f[n], g[j])
  <2>1. n \in 0..n
    OBVIOUS
  <2>2. n \in P
    BY <1>5, <2>1
  <2>. QED  BY <2>2 DEF P
<1>7. g[j].buffer = <<>>
  <2>1. Among(<<>>, Recent(st)) = <<>>
    <3>1. <<>> \in Seq(Vertices) /\ ToSet(<<>>) = {}
      BY NoMember
    <3>. QED  BY <3>1, AmongNone
  <2>. QED  BY <1>6, <2>1 DEF Sees
<1>. DEFINE Q == {d \in 0..(k - j) : g[j + d] = g[j]}
<1>8. 0 \in Q
  OBVIOUS
<1>9. ASSUME NEW d \in 0..((k - j) - 1), d \in Q
      PROVE  d + 1 \in Q
  <2>1. /\ d + 1 \in 0..(k - j) /\ j + (d + 1) \in 1..k /\ (j + (d + 1)) - 1 = j + d
    OBVIOUS
  <2>2. g[j + (d + 1)] = SearchStep(u, g[j + d]) /\ g[j + d] = g[j]
    BY <1>2, <1>9, <2>1
  <2>. QED  BY <1>7, <2>1, <2>2 DEF SearchStep
<1>. HIDE DEF Q
<1>10. \A d \in 0..(k - j) : d \in Q
  <2>1. k - j \in Nat
    OBVIOUS
  <2>. QED  BY <1>8, <1>9, <2>1, Induction
<1>11. g[k] = g[j]
  <2>1. k - j \in 0..(k - j) /\ j + (k - j) = k
    OBVIOUS
  <2>2. k - j \in Q
    BY <1>10, <2>1
  <2>. QED  BY <2>1, <2>2 DEF Q
<1>. QED  BY <1>6, <1>11 DEF Sees

(***************************************************************************)
(* What a leader brings along depends on what was committed before it, not *)
(* on what else the engine was handed.                                     *)
(***************************************************************************)
LEMMA SameBatch ==
    ASSUME parents \in Dags, gc_depth \in Nat, NEW st, WellState(st), NoStraggler(st),
           NEW H, IsHistory(H, st), NEW l \in Vertices, l \in st.dag,
           round(l) > st.last_committed_round
    PROVE  order_dag(st, l) = order_dag(Whole(st, l), l)
<1>. DEFINE u == Whole(st, l)
<1>1. /\ WellState(u) /\ u.last_committed_round = st.last_committed_round
      /\ u.dag = {v \in Certificates : ~Past(st, v) /\ round(v) <= round(l)}
  BY WholeState
<1>2. l \in u.dag
  <2>1. /\ origin(l) \in Authority /\ round(l) \in Nat /\ st.last_committed_round \in Nat
        /\ st.last_committed[origin(l)] \in Nat
        /\ st.last_committed[origin(l)] <= st.last_committed_round
    BY VertexType, CommittedBound
  <2>2. ~Past(st, l)
    BY <2>1 DEF Past
  <2>. QED  BY <1>1, <2>1, <2>2 DEF Certificates
<1>. HIDE DEF u
<1>3. PICK n \in Nat : n = Cardinality(st.dag) /\ IsSearchRun(st, l, n, Search(st, l))
  BY SearchRuns
<1>4. PICK k \in Nat : k = Cardinality(u.dag) /\ IsSearchRun(u, l, k, Search(u, l))
  BY <1>1, <1>2, SearchRuns
<1>5. Search(st, l)[n].buffer = <<>> /\ Search(u, l)[k].buffer = <<>>
  BY <1>1, <1>2, <1>3, <1>4, SearchEnds DEF SearchEnd
<1>. DEFINE o == Search(st, l)[n].ordered
            o2 == Search(u, l)[k].ordered
<1>6. Among(o, Recent(st)) = o2
  BY <1>3, <1>4, <1>5, SearchesSee DEF u
<1>7. o \in Seq(Vertices)
  BY <1>3 DEF IsSearchRun, SearchInv
<1>. DEFINE R == {v \in Vertices : round(v) + gc_depth >= st.last_committed_round}
<1>8. Recent(st) = R
  <2>1. \A v \in Vertices : round(v) \in Nat /\ st.last_committed_round \in Nat
    BY VertexType DEF WellState, StateType
  <2>. QED  BY <2>1 DEF Recent, Old
<1>9. /\ order_dag(st, l) = sort_by_round(Among(o, R), round(l))
      /\ order_dag(u, l) = sort_by_round(Among(o2, R), round(l))
  BY <1>1, <1>3, <1>4, OrderDagUnfolds
<1>. HIDE DEF o, o2, R
<1>10. Among(Among(o, R), R) = Among(o, R)
  <2>1. R \cap R = R
    OBVIOUS
  <2>. QED  BY <1>7, <2>1, AmongAmong
<1>. QED  BY <1>6, <1>8, <1>9, <1>10 DEF u

-----------------------------------------------------------------------------
\* Two states in which the same is committed.
SameCommits(st, u) ==
    /\ st.last_committed = u.last_committed
    /\ st.last_committed_round = u.last_committed_round

\* The same batch keeps them equal.
LEMMA UpdatesSame ==
    ASSUME parents \in Dags, gc_depth \in Nat, NEW st, WellState(st), NEW u, WellState(u),
           SameCommits(st, u), NEW batch \in Seq(Vertices)
    PROVE  SameCommits(updates(st, batch), updates(u, batch))
<1>1. PICK n \in Nat : n = Len(batch)
  OBVIOUS
<1>2. PICK f : IsUpdateRun(st, batch, f)
  BY UpdateRun
<1>3. PICK g : IsUpdateRun(u, batch, g)
  BY UpdateRun
<1>4. /\ f[0] = st /\ updates(st, batch) = f[n]
      /\ \A i \in 1..n : f[i] = update(f[i - 1], batch[i])
  BY <1>1, <1>2 DEF IsUpdateRun
<1>5. /\ g[0] = u /\ updates(u, batch) = g[n]
      /\ \A i \in 1..n : g[i] = update(g[i - 1], batch[i])
  BY <1>1, <1>3 DEF IsUpdateRun
<1>. DEFINE P == {i \in 0..n : SameCommits(f[i], g[i])}
<1>6. 0 \in P
  BY <1>4, <1>5
<1>7. ASSUME NEW i \in 0..(n - 1), i \in P
      PROVE  i + 1 \in P
  <2>1. i + 1 \in 0..n /\ i + 1 \in 1..n /\ (i + 1) - 1 = i
    OBVIOUS
  <2>2. f[i + 1] = update(f[i], batch[i + 1]) /\ g[i + 1] = update(g[i], batch[i + 1])
    BY <1>4, <1>5, <2>1
  <2>3. \A s, t, c : SameCommits(s, t) => SameCommits(update(s, c), update(t, c))
    BY DEF SameCommits, update
  <2>. QED  BY <1>7, <2>1, <2>2, <2>3
<1>. HIDE DEF P
<1>8. \A i \in 0..n : i \in P
  BY <1>6, <1>7, Induction
<1>9. n \in P
  BY <1>8
<1>. QED  BY <1>4, <1>5, <1>9 DEF P

\* Then the whole states are the same.
LEMMA WholeSame ==
    ASSUME parents \in Dags, gc_depth \in Nat, NEW st, WellState(st), NEW u, WellState(u),
           SameCommits(st, u), NEW l \in Vertices
    PROVE  Whole(st, l) = Whole(u, l)
<1>1. /\ Whole(st, l).last_committed = Whole(u, l).last_committed
      /\ Whole(st, l).last_committed_round = Whole(u, l).last_committed_round
      /\ Whole(st, l).dag = Whole(u, l).dag
  BY WholeState DEF SameCommits, Past
<1>2. Whole(st, l) \in StateType /\ Whole(u, l) \in StateType
  BY WholeState DEF WellState
<1>. HIDE DEF Whole
<1>. QED  BY <1>1, <1>2 DEF StateType

(***************************************************************************)
(* The ledger of a set of leaders: round by round, what an engine that     *)
(* holds everything would have committed if it commits these leaders.      *)
(***************************************************************************)
LedgerStep(acc, l) ==
    LET batch == order_dag(Whole(acc.st, l), l)
    IN  [st |-> updates(acc.st, batch), sequence |-> acc.sequence \o batch]

Extends(s, t) == \E u \in Seq(Vertices) : t = s \o u

IsLedger(L, f, t) ==
    /\ f[0] = [st |-> InitialState, sequence |-> <<>>]
    /\ \A r \in 1..t :
        /\ f[r] = IF leader_of(r) \in L THEN LedgerStep(f[r - 1], leader_of(r)) ELSE f[r - 1]
        /\ Extends(f[r - 1].sequence, f[r].sequence)
    /\ \A r \in 0..t : WellState(f[r].st) /\ f[r].sequence \in Seq(Vertices)

\* A state and an output are those of the ledger.
Tracks(L, f, st, out) ==
    /\ IsLedger(L, f, st.last_committed_round)
    /\ SameCommits(st, f[st.last_committed_round].st)
    /\ out = f[st.last_committed_round].sequence

\* A commit of a leader is the next step of the ledger.
LEMMA CommitTracks ==
    ASSUME parents \in Dags, gc_depth \in Nat, NEW st, WellState(st), NoStraggler(st),
           NEW H, IsHistory(H, st), NEW l \in Vertices, l \in st.dag,
           l = leader_of(round(l)), round(l) > st.last_committed_round,
           NEW L, l \in L,
           \A r \in (st.last_committed_round + 1)..(round(l) - 1) : leader_of(r) \notin L,
           NEW out, NEW f, Tracks(L, f, st, out),
           NEW u, u = updates(st, order_dag(st, l)), u.last_committed_round = round(l)
    PROVE  \E g : Tracks(L, g, u, out \o order_dag(st, l))
<1>1. PICK t \in Nat, n \in Nat : t = st.last_committed_round /\ n = round(l) /\ t < n
  BY VertexType DEF WellState, StateType
<1>2. /\ IsLedger(L, f, t) /\ SameCommits(st, f[t].st) /\ out = f[t].sequence
      /\ f[0] = [st |-> InitialState, sequence |-> <<>>]
      /\ WellState(f[t].st) /\ out \in Seq(Vertices)
  <2>1. t \in 0..t
    OBVIOUS
  <2>. QED  BY <1>1, <2>1 DEF Tracks, IsLedger
<1>3. PICK batch \in Seq(Vertices) : batch = order_dag(st, l)
  BY OrderDag
<1>4. batch = order_dag(Whole(f[t].st, l), l)
  <2>1. Whole(st, l) = Whole(f[t].st, l)
    BY <1>2, WholeSame
  <2>. QED  BY <1>3, <2>1, SameBatch
<1>. DEFINE new == [st |-> updates(f[t].st, batch), sequence |-> out \o batch]
            g == [r \in 0..n |-> IF r <= t THEN f[r] ELSE IF r < n THEN f[t] ELSE new]
<1>5. new = LedgerStep(f[t], l)
  BY <1>2, <1>4 DEF LedgerStep
<1>6. out \o batch \in Seq(Vertices)
  BY <1>2
<1>7. new.st = updates(f[t].st, batch) /\ new.sequence = out \o batch
  OBVIOUS
<1>. HIDE DEF new
<1>8. /\ \A r \in 0..t : g[r] = f[r]
      /\ \A r \in t..(n - 1) : g[r] = f[t]
      /\ g[n] = new
  BY <1>1
<1>. HIDE DEF g
<1>9. WellState(new.st) /\ SameCommits(u, new.st)
  <2>1. WellState(updates(f[t].st, batch))
    BY <1>2, UpdatesAdvance DEF Advances
  <2>2. SameCommits(updates(st, batch), updates(f[t].st, batch))
    BY <1>2, UpdatesSame
  <2>. QED  BY <1>3, <1>7, <2>1, <2>2
<1>10. ASSUME NEW r \in 1..n
       PROVE  /\ g[r] = IF leader_of(r) \in L THEN LedgerStep(g[r - 1], leader_of(r)) ELSE g[r - 1]
              /\ Extends(g[r - 1].sequence, g[r].sequence)
  <2>1. CASE r <= t
    <3>1. r \in 1..t /\ r \in 0..t /\ r - 1 \in 0..t
      BY <2>1
    <3>. QED  BY <1>2, <1>8, <3>1 DEF IsLedger
  <2>2. CASE r > t /\ r < n
    <3>1. r \in t..(n - 1) /\ r - 1 \in t..(n - 1) /\ r \in (t + 1)..(n - 1)
      BY <2>2
    <3>2. leader_of(r) \notin L /\ g[r] = f[t] /\ g[r - 1] = f[t]
      BY <1>1, <1>8, <3>1
    <3>3. out \o <<>> = out
      BY <1>2, ConcatEmptySeq
    <3>4. Extends(out, out)
      <4>1. <<>> \in Seq(Vertices)
        OBVIOUS
      <4>. QED  BY <3>3, <4>1 DEF Extends
    <3>. QED  BY <1>2, <3>2, <3>4
  <2>3. CASE r = n
    <3>1. n - 1 \in t..(n - 1)
      BY <1>1
    <3>2. g[n - 1] = f[t] /\ leader_of(n) = l
      BY <1>1, <1>8, <3>1
    <3>3. Extends(out, out \o batch)
      BY DEF Extends
    <3>. QED  BY <1>2, <1>5, <1>7, <1>8, <2>3, <3>2, <3>3
  <2>. QED  BY <1>1, <2>1, <2>2, <2>3
<1>11. ASSUME NEW r \in 0..n
       PROVE  WellState(g[r].st) /\ g[r].sequence \in Seq(Vertices)
  <2>1. CASE r <= t
    <3>1. r \in 0..t
      BY <2>1
    <3>. QED  BY <1>2, <1>8, <3>1 DEF IsLedger
  <2>2. CASE r > t /\ r < n
    <3>1. r \in t..(n - 1)
      BY <2>2
    <3>. QED  BY <1>2, <1>8, <3>1
  <2>3. CASE r = n
    BY <1>6, <1>7, <1>8, <1>9, <2>3
  <2>. QED  BY <1>1, <2>1, <2>2, <2>3
<1>12. g[0] = f[0]
  <2>1. 0 \in 0..t
    OBVIOUS
  <2>. QED  BY <1>8, <2>1
<1>13. IsLedger(L, g, n)
  BY <1>2, <1>10, <1>11, <1>12 DEF IsLedger
<1>14. Tracks(L, g, u, out \o batch)
  BY <1>1, <1>7, <1>8, <1>9, <1>13 DEF Tracks
<1>. QED  BY <1>3, <1>14

\* A commit leaves no straggler behind.
LEMMA AdvanceNoStraggler ==
    ASSUME parents \in Dags, NEW st, WellState(st), NoStraggler(st),
           NEW u, NEW B \in SUBSET Vertices, Advances(st, u, B)
    PROVE  NoStraggler(u)
<1>1. CASE B # {}
  BY <1>1 DEF Advances, NoStraggler
<1>2. CASE B = {}
  <2>1. \A a \in Authority : u.last_committed[a] = st.last_committed[a]
    BY <1>2 DEF Advances
  <2>2. \A v \in u.dag : v \in st.dag /\ origin(v) \in Authority
    BY CertificateType DEF Advances, WellState, StateType
  <2>. QED  BY <2>1, <2>2 DEF NoStraggler
<1>. QED  BY <1>1, <1>2

\* A commit with all its leaders follows the ledger.
LEMMA CommitFollows ==
    ASSUME parents \in Dags, gc_depth \in Nat, NEW st, WellState(st), NoStraggler(st),
           NEW H, IsHistory(H, st), NEW last \in Vertices, last \in st.dag,
           last = leader_of(round(last)), round(last) > st.last_committed_round,
           NEW L, ToSet(order_leaders(st, last)) \subseteq L,
           \A v \in L : round(v) > st.last_committed_round => v \in ToSet(order_leaders(st, last)),
           NEW out \in Seq(Vertices), NEW f, Tracks(L, f, st, out)
    PROVE  \E g : Tracks(L, g, commit(st, last).st, out \o commit(st, last).sequence)
<1>. DEFINE leaders == order_leaders(st, last)
<1>1. PICK n \in Nat : \E acc : IsCommitRun(st, last, n, acc)
  BY CommitRun
<1>2. PICK acc : IsCommitRun(st, last, n, acc)
  BY <1>1
<1>3. IsChain(st, last, st.last_committed_round + 1, leaders)
  BY OrderLeaders
<1>4. PICK t \in Nat : t = st.last_committed_round
  BY DEF WellState, StateType
<1>5. /\ n = Len(leaders) /\ n > 0
      /\ acc[0] = [st |-> st, sequence |-> <<>>]
      /\ \A i \in 1..n : acc[i] = CommitStep(acc[i - 1], leaders[i])
      /\ \A i \in 0..n : Progress(st, leaders, i, acc[i])
      /\ commit(st, last) = acc[n]
  BY <1>2 DEF IsCommitRun
<1>6. /\ leaders \in Seq(Vertices) /\ DOMAIN leaders = 1..n
      /\ \A i \in 1..n : /\ leaders[i] = leader_of(round(leaders[i])) /\ leaders[i] \in Vertices
                         /\ round(leaders[i]) \in Nat /\ leaders[i] \in ToSet(leaders)
      /\ \A i, j \in 1..n : i < j => round(leaders[i]) < round(leaders[j])
  <2>1. /\ leaders \in Seq(Vertices) /\ DOMAIN leaders = 1..n
        /\ \A i \in 1..n : leaders[i] = leader_of(round(leaders[i]))
        /\ \A i, j \in 1..n : i < j => round(leaders[i]) < round(leaders[j])
    <3>. HIDE DEF leaders
    <3>1. n = Len(leaders)
      BY <1>5
    <3>. QED  BY <1>3, <3>1 DEF IsChain
  <2>. HIDE DEF leaders
  <2>2. \A i \in 1..n : leaders[i] \in Vertices /\ leaders[i] \in ToSet(leaders)
    BY <2>1 DEF ToSet
  <2>3. \A i \in 1..n : round(leaders[i]) \in Nat
    BY <2>2, VertexType
  <2>. QED  BY <2>1, <2>2, <2>3
<1>7. \A v \in ToSet(leaders) : \E i \in 1..n : v = leaders[i]
  BY <1>6 DEF ToSet
<1>8. /\ \A v \in ToSet(leaders) : v \in L
      /\ \A v \in L : round(v) > t => v \in ToSet(leaders)
  BY <1>4
<1>. HIDE DEF leaders
<1>. DEFINE P == {k \in 0..n : \E g : Tracks(L, g, acc[k].st, out \o acc[k].sequence)}
<1>9. 0 \in P
  <2>1. acc[0].st = st /\ acc[0].sequence = <<>> /\ out \o <<>> = out
    BY <1>5, ConcatEmptySeq
  <2>2. 0 \in 0..n /\ Tracks(L, f, acc[0].st, out \o acc[0].sequence)
    BY <2>1
  <2>. QED  BY <2>2
<1>10. ASSUME NEW k \in 0..(n - 1), k \in P
       PROVE  k + 1 \in P
  <2>1. k \in Nat /\ k \in 0..n /\ k + 1 \in 0..n /\ k + 1 \in 1..n /\ (k + 1) - 1 = k
    OBVIOUS
  <2>2. PICK g : Tracks(L, g, acc[k].st, out \o acc[k].sequence)
    BY <1>10
  <2>3. PICK u, s : u = acc[k].st /\ s = acc[k].sequence
    OBVIOUS
  <2>4. Progress(st, leaders, k, acc[k])
    BY <1>5, <2>1
  <2>5. /\ s \in Seq(Vertices) /\ Advances(st, u, ToSet(s))
        /\ u.last_committed_round = IF k = 0 THEN t ELSE round(leaders[k])
    BY <1>4, <2>3, <2>4 DEF Progress
  <2>6. ToSet(s) \in SUBSET Vertices
    BY <2>5 DEF ToSet
  <2>7. PICK l \in Vertices : l = leaders[k + 1]
    BY <1>6, <2>1
  <2>8. /\ WellState(u) /\ l \in u.dag /\ round(l) > u.last_committed_round
        /\ l = leader_of(round(l)) /\ l \in L
    <3>1. WellState(u) /\ l \in u.dag /\ round(l) > u.last_committed_round
      BY <1>3, <1>5, <2>1, <2>3, <2>4, <2>7, NextLeader DEF leaders
    <3>. QED  BY <1>6, <1>8, <2>1, <2>7, <3>1
  <2>9. IsHistory(H, u) /\ NoStraggler(u)
    BY <2>5, <2>6, AdvanceHistory, AdvanceNoStraggler
  <2>10. PICK q \in Nat : q = u.last_committed_round
    BY <2>8 DEF WellState, StateType
  <2>11. \A r \in (q + 1)..(round(l) - 1) : leader_of(r) \notin L
    <3>1. SUFFICES ASSUME NEW r \in (q + 1)..(round(l) - 1), leader_of(r) \in L
                   PROVE  FALSE
      OBVIOUS
    <3>2. r \in Nat /\ q < r /\ r < round(l) /\ round(l) \in Nat
      BY <1>6, <2>1, <2>7, <2>10
    <3>3. q >= t
      BY <1>4, <2>5, <2>10 DEF Advances
    <3>4. round(leader_of(r)) = r
      BY DEF round, leader_of
    <3>5. PICK i \in 1..n : leader_of(r) = leaders[i]
      BY <1>7, <1>8, <3>1, <3>2, <3>3, <3>4
    <3>6. round(leaders[i]) = r
      BY <3>4, <3>5
    <3>7. CASE i > k + 1
      BY <1>6, <2>1, <2>7, <3>2, <3>6, <3>7
    <3>8. CASE i = k + 1
      BY <2>7, <3>2, <3>6, <3>8
    <3>9. CASE i < k + 1
      <4>1. k # 0 /\ k \in 1..n /\ (i = k \/ i < k)
        BY <3>9
      <4>2. q = round(leaders[k])
        BY <2>5, <2>10, <4>1
      <4>. QED  BY <1>6, <3>2, <3>6, <4>1, <4>2
    <3>. QED  BY <3>7, <3>8, <3>9
  <2>12. PICK batch \in Seq(Vertices) : batch = order_dag(u, l)
    BY <2>8, OrderDag
  <2>13. acc[k + 1].st = updates(u, batch) /\ acc[k + 1].sequence = s \o batch
    <3>1. acc[k + 1] = CommitStep(acc[k], l)
      BY <1>5, <2>1, <2>7
    <3>2. CommitStep(acc[k], l) = [st |-> updates(u, batch), sequence |-> s \o batch]
      BY <2>3, <2>12 DEF CommitStep
    <3>. QED  BY <3>1, <3>2
  <2>14. acc[k + 1].st.last_committed_round = round(l)
    <3>1. Progress(st, leaders, k + 1, acc[k + 1]) /\ k + 1 # 0
      BY <1>5, <2>1
    <3>. QED  BY <2>7, <3>1 DEF Progress
  <2>15. \E h : Tracks(L, h, acc[k + 1].st, (out \o s) \o batch)
    <3>1. Tracks(L, g, u, out \o s)
      BY <2>2, <2>3
    <3>. QED  BY <2>8, <2>9, <2>10, <2>11, <2>12, <2>13, <2>14, <3>1, CommitTracks
  <2>16. (out \o s) \o batch = out \o (s \o batch)
    BY <2>5, ConcatAssociative
  <2>. QED  BY <2>1, <2>13, <2>15, <2>16
<1>. HIDE DEF P
<1>11. \A k \in 0..n : k \in P
  BY <1>9, <1>10, Induction
<1>12. n \in P
  BY <1>11
<1>. QED  BY <1>5, <1>12 DEF P

-----------------------------------------------------------------------------
\* A path in D is a path in E, if E has all of D that may be on it.
LEMMA LinkedWithin ==
    ASSUME NEW D, NEW E, NEW from, NEW to, round(from) \in Nat, round(to) \in Nat,
           round(to) < round(from), linked(D, from, to),
           NEW K, from \in K,
           \A x \in K : \A p \in parents[x] \cap D : round(p) >= round(to) => p \in K /\ p \in E
    PROVE  linked(E, from, to) /\ to \in E
<1>1. PICK hi \in Nat, lo \in Nat : hi = round(from) /\ lo = round(to) /\ lo < hi
  OBVIOUS
<1>2. PICK F : F = Walk(D, from, to) /\ IsWalk(F, lo, hi, D, from) /\ to \in F[lo]
  BY <1>1, WalkExists, LinkedIsWalk
<1>3. PICK G : G = Walk(E, from, to) /\ IsWalk(G, lo, hi, E, from)
  BY <1>1, WalkExists
<1>4. /\ F[hi] = {from} /\ G[hi] = {from}
      /\ \A r \in lo..(hi - 1) :
            /\ F[r] = {v \in D : round(v) = r /\ \E x \in F[r + 1] : v \in parents[x]}
            /\ G[r] = {v \in E : round(v) = r /\ \E x \in G[r + 1] : v \in parents[x]}
  <2>1. hi \in lo..hi /\ \A r \in lo..(hi - 1) : r \in lo..hi /\ r # hi
    BY <1>1
  <2>2. F[hi] = {from} /\ G[hi] = {from}
    BY <1>2, <1>3, <2>1 DEF IsWalk
  <2>3. \A r \in lo..(hi - 1) :
            F[r] = {v \in D : round(v) = r /\ \E x \in F[r + 1] : v \in parents[x]}
    BY <1>2, <2>1 DEF IsWalk
  <2>4. \A r \in lo..(hi - 1) :
            G[r] = {v \in E : round(v) = r /\ \E x \in G[r + 1] : v \in parents[x]}
    BY <1>3, <2>1 DEF IsWalk
  <2>. QED  BY <2>2, <2>3, <2>4
<1>5. PICK n \in Nat : n = hi - lo /\ n > 0
  BY <1>1
<1>. DEFINE P == {i \in 0..n : F[hi - i] \subseteq G[hi - i] /\ F[hi - i] \subseteq K}
<1>6. 0 \in P
  <2>1. hi - 0 = hi
    OBVIOUS
  <2>. QED  BY <1>4, <2>1
<1>7. ASSUME NEW i \in 0..(n - 1), i \in P
      PROVE  i + 1 \in P /\ \A v \in F[hi - (i + 1)] : v \in E
  <2>1. PICK r \in lo..(hi - 1) : r = hi - (i + 1) /\ hi - i = r + 1
    BY <1>1, <1>5
  <2>2. F[r + 1] \subseteq G[r + 1] /\ F[r + 1] \subseteq K
    BY <1>7, <2>1
  <2>3. ASSUME NEW v \in F[r] PROVE v \in G[r] /\ v \in K /\ v \in E
    <3>1. v \in D /\ round(v) = r
      BY <1>4, <2>3
    <3>2. PICK x \in F[r + 1] : v \in parents[x]
      BY <1>4, <2>3
    <3>3. v \in K /\ v \in E
      BY <1>1, <2>2, <3>1, <3>2
    <3>. QED  BY <1>4, <2>2, <3>1, <3>2, <3>3
  <2>. QED  BY <2>1, <2>3
<1>. HIDE DEF P
<1>8. \A i \in 0..n : i \in P
  BY <1>6, <1>7, Induction
<1>9. to \in G[lo] /\ to \in E
  <2>1. n \in 0..n /\ n - 1 \in 0..n /\ n - 1 \in 0..(n - 1) /\ (n - 1) + 1 = n /\ hi - n = lo
    BY <1>1, <1>5
  <2>2. n \in P /\ n - 1 \in P
    BY <1>8, <2>1
  <2>3. F[lo] \subseteq G[lo]
    BY <2>1, <2>2 DEF P
  <2>4. \A v \in F[hi - ((n - 1) + 1)] : v \in E
    BY <1>7, <2>1, <2>2
  <2>. QED  BY <1>2, <2>1, <2>3, <2>4
<1>. QED  BY <1>1, <1>3, <1>9, LinkedIsWalk

\* Above the last commit, an engine finds the paths that there are.
LEMMA LinkedSame ==
    ASSUME parents \in Dags, gc_depth \in Nat, NEW st, WellState(st),
           NEW H, IsHistory(H, st), NEW x \in Vertices, x \in st.dag, NEW v \in Vertices,
           round(v) < round(x), round(v) > st.last_committed_round
    PROVE  v \in st.dag /\ linked(st.dag, x, v) <=> linked(Vertices, x, v)
<1>1. /\ round(x) \in Nat /\ round(v) \in Nat /\ round(v) > 0 /\ st.last_committed_round \in Nat
  BY VertexType DEF WellState, StateType
<1>2. st.dag \subseteq H /\ H \subseteq Certificates
  BY DEF IsHistory
<1>3. ASSUME linked(st.dag, x, v) PROVE linked(Vertices, x, v)
  <2>1. \A y \in Vertices : \A p \in parents[y] \cap st.dag : round(p) >= round(v) => p \in Vertices
    BY <1>1, <1>2, CertificateType
  <2>. QED  BY <1>1, <1>3, <2>1, LinkedWithin
<1>4. ASSUME linked(Vertices, x, v) PROVE linked(st.dag, x, v) /\ v \in st.dag
  <2>. DEFINE K == st.dag \cap Vertices
  <2>1. ASSUME NEW y \in K, NEW p \in parents[y] \cap Vertices, round(p) >= round(v)
        PROVE  p \in K /\ p \in st.dag
    <3>1. p \notin genesis /\ round(p) > st.last_committed_round
      <4>1. p \in Certificates
        BY DEF Certificates
      <4>2. round(p) \in Nat /\ round(p) > 0 /\ p \notin genesis
        BY <4>1, CertificateType
      <4>. QED  BY <1>1, <2>1, <4>2
    <3>2. p \in H
      BY <1>2, <2>1, <3>1 DEF IsHistory
    <3>. QED  BY <3>1, <3>2, LaterIsHeld
  <2>2. x \in K
    OBVIOUS
  <2>3. \A y \in K : \A p \in parents[y] \cap Vertices :
            round(p) >= round(v) => p \in K /\ p \in st.dag
    BY <2>1
  <2>4. PICK D, E, L : D = Vertices /\ E = st.dag /\ L = K
    OBVIOUS
  <2>. HIDE DEF K
  <2>5. linked(D, x, v) /\ x \in L /\ \A y \in L : \A p \in parents[y] \cap D :
            round(p) >= round(v) => p \in L /\ p \in E
    BY <1>4, <2>2, <2>3, <2>4
  <2>6. linked(E, x, v) /\ v \in E
    BY <1>1, <2>5, LinkedWithin
  <2>. QED  BY <2>4, <2>6
<1>. QED  BY <1>3, <1>4

-----------------------------------------------------------------------------
\* The leaders that an engine has decided on up to round t, the last of them
\* with support.
Decided(L, t) ==
    /\ L \in SUBSET Vertices
    /\ \A v \in L : v = leader_of(round(v)) /\ round(v) <= t
    /\ Decides(Vertices, 1, L)
    /\ t # 0 => leader_of(t) \in L /\ HasSupport(leader_of(t), Vertices)

\* The next leader is there.
LEMMA NextExists ==
    ASSUME parents \in Dags, NEW L \in SUBSET Vertices, NEW v, round(v) \in Nat,
           NEW w \in L, round(w) > round(v)
    PROVE  \E x \in L : NextAbove(L, x, v) /\ round(x) <= round(w)
<1>. DEFINE T == {n \in Nat : \E x \in L : round(x) = n /\ round(x) > round(v)}
<1>1. \A x \in L : round(x) \in Nat
  BY VertexType
<1>2. round(w) \in T
  BY <1>1
<1>3. PICK n \in T : \A k \in T : n <= k
  BY <1>2, LeastNumber
<1>4. PICK x \in L : round(x) = n /\ round(x) > round(v)
  BY <1>3
<1>5. \A y \in L : round(y) <= round(v) \/ round(y) >= round(x)
  <2>1. \A y \in L : round(y) > round(v) => round(y) \in T
    BY <1>1
  <2>. HIDE DEF T
  <2>. QED  BY <1>1, <1>3, <1>4, <2>1
<1>6. round(x) <= round(w)
  BY <1>2, <1>3, <1>4
<1>. QED  BY <1>4, <1>5, <1>6 DEF NextAbove

-----------------------------------------------------------------------------
\* In the whole DAG, too, a supported leader is linked from every later one.
LEMMA SupportIsLinked ==
    ASSUME parents \in Dags, NEW v \in Vertices, HasSupport(v, Vertices),
           NEW x \in Vertices, x = leader_of(round(x)), round(x) > round(v)
    PROVE  linked(Vertices, x, v)
<1>. DEFINE C == Children(v, Vertices)
<1>1. C \in SUBSET Vertices /\ \A y \in C : v \in parents[y]
  BY DEF Children
<1>2. IsValid({origin(y) : y \in C}) /\ v = leader_of(round(v))
  BY DEF HasSupport
<1>3. PICK H \in SUBSET Certificates : H = Vertices
  BY DEF Certificates
<1>4. \A c \in H \cap Vertices : parents[c] \ genesis \subseteq H
  BY <1>3, DagRules DEF Rules, Certificates
<1>. HIDE DEF C
<1>5. linked(H, x, v)
  BY <1>1, <1>2, <1>3, <1>4, SupportedIsLinked
<1>. QED  BY <1>3, <1>5

\* Of two engines, the one that went further decided as the other one did.
LEMMA LeadersAgree ==
    ASSUME parents \in Dags, NEW t \in Nat, NEW u \in Nat, t <= u,
           NEW L, Decided(L, t), NEW M, Decided(M, u)
    PROVE  \A r \in 1..t : leader_of(r) \in L <=> leader_of(r) \in M
<1>1. /\ L \in SUBSET Vertices /\ M \in SUBSET Vertices
      /\ \A v \in L : v = leader_of(round(v)) /\ round(v) \in Nat /\ round(v) <= t /\ round(v) >= 1
      /\ \A v \in M : v = leader_of(round(v)) /\ round(v) \in Nat /\ round(v) <= u /\ round(v) >= 1
      /\ Decides(Vertices, 1, L) /\ Decides(Vertices, 1, M)
  <2>1. \A v \in Vertices : round(v) \in Nat /\ round(v) >= 1
    <3>1. \A v \in Vertices : v \in Certificates
      BY DEF Certificates
    <3>. QED  BY <3>1, CertificateType
  <2>. QED  BY <2>1 DEF Decided
<1>2. \A r : round(leader_of(r)) = r
  BY DEF round, leader_of
<1>. DEFINE a == leader_of(t)
<1>3. t # 0 => a \in L /\ a \in M
  <2>1. SUFFICES ASSUME t # 0 PROVE a \in L /\ a \in M
    OBVIOUS
  <2>2. a \in L /\ a \in Vertices /\ HasSupport(a, Vertices) /\ round(a) = t
    BY <1>1, <1>2, <2>1 DEF Decided
  <2>3. CASE t = u
    BY <2>1, <2>2, <2>3 DEF Decided
  <2>4. CASE t < u
    <3>1. leader_of(u) \in M
      BY <2>4 DEF Decided
    <3>. HIDE DEF a
    <3>2. PICK x \in M : NextAbove(M, x, a)
      BY <1>1, <1>2, <2>2, <2>4, <3>1, NextExists
    <3>3. x = leader_of(round(x)) /\ round(x) > round(a) /\ x \in Vertices
      BY <1>1, <3>2 DEF NextAbove
    <3>4. linked(Vertices, x, a)
      BY <2>2, <3>3, SupportIsLinked
    <3>5. a = leader_of(round(a))
      BY <2>2 DEF HasSupport
    <3>6. a \in M
      BY <1>1, <2>1, <2>2, <3>2, <3>4, <3>5 DEF Decides
    <3>. QED  BY <2>2, <3>6
  <2>. QED  BY <2>3, <2>4
<1>. DEFINE T == {n \in Nat : \E r \in 1..t : n = t - r /\ ~(leader_of(r) \in L <=> leader_of(r) \in M)}
<1>4. SUFFICES ASSUME T # {} PROVE FALSE
  <2>1. \A r \in 1..t : t - r \in Nat
    OBVIOUS
  <2>. QED  BY <1>4, <2>1
<1>5. PICK n \in T : \A k \in T : n <= k
  BY <1>4, LeastNumber
<1>6. PICK r \in 1..t : n = t - r /\ ~(leader_of(r) \in L <=> leader_of(r) \in M)
  BY <1>5
<1>7. \A q \in 1..t : q > r => (leader_of(q) \in L <=> leader_of(q) \in M)
  <2>1. SUFFICES ASSUME NEW q \in 1..t, q > r, ~(leader_of(q) \in L <=> leader_of(q) \in M)
                 PROVE  FALSE
    OBVIOUS
  <2>2. t - q \in T /\ t - q < n
    BY <1>6, <2>1
  <2>. HIDE DEF T
  <2>. QED  BY <1>5, <1>6, <2>2
<1>. HIDE DEF T
<1>. DEFINE v == leader_of(r)
<1>8. r < t /\ t # 0 /\ a \in L /\ a \in M
  BY <1>3, <1>6
<1>9. v \in Vertices /\ round(v) = r /\ r >= 1 /\ r \in Nat
  BY <1>1, <1>2, <1>6
<1>10. PICK x \in L : NextAbove(L, x, v) /\ round(x) <= t
  <2>1. round(a) = t
    BY <1>2
  <2>. HIDE DEF a, v
  <2>2. \E x \in L : NextAbove(L, x, v) /\ round(x) <= round(a)
    BY <1>1, <1>8, <1>9, <2>1, NextExists
  <2>. QED  BY <2>1, <2>2
<1>11. x = leader_of(round(x)) /\ round(x) \in 1..t /\ round(x) > r
  BY <1>1, <1>9, <1>10 DEF NextAbove
<1>12. x \in M
  BY <1>7, <1>10, <1>11
<1>13. NextAbove(M, x, v)
  <2>1. SUFFICES ASSUME NEW y \in M, round(y) > r, round(y) < round(x)
                 PROVE  FALSE
    BY <1>1, <1>9, <1>11, <1>12 DEF NextAbove
  <2>2. y = leader_of(round(y)) /\ round(y) \in 1..t
    BY <1>1, <1>11, <2>1
  <2>3. y \in L
    BY <1>7, <2>1, <2>2
  <2>. QED  BY <1>1, <1>9, <1>10, <2>1, <2>3 DEF NextAbove
<1>14. v = leader_of(round(v)) /\ round(v) >= 1
  BY <1>9
<1>. HIDE DEF v
<1>15. v \in L <=> v \in Vertices /\ linked(Vertices, x, v)
  BY <1>1, <1>9, <1>10, <1>14 DEF Decides
<1>16. v \in M <=> v \in Vertices /\ linked(Vertices, x, v)
  BY <1>1, <1>9, <1>13, <1>14 DEF Decides
<1>. QED  BY <1>6, <1>15, <1>16 DEF v

\* So its ledger begins with the other one's.
LEMMA LedgersAgree ==
    ASSUME NEW t \in Nat, NEW u \in Nat, t <= u,
           NEW L, NEW f, IsLedger(L, f, t), NEW M, NEW g, IsLedger(M, g, u),
           \A r \in 1..t : leader_of(r) \in L <=> leader_of(r) \in M
    PROVE  Extends(f[t].sequence, g[u].sequence)
<1>. DEFINE P == {r \in 0..t : f[r] = g[r]}
<1>1. 0 \in P
  BY DEF IsLedger
<1>2. ASSUME NEW r \in 0..(t - 1), r \in P
      PROVE  r + 1 \in P
  <2>1. r + 1 \in 0..t /\ r + 1 \in 1..t /\ r + 1 \in 1..u /\ (r + 1) - 1 = r
    OBVIOUS
  <2>2. f[r + 1] = IF leader_of(r + 1) \in L THEN LedgerStep(f[r], leader_of(r + 1)) ELSE f[r]
    BY <2>1 DEF IsLedger
  <2>3. g[r + 1] = IF leader_of(r + 1) \in M THEN LedgerStep(g[r], leader_of(r + 1)) ELSE g[r]
    BY <2>1 DEF IsLedger
  <2>4. f[r] = g[r] /\ (leader_of(r + 1) \in L <=> leader_of(r + 1) \in M)
    BY <1>2, <2>1
  <2>. QED  BY <2>1, <2>2, <2>3, <2>4
<1>. HIDE DEF P
<1>3. \A r \in 0..t : r \in P
  BY <1>1, <1>2, Induction
<1>4. f[t] = g[t]
  <2>1. t \in 0..t
    OBVIOUS
  <2>2. t \in P
    BY <1>3, <2>1
  <2>. QED  BY <2>2 DEF P
<1>. DEFINE s == g[t].sequence
            Q == {k \in 0..(u - t) : Extends(s, g[t + k].sequence)}
<1>5. /\ \A r \in 0..u : g[r].sequence \in Seq(Vertices)
      /\ \A r \in 1..u : Extends(g[r - 1].sequence, g[r].sequence)
  BY DEF IsLedger
<1>6. s \in Seq(Vertices)
  BY <1>5
<1>. HIDE DEF s
<1>7. 0 \in Q
  <2>1. <<>> \in Seq(Vertices) /\ s \o <<>> = s
    BY <1>6, ConcatEmptySeq
  <2>2. t + 0 = t /\ u - t \in Nat
    OBVIOUS
  <2>3. Extends(s, s)
    BY <2>1 DEF Extends
  <2>. QED  BY <2>2, <2>3 DEF s
<1>8. ASSUME NEW k \in 0..((u - t) - 1), k \in Q
      PROVE  k + 1 \in Q
  <2>1. k + 1 \in 0..(u - t) /\ t + (k + 1) \in 1..u /\ (t + (k + 1)) - 1 = t + k
    OBVIOUS
  <2>2. PICK a \in Seq(Vertices) : g[t + k].sequence = s \o a
    BY <1>8 DEF Extends
  <2>3. PICK b \in Seq(Vertices) : g[t + (k + 1)].sequence = g[t + k].sequence \o b
    BY <1>5, <2>1 DEF Extends
  <2>4. (s \o a) \o b = s \o (a \o b) /\ a \o b \in Seq(Vertices)
    BY <1>6, ConcatAssociative
  <2>5. Extends(s, g[t + (k + 1)].sequence)
    BY <2>2, <2>3, <2>4 DEF Extends
  <2>. QED  BY <2>1, <2>5
<1>. HIDE DEF Q
<1>9. \A k \in 0..(u - t) : k \in Q
  <2>1. u - t \in Nat
    OBVIOUS
  <2>. QED  BY <1>7, <1>8, <2>1, Induction
<1>10. u - t \in 0..(u - t) /\ t + (u - t) = u
  OBVIOUS
<1>11. Extends(s, g[u].sequence)
  <2>1. u - t \in Q
    BY <1>9, <1>10
  <2>. QED  BY <1>10, <2>1 DEF Q
<1>. QED  BY <1>4, <1>11 DEF s

\* The leaders of a chain.
LEMMA ChainLeaders ==
    ASSUME parents \in Dags, NEW st, WellState(st), NEW last \in Vertices,
           last \in st.dag, last = leader_of(round(last)),
           round(last) > st.last_committed_round,
           NEW C, C = ToSet(order_leaders(st, last))
    PROVE  /\ C \in SUBSET Vertices /\ last \in C
           /\ \A v \in C : /\ v \in st.dag /\ v = leader_of(round(v)) /\ round(v) \in Nat
                           /\ round(v) > st.last_committed_round /\ round(v) <= round(last)
           /\ Decides(st.dag, st.last_committed_round + 1, C)
<1>. DEFINE leaders == order_leaders(st, last)
<1>1. IsChain(st, last, st.last_committed_round + 1, leaders)
  BY OrderLeaders
<1>. HIDE DEF leaders
<1>2. PICK n \in Nat : n = Len(leaders) /\ n > 0
  BY <1>1 DEF IsChain
<1>3. /\ leaders \in Seq(Vertices) /\ leaders[n] = last /\ DOMAIN leaders = 1..n
      /\ \A i \in 1..n : /\ leaders[i] \in st.dag /\ leaders[i] = leader_of(round(leaders[i]))
                         /\ round(leaders[i]) >= st.last_committed_round + 1
      /\ \A i, j \in 1..n : i < j => round(leaders[i]) < round(leaders[j])
      /\ Decides(st.dag, st.last_committed_round + 1, ToSet(leaders))
  BY <1>1, <1>2 DEF IsChain
<1>4. C = {leaders[i] : i \in 1..n}
  BY <1>3 DEF ToSet, leaders
<1>5. C \in SUBSET Vertices /\ last \in C
  BY <1>2, <1>3, <1>4
<1>6. st.last_committed_round \in Nat /\ \A v \in Vertices : round(v) \in Nat
  BY VertexType DEF WellState, StateType
<1>7. ASSUME NEW v \in C
      PROVE  /\ v \in st.dag /\ v = leader_of(round(v)) /\ round(v) \in Nat
             /\ round(v) > st.last_committed_round /\ round(v) <= round(last)
  <2>1. PICK i \in 1..n : v = leaders[i]
    BY <1>4
  <2>2. i = n \/ i < n
    OBVIOUS
  <2>3. round(v) <= round(last)
    BY <1>2, <1>3, <1>5, <1>6, <2>1, <2>2
  <2>. QED  BY <1>3, <1>5, <1>6, <2>1, <2>3
<1>. QED  BY <1>3, <1>5, <1>7 DEF leaders

\* A commit decides on the leaders up to the one that it commits.
LEMMA CommitDecides ==
    ASSUME parents \in Dags, gc_depth \in Nat, NEW st, WellState(st),
           NEW H, IsHistory(H, st), NEW last \in Vertices, last \in st.dag,
           round(last) > st.last_committed_round, HasSupport(last, Vertices),
           NEW L, Decided(L, st.last_committed_round)
    PROVE  Decided(L \cup ToSet(order_leaders(st, last)), round(last))
<1>. DEFINE C == ToSet(order_leaders(st, last))
            M == L \cup C
<1>1. PICK t \in Nat : t = st.last_committed_round
  BY DEF WellState, StateType
<1>2. last = leader_of(round(last))
  BY DEF HasSupport
<1>3. /\ C \in SUBSET Vertices /\ last \in C
      /\ \A v \in C : /\ v \in st.dag /\ v = leader_of(round(v)) /\ round(v) \in Nat
                      /\ round(v) > t /\ round(v) <= round(last)
      /\ Decides(st.dag, t + 1, C)
  BY <1>1, <1>2, ChainLeaders
<1>. HIDE DEF C
<1>4. /\ L \in SUBSET Vertices
      /\ \A v \in L : v = leader_of(round(v)) /\ round(v) \in Nat /\ round(v) <= t
      /\ Decides(Vertices, 1, L)
      /\ t # 0 => leader_of(t) \in L /\ HasSupport(leader_of(t), Vertices)
  BY <1>1, VertexType DEF Decided
<1>5. M \in SUBSET Vertices /\ \A v \in M : v = leader_of(round(v)) /\ round(v) <= round(last)
  BY <1>1, <1>3, <1>4
<1>6. \A x : x \in M <=> x \in L \/ x \in C
  OBVIOUS
<1>. HIDE DEF M
<1>7. ASSUME NEW v \in Vertices, v = leader_of(round(v)), round(v) >= 1,
             NEW x, NextAbove(M, x, v)
      PROVE  v \in M <=> v \in Vertices /\ linked(Vertices, x, v)
  <2>1. /\ x \in M /\ x \in Vertices /\ x = leader_of(round(x)) /\ round(x) > round(v)
        /\ \A y \in M : round(y) <= round(v) \/ round(y) >= round(x)
        /\ round(v) \in Nat /\ round(x) \in Nat
    BY <1>5, <1>7, VertexType DEF NextAbove
  <2>2. CASE round(v) > t
    <3>1. x \in C /\ x \in st.dag
      BY <1>3, <1>4, <1>6, <2>1, <2>2
    <3>2. NextAbove(C, x, v)
      BY <1>6, <2>1, <3>1 DEF NextAbove
    <3>3. v \in C <=> v \in st.dag /\ linked(st.dag, x, v)
      BY <1>3, <1>7, <2>1, <2>2, <3>2 DEF Decides
    <3>4. v \in M <=> v \in C
      BY <1>4, <1>6, <2>1, <2>2
    <3>5. v \in st.dag /\ linked(st.dag, x, v) <=> linked(Vertices, x, v)
      BY <1>1, <2>1, <2>2, <3>1, LinkedSame
    <3>. QED  BY <3>3, <3>4, <3>5
  <2>3. CASE round(v) = t
    <3>1. v \in L /\ HasSupport(v, Vertices)
      BY <1>4, <1>7, <2>3
    <3>2. linked(Vertices, x, v)
      BY <2>1, <3>1, SupportIsLinked
    <3>. QED  BY <1>6, <3>1, <3>2
  <2>4. CASE round(v) < t
    <3>1. leader_of(t) \in M /\ round(leader_of(t)) = t
      BY <1>4, <1>6, <2>1, <2>4 DEF round, leader_of
    <3>2. round(x) <= t
      BY <2>1, <2>4, <3>1
    <3>3. x \in L
      BY <1>3, <1>6, <2>1, <3>2
    <3>4. NextAbove(L, x, v)
      BY <1>6, <2>1, <3>3 DEF NextAbove
    <3>5. v \in L <=> v \in Vertices /\ linked(Vertices, x, v)
      BY <1>4, <1>7, <3>4 DEF Decides
    <3>6. v \notin C
      BY <1>3, <2>1, <2>4
    <3>. QED  BY <1>6, <3>5, <3>6
  <2>. QED  BY <2>1, <2>2, <2>3, <2>4
<1>8. Decides(Vertices, 1, M)
  BY <1>7 DEF Decides
<1>9. leader_of(round(last)) \in M /\ HasSupport(leader_of(round(last)), Vertices)
  BY <1>2, <1>3, <1>6
<1>. QED  BY <1>5, <1>8, <1>9 DEF Decided, M, C

(***************************************************************************)
(* What an engine has committed and output follows from the leaders it has *)
(* decided on.                                                             *)
(***************************************************************************)
Follows(st, out) ==
    \E L : Decided(L, st.last_committed_round) /\ \E f : Tracks(L, f, st, out)

\* A commit of a supported leader keeps it so.
LEMMA CommitStillFollows ==
    ASSUME parents \in Dags, gc_depth \in Nat, NEW st, WellState(st), NoStraggler(st),
           NEW H, IsHistory(H, st), NEW last \in Vertices, last \in st.dag,
           round(last) > st.last_committed_round, HasSupport(last, Vertices),
           NEW out \in Seq(Vertices), Follows(st, out)
    PROVE  Follows(commit(st, last).st, out \o commit(st, last).sequence)
<1>1. PICK t \in Nat : t = st.last_committed_round
  BY DEF WellState, StateType
<1>2. PICK L : Decided(L, t) /\ \E f : Tracks(L, f, st, out)
  BY <1>1 DEF Follows
<1>3. PICK f : Tracks(L, f, st, out)
  BY <1>2
<1>4. last = leader_of(round(last))
  BY DEF HasSupport
<1>. DEFINE C == ToSet(order_leaders(st, last))
            M == L \cup C
<1>5. \A v \in C : round(v) \in Nat /\ round(v) > t
  BY <1>1, <1>4, ChainLeaders
<1>6. \A v \in L : round(v) \in Nat /\ round(v) <= t
  BY <1>2, VertexType DEF Decided
<1>7. Decided(M, round(last))
  BY <1>1, <1>2, CommitDecides
<1>8. IsLedger(M, f, t)
  <2>1. \A r \in 1..t : leader_of(r) \in M <=> leader_of(r) \in L
    <3>1. \A r : round(leader_of(r)) = r
      BY DEF round, leader_of
    <3>. QED  BY <1>5, <3>1
  <2>2. IsLedger(L, f, t)
    BY <1>1, <1>3 DEF Tracks
  <2>. HIDE DEF M
  <2>. QED  BY <2>1, <2>2 DEF IsLedger
<1>9. Tracks(M, f, st, out)
  BY <1>1, <1>3, <1>8 DEF Tracks
<1>10. C \subseteq M /\ \A v \in M : round(v) > t => v \in C
  BY <1>6
<1>. HIDE DEF M
<1>11. \E g : Tracks(M, g, commit(st, last).st, out \o commit(st, last).sequence)
  BY <1>1, <1>4, <1>9, <1>10, CommitFollows
<1>12. commit(st, last).st.last_committed_round = round(last)
  BY <1>4, CommitLeader DEF Commits_leader
<1>. QED  BY <1>7, <1>11, <1>12 DEF Follows

-----------------------------------------------------------------------------
(***************************************************************************)
(* The DAG is fixed in a behaviour, and so is what is computed from it.    *)
(***************************************************************************)
LEMMA OrderDagNext ==
    ASSUME scenario' = scenario, NEW st, NEW l
    PROVE order_dag(st, l)' = order_dag(st, l)
BY DEF order_dag, parents, Fresh, Row, Among, sort_by_round, gc_depth, Vertices, genesis

\* The state after a batch.
LEMMA UpdatesNext ==
    ASSUME scenario' = scenario, NEW st, NEW batch
    PROVE updates(st, batch)' = updates(st, batch)
BY DEF updates, update, Prune, gc_depth

\* Paths.
LEMMA LinkedNext ==
    ASSUME scenario' = scenario, NEW dag, NEW from, NEW to
    PROVE linked(dag, from, to)' <=> linked(dag, from, to)
BY DEF linked, parents

\* The whole state.
LEMMA WholeNext ==
    ASSUME scenario' = scenario, NEW st, NEW l
    PROVE Whole(st, l)' = Whole(st, l)
BY DEF Whole, Past, gc_depth, Certificates, Vertices, parents

\* A step of a ledger.
LEMMA LedgerStepNext ==
    ASSUME scenario' = scenario, NEW acc, NEW l
    PROVE LedgerStep(acc, l)' = LedgerStep(acc, l)
<1>1. Whole(acc.st, l)' = Whole(acc.st, l)
  BY WholeNext
<1>2. order_dag(Whole(acc.st, l), l)' = order_dag(Whole(acc.st, l), l)
  BY <1>1, OrderDagNext
<1>. QED  BY <1>2, UpdatesNext DEF LedgerStep

\* What is decided.
LEMMA DecidedNext ==
    ASSUME scenario' = scenario, NEW L, NEW t
    PROVE Decided(L, t)' <=> Decided(L, t)
BY LinkedNext DEF Decided, Decides, HasSupport, Children, Vertices, parents

\* A ledger.
LEMMA IsLedgerNext ==
    ASSUME scenario' = scenario, NEW L, NEW f, NEW t
    PROVE IsLedger(L, f, t)' <=> IsLedger(L, f, t)
BY LedgerStepNext DEF IsLedger, WellState, StateType, Certificates, Vertices, parents, Extends

\* What an engine's output follows from.
LEMMA FollowsNext ==
    ASSUME scenario' = scenario, NEW st, NEW out
    PROVE Follows(st, out)' <=> Follows(st, out)
BY DecidedNext, IsLedgerNext DEF Follows, Tracks

-----------------------------------------------------------------------------
\* What an engine that never restarts is like, while nothing leads it astray.
Faithful(st, out) == NoStraggler(st) /\ Follows(st, out)

\* An engine starts as a faithful one.
LEMMA InitialFaithful ==
    ASSUME parents \in Dags
    PROVE  Faithful(InitialState, <<>>)
<1>. DEFINE f == [r \in {0} |-> [st |-> InitialState, sequence |-> <<>>]]
<1>1. /\ InitialState.last_committed_round = 0 /\ InitialState.dag = genesis
      /\ \A a \in Authority : InitialState.last_committed[a] = 0
  BY DEF InitialState
<1>2. NoStraggler(InitialState)
  BY <1>1, CertificateType DEF NoStraggler, Certificates
<1>3. Decided({}, 0)
  BY DEF Decided, Decides, NextAbove
<1>4. f[0] = [st |-> InitialState, sequence |-> <<>>]
  OBVIOUS
<1>. HIDE DEF f
<1>5. IsLedger({}, f, 0)
  <2>1. f[0].st = InitialState /\ f[0].sequence = <<>>
    BY <1>4
  <2>2. WellState(f[0].st) /\ f[0].sequence \in Seq(Vertices)
    BY <2>1, InitialWellState
  <2>3. 0..0 = {0} /\ 1..0 = {}
    OBVIOUS
  <2>. QED  BY <1>4, <2>1, <2>2, <2>3 DEF IsLedger
<1>6. SameCommits(InitialState, f[0].st) /\ f[0].sequence = <<>>
  BY <1>4 DEF SameCommits
<1>7. Tracks({}, f, InitialState, <<>>)
  BY <1>1, <1>5, <1>6 DEF Tracks
<1>8. Follows(InitialState, <<>>)
  BY <1>1, <1>3, <1>7 DEF Follows
<1>. QED  BY <1>2, <1>8 DEF Faithful

\* A commit of a supported leader keeps an engine faithful.
LEMMA CommitFaithful ==
    ASSUME parents \in Dags, gc_depth \in Nat, NEW st, WellState(st),
           NEW H, IsHistory(H, st), NEW out \in Seq(Vertices), Faithful(st, out),
           NEW last \in Leaders(st), HasSupport(last, Vertices),
           NEW d, Commits_leader(st, last, d)
    PROVE  Faithful(d.st, out \o d.sequence)
<1>. DEFINE B == ToSet(d.sequence)
<1>1. d = commit(st, last) /\ Advances(st, d.st, B)
  BY DEF Commits_leader
<1>2. B \in SUBSET Vertices
  <2>1. PICK s \in Seq(Vertices) : s = d.sequence
    BY DEF Commits_leader
  <2>. QED  BY <2>1 DEF ToSet
<1>. HIDE DEF B
<1>3. NoStraggler(d.st)
  BY <1>1, <1>2, AdvanceNoStraggler DEF Faithful
<1>4. Follows(d.st, out \o d.sequence)
  BY <1>1, CommitStillFollows DEF Leaders, Faithful
<1>. QED  BY <1>3, <1>4 DEF Faithful

\* So does a certificate that comes before a later one of its author is committed,
\* for the first time or again.
LEMMA ReceiveFaithful ==
    ASSUME parents \in Dags, NEW st, WellState(st), NEW out, Faithful(st, out),
           NEW c \in Vertices, st.last_committed[origin(c)] <= round(c)
    PROVE  Faithful(Receive(st, c), out)
<1>. DEFINE u == Receive(st, c)
<1>1. /\ u.dag = st.dag \cup {c}
      /\ u.last_committed = st.last_committed
      /\ u.last_committed_round = st.last_committed_round
  BY ReceiveWellState
<1>2. NoStraggler(u)
  BY <1>1 DEF NoStraggler, Faithful
<1>3. Follows(u, out)
  BY <1>1 DEF Follows, Tracks, SameCommits, Faithful
<1>. QED  BY <1>2, <1>3 DEF Faithful

-----------------------------------------------------------------------------
\* What a handler does to a node: it commits nothing but supported leaders.
CommitsSupported(n, st) ==
    \/ state'[n] = st /\ output'[n] = output[n]
    \/ \E last \in Leaders(st) : HasSupport(last, Vertices) /\
           \E d : /\ Commits_leader(st, last, d)
                  /\ state'[n] = d.st
                  /\ output'[n] = output[n] \o d.sequence

\* A set of authorities with f+1 stake that all link the leader is its support.
LEMMA SupportFrom ==
    ASSUME parents \in Dags, NEW v \in Vertices, v = leader_of(round(v)),
           NEW S, IsValid(S), \A a \in S : \E y \in Vertices : v \in parents[y] /\ a = origin(y)
    PROVE  HasSupport(v, Vertices)
<1>. DEFINE T == {origin(y) : y \in Children(v, Vertices)}
<1>1. S \subseteq T /\ T \subseteq Authority
  BY VertexType DEF Children
<1>. HIDE DEF T
<1>2. T \in SUBSET Authority /\ S \in SUBSET T /\ S \in SUBSET Authority
  BY <1>1
<1>3. StakeOf(S) <= StakeOf(T) /\ StakeOf(S) \in Nat /\ StakeOf(T) \in Nat
  BY <1>2, StakeMonotone, StakeType
<1>4. IsValid(T)
  BY <1>3, ThresholdTypes DEF IsValid
<1>. QED  BY <1>4 DEF T, HasSupport

\* The commit of a supported leader is such a step.
LEMMA CommitSupported ==
    ASSUME OrderingInv, NEW n \in Node, NEW st, WellState(st),
           NEW last \in Leaders(st), HasSupport(last, Vertices),
           Panicked(n, st, last) \/ Committed(n, st, last)
    PROVE  CommitsSupported(n, st)
<1>1. state \in [Node -> StateType] /\ output \in [Node -> Seq(Vertices)]
  BY DEF OrderingInv
<1>2. CASE Panicked(n, st, last)
  BY <1>1, <1>2 DEF Panicked, CommitsSupported
<1>3. CASE Committed(n, st, last)
  <2>1. PICK d : /\ Commits_leader(st, last, d)
                 /\ state' = [state EXCEPT ![n] = d.st]
                 /\ output' = [output EXCEPT ![n] = @ \o d.sequence]
    BY <1>3 DEF Committed
  <2>2. state'[n] = d.st /\ output'[n] = output[n] \o d.sequence
    BY <1>1, <2>1
  <2>. QED  BY <2>1, <2>2 DEF CommitsSupported
<1>. QED  BY <1>2, <1>3

\* An engine that is not astray after a step was not before it: what it counted
\* only grows, and so does what came late.
LEMMA SoundBefore ==
    ASSUME CountedInv, CountedInv', scenario' = scenario, NEW n \in Node, Sound(n)',
           strays[n] \subseteq strays'[n],
           \A r \in HeaderRoundsOf : stake_vote[n][r] <= stake_vote'[n][r]
    PROVE  Sound(n)
<1>1. /\ HeaderRoundsOf' = HeaderRoundsOf /\ \A r : Linking(r)' = Linking(r)
  BY DEF HeaderRoundsOf, Linking, Vertices, parents
<1>2. /\ DOMAIN stake_vote[n] = HeaderRoundsOf /\ DOMAIN stake_vote'[n] = HeaderRoundsOf
      /\ \A r \in HeaderRoundsOf : stake_vote[n][r] \in Nat /\ stake_vote'[n][r] \in Nat
  BY <1>1 DEF CountedInv
<1>3. ASSUME NEW r \in HeaderRoundsOf, stake_vote[n][r] >= quorum_threshold
      PROVE  IsValid({origin(h) : h \in Linking(r)})
  <2>1. stake_vote'[n][r] >= quorum_threshold
    BY <1>2, <1>3, ThresholdTypes
  <2>. QED  BY <1>1, <1>2, <2>1 DEF Sound
<1>4. strays[n] = {}
  BY DEF Sound
<1>. QED  BY <1>2, <1>3, <1>4 DEF Sound

\* What a header leaves of the counts, and what it adds to them.
LEMMA HeaderCounts ==
    ASSUME CountedInv, NEW n \in Node, NEW h \in Vertices, ProcessHeader(n, h)
    PROVE  /\ \A m \in Node : \A r \in HeaderRoundsOf : stake_vote[m][r] <= stake_vote'[m][r]
           /\ \/ state' = state /\ output' = output
              \/ /\ ~Settled(state[n], round(h) - 1)
                 /\ Commit(n, state[n], leader_of(round(h) - 1))
                 /\ stake_vote'[n][round(h)] >= quorum_threshold
<1>1. /\ stake_vote \in [Node -> [HeaderRoundsOf -> Nat]] /\ round(h) \in HeaderRoundsOf
      /\ parents \in Dags
  BY DEF CountedInv, HeaderRoundsOf
<1>2. header_stake(n, h) \in Nat /\ stake_vote[n][round(h)] <= header_stake(n, h)
  <2>1. StakeOf({origin(h)}) \in Nat /\ stake_vote[n][round(h)] \in Nat
    BY <1>1, VertexType, StakeType
  <2>. QED  BY <2>1 DEF header_stake
<1>3. \/ stake_vote' = stake_vote
      \/ stake_vote' = [stake_vote EXCEPT ![n][round(h)] = header_stake(n, h)]
  BY DEF ProcessHeader
<1>4. \A m \in Node : \A r \in HeaderRoundsOf : stake_vote[m][r] <= stake_vote'[m][r]
  <2>1. \A m \in Node : \A r \in HeaderRoundsOf :
          \/ stake_vote'[m][r] = stake_vote[m][r]
          \/ m = n /\ r = round(h) /\ stake_vote'[m][r] = header_stake(n, h)
    BY <1>1, <1>3
  <2>2. \A m \in Node : \A r \in HeaderRoundsOf : stake_vote[m][r] \in Nat
    BY <1>1
  <2>. QED  BY <1>2, <2>1, <2>2
<1>5. \/ state' = state /\ output' = output
      \/ /\ ~Settled(state[n], round(h) - 1)
         /\ Commit(n, state[n], leader_of(round(h) - 1))
         /\ stake_vote' = [stake_vote EXCEPT ![n][round(h)] = header_stake(n, h)]
         /\ header_stake(n, h) >= quorum_threshold
  BY DEF ProcessHeader
<1>6. stake_vote' = [stake_vote EXCEPT ![n][round(h)] = header_stake(n, h)]
        => stake_vote'[n][round(h)] = header_stake(n, h)
  BY <1>1
<1>. QED  BY <1>4, <1>5, <1>6

\* A leader that is committed on headers is linked by f+1 stake of the DAG, if the
\* engine is not astray after it.
LEMMA HeaderSupported ==
    ASSUME OrderingInv, CountedInv, CountedInv', NEW n \in Node, Sound(n)',
           NEW h \in Vertices, ProcessHeader(n, h)
    PROVE  CommitsSupported(n, state[n])
<1>. DEFINE st == state[n]
            r == round(h) - 1
            l == leader_of(r)
            S == {origin(x) : x \in Linking(round(h))}
<1>1. /\ parents \in Dags /\ gc_depth \in Nat /\ WellState(st)
      /\ state \in [Node -> StateType] /\ output \in [Node -> Seq(Vertices)]
  BY ScenarioType DEF OrderingInv
<1>2. \/ state' = state /\ output' = output
      \/ /\ ~Settled(st, r) /\ Commit(n, st, l)
         /\ stake_vote'[n][round(h)] >= quorum_threshold
  BY HeaderCounts
<1>3. CASE state' = state /\ output' = output
  BY <1>3 DEF CommitsSupported
<1>4. CASE /\ ~Settled(st, r) /\ Commit(n, st, l)
           /\ stake_vote'[n][round(h)] >= quorum_threshold
  <2>1. l \in Leaders(st)
    BY <1>1, <1>4, UnsettledLeader
  <2>2. Panicked(n, st, l) \/ Committed(n, st, l)
    BY <1>1, <1>4, <2>1, CommitOutcome
  <2>3. IsValid(S)
    <3>1. /\ HeaderRoundsOf' = HeaderRoundsOf /\ \A q : Linking(q)' = Linking(q)
      BY DEF ProcessHeader, HeaderRoundsOf, Linking, Vertices, parents
    <3>2. round(h) \in DOMAIN stake_vote'[n]
      BY <3>1 DEF CountedInv, HeaderRoundsOf
    <3>. QED  BY <1>4, <3>1, <3>2 DEF Sound
  <2>4. \A a \in S : \E y \in Vertices : l \in parents[y] /\ a = origin(y)
    BY DEF Linking
  <2>5. l \in Vertices /\ l = leader_of(round(l))
    BY <2>1 DEF Leaders
  <2>. HIDE DEF S, l, st
  <2>6. CommitsSupported(n, st)
    <3>1. HasSupport(l, Vertices)
      BY <1>1, <2>3, <2>4, <2>5, SupportFrom
    <3>. QED  BY <1>1, <2>1, <2>2, <3>1, CommitSupported
  <2>. QED  BY <2>6 DEF st
<1>. QED  BY <1>2, <1>3, <1>4

\* A leader that is committed on certificates has f+1 stake of them.
LEMMA CertificateSupported ==
    ASSUME OrderingInv, NEW n \in Node, NEW c \in Vertices, ProcessCertificate(n, c)
    PROVE  CommitsSupported(n, Receive(state[n], c))
<1>. DEFINE st == Receive(state[n], c)
            l == leader_of(round(c) - 1)
<1>1. /\ parents \in Dags /\ WellState(st)
      /\ state \in [Node -> StateType] /\ output \in [Node -> Seq(Vertices)]
  BY ScenarioType, CertificateOrdering DEF OrderingInv
<1>2. \/ Kept(n, st)
      \/ /\ l \in Leaders(st) /\ IsValid(SupportOf(st, c))
         /\ (Panicked(n, st, l) \/ Committed(n, st, l))
  BY CertificateOutcome
<1>3. ASSUME IsValid(SupportOf(st, c)), l \in Leaders(st)
      PROVE  HasSupport(l, Vertices)
  <2>1. \A x \in st.dag : round(x) = round(c) => x \in Vertices
    BY <1>1, CertificateType DEF WellState, StateType, Certificates
  <2>2. \A a \in SupportOf(st, c) : \E y \in Vertices : l \in parents[y] /\ a = origin(y)
    BY <2>1 DEF SupportOf
  <2>. QED  BY <1>1, <1>3, <2>2, SupportFrom DEF Leaders
<1>. HIDE DEF st, l
<1>4. CASE Kept(n, st)
  <2>1. CommitsSupported(n, st)
    BY <1>1, <1>4 DEF Kept, CommitsSupported, WellState
  <2>. QED  BY <2>1 DEF st
<1>5. CASE /\ l \in Leaders(st) /\ IsValid(SupportOf(st, c))
           /\ (Panicked(n, st, l) \/ Committed(n, st, l))
  <2>1. CommitsSupported(n, st)
    BY <1>1, <1>3, <1>5, CommitSupported
  <2>. QED  BY <2>1 DEF st
<1>. QED  BY <1>2, <1>4, <1>5

-----------------------------------------------------------------------------
\* The engines that never restart are faithful until they are led astray.
FaithfulInv ==
    /\ SteadyInv /\ CountedInv
    /\ scenario.restarts = 0 => \A n \in Node : Sound(n) => Faithful(state[n], output[n])

\* The invariant in the next state.
LEMMA FaithfulNext ==
    ASSUME SteadyInv', CountedInv', scenario' = scenario,
           scenario.restarts = 0 => \A n \in Node : Sound(n)' => Faithful(state'[n], output'[n])
    PROVE  FaithfulInv'
BY FollowsNext DEF FaithfulInv, Faithful, NoStraggler, Vertices, parents

\* A step that commits supported leaders only keeps an engine faithful.
LEMMA SupportedFaithful ==
    ASSUME parents \in Dags, gc_depth \in Nat, NEW n \in Node, NEW st, WellState(st),
           NEW H, IsHistory(H, st), output[n] \in Seq(Vertices),
           Faithful(st, output[n]), CommitsSupported(n, st)
    PROVE  Faithful(state'[n], output'[n])
<1>1. CASE state'[n] = st /\ output'[n] = output[n]
  BY <1>1
<1>2. ASSUME NEW last \in Leaders(st), HasSupport(last, Vertices),
             NEW d, Commits_leader(st, last, d),
             state'[n] = d.st, output'[n] = output[n] \o d.sequence
      PROVE  Faithful(state'[n], output'[n])
  BY <1>2, CommitFaithful
<1>. QED  BY <1>1, <1>2 DEF CommitsSupported

\* A header keeps the engines faithful.
LEMMA HeaderFaithful ==
    ASSUME FaithfulInv, SteadyInv', CountedInv',
           NEW n \in Node, NEW h \in Vertices, ProcessHeader(n, h)
    PROVE  FaithfulInv'
<1>1. /\ OrderingInv /\ CountedInv /\ parents \in Dags /\ gc_depth \in Nat
      /\ WellState(state[n]) /\ output[n] \in Seq(Vertices)
  BY ScenarioType DEF FaithfulInv, SteadyInv, OrderingInv
<1>2. After(n, state[n])
  BY <1>1, HeaderOrdering
<1>3. scenario' = scenario /\ strays' = strays
  BY DEF ProcessHeader
<1>4. \A m \in Node : Sound(m)' => Sound(m)
  BY <1>1, <1>3, HeaderCounts, SoundBefore
<1>5. ASSUME scenario.restarts = 0, NEW m \in Node, Sound(m)'
      PROVE  Faithful(state'[m], output'[m])
  <2>1. Faithful(state[m], output[m]) /\ IsHistory(Handed(m), state[m])
    BY <1>4, <1>5 DEF FaithfulInv, SteadyInv, Regular
  <2>2. CASE m = n
    <3>1. CommitsSupported(n, state[n])
      BY <1>1, <1>5, <2>2, HeaderSupported
    <3>. QED  BY <1>1, <2>1, <2>2, <3>1, SupportedFaithful
  <2>3. CASE m # n
    BY <1>2, <2>1, <2>3 DEF After
  <2>. QED  BY <2>2, <2>3
<1>. QED  BY <1>3, <1>5, FaithfulNext

\* So does a certificate.
LEMMA CertificateFaithful ==
    ASSUME FaithfulInv, SteadyInv', CountedInv',
           NEW n \in Node, NEW c \in Vertices, ProcessCertificate(n, c)
    PROVE  FaithfulInv'
<1>. DEFINE st == Receive(state[n], c)
            H == Handed(n) \cup {c}
            lc == state[n].last_committed[origin(c)]
<1>1. /\ OrderingInv /\ HistoryInv /\ CountedInv /\ parents \in Dags /\ gc_depth \in Nat
      /\ WellState(state[n]) /\ output[n] \in Seq(Vertices)
      /\ strays \in [Node -> SUBSET Vertices]
      /\ stake_vote \in [Node -> [HeaderRoundsOf -> Nat]]
  BY ScenarioType DEF FaithfulInv, SteadyInv, OrderingInv, CountedInv
<1>2. WellState(st) /\ After(n, st) /\ CommitsSupported(n, st)
  BY <1>1, CertificateOrdering, CertificateSupported
<1>3. /\ scenario' = scenario
      /\ received' = [received EXCEPT ![n][c] = @ + 1]
      /\ parents[c] \ genesis \subseteq Handed(n)
      /\ strays' = IF round(c) < lc THEN [strays EXCEPT ![n] = @ \cup {c}] ELSE strays
      /\ stake_vote' = stake_vote
  BY <1>1, CertificateOutcome DEF ProcessCertificate
<1>4. \A m \in Node : strays[m] \subseteq strays'[m]
  <2>1. CASE strays' = strays
    BY <2>1
  <2>2. CASE strays' = [strays EXCEPT ![n] = @ \cup {c}]
    BY <1>1, <2>2
  <2>. QED  BY <1>3, <2>1, <2>2
<1>5. \A m \in Node : Sound(m)' => Sound(m)
  <2>1. \A m \in Node : \A r \in HeaderRoundsOf : stake_vote[m][r] <= stake_vote'[m][r]
    BY <1>1, <1>3
  <2>. QED  BY <1>1, <1>3, <1>4, <2>1, SoundBefore
<1>6. Sound(n)' => lc <= round(c)
  <2>1. SUFFICES ASSUME Sound(n)', round(c) < lc PROVE FALSE
    <3>1. round(c) \in Nat /\ lc \in Nat
      BY <1>1, VertexType DEF WellState, StateType
    <3>. QED  BY <3>1
  <2>2. c \in strays'[n]
    <3>. HIDE DEF lc
    <3>. QED  BY <1>1, <1>3, <2>1
  <2>. QED  BY <2>1, <2>2 DEF Sound
<1>7. ASSUME scenario.restarts = 0, NEW m \in Node, Sound(m)'
      PROVE  Faithful(state'[m], output'[m])
  <2>1. Faithful(state[m], output[m]) /\ IsHistory(Handed(m), state[m])
    BY <1>5, <1>7 DEF FaithfulInv, SteadyInv, Regular
  <2>2. CASE m = n
    <3>1. IsHistory(H, st)
      BY <1>1, <1>3, <2>1, <2>2, ReceiveHistory
    <3>2. Faithful(st, output[n])
      BY <1>1, <1>6, <1>7, <2>1, <2>2, ReceiveFaithful
    <3>. HIDE DEF st, H
    <3>3. Faithful(state'[n], output'[n])
      BY <1>1, <1>2, <3>1, <3>2, SupportedFaithful
    <3>. QED  BY <2>2, <3>3
  <2>3. CASE m # n
    <3>. HIDE DEF st
    <3>. QED  BY <1>2, <2>1, <2>3 DEF After
  <2>. QED  BY <2>2, <2>3
<1>. QED  BY <1>3, <1>7, FaithfulNext

\* The engines are faithful at every time.
LEMMA FaithfulInvariant == Spec => []FaithfulInv
<1>1. Init => FaithfulInv
  <2>. SUFFICES ASSUME Init PROVE FaithfulInv
    OBVIOUS
  <2>1. SteadyInv /\ CountedInv /\ parents \in Dags
    BY SteadyInit, InitCounted DEF CountedInv
  <2>2. \A n \in Node : state[n] = InitialState /\ output[n] = <<>>
    BY DEF Init
  <2>. QED  BY <2>1, <2>2, InitialFaithful DEF FaithfulInv
<1>2. FaithfulInv /\ SteadyInv' /\ CountedInv' /\ [Next]_vars => FaithfulInv'
  <2>. SUFFICES ASSUME FaithfulInv, SteadyInv', CountedInv', [Next]_vars PROVE FaithfulInv'
    OBVIOUS
  <2>1. OrderingInv /\ scenario.nodes \subseteq Node
    BY ScenarioType DEF FaithfulInv, SteadyInv, OrderingInv
  <2>2. ASSUME NEW n \in Node, NEW h \in Vertices, ProcessHeader(n, h)
        PROVE  FaithfulInv'
    BY <2>2, HeaderFaithful
  <2>3. ASSUME NEW n \in Node, NEW c \in Vertices, ProcessCertificate(n, c)
        PROVE  FaithfulInv'
    BY <2>3, CertificateFaithful
  <2>4. ASSUME NEW n \in Node, Restart(n)
        PROVE  FaithfulInv'
    <3>1. scenario' = scenario /\ scenario.restarts # 0
      BY <2>1, <2>4, RestartsAllowed DEF Restart
    <3>. QED  BY <3>1, FaithfulNext
  <2>5. CASE UNCHANGED vars
    <3>1. /\ scenario' = scenario /\ state' = state /\ output' = output
          /\ strays' = strays /\ stake_vote' = stake_vote
      BY <2>5 DEF vars
    <3>2. \A m \in Node : Sound(m)' => Sound(m)
      BY <3>1 DEF Sound, Linking, Vertices, parents
    <3>. QED  BY <3>1, <3>2, FaithfulNext DEF FaithfulInv
  <2>. QED  BY <2>1, <2>2, <2>3, <2>4, <2>5 DEF Next
<1>3. Spec => []SteadyInv /\ []CountedInv
  BY SteadyInvariant, CountedInvariant, PTL
<1>. QED  BY <1>1, <1>2, <1>3, PTL DEF Spec

\* Any two engines that keep their memory and were not led astray output the same
\* certificates in the same order, as far as both went, whatever each of them
\* receives first or again and whatever it jumps over, in every DAG: late
\* certificates and headers counted again are the only ways to disagree (run,
\* order_leaders and order_dag, lib.rs:112-297,318-396).
THEOREM EnginesAgree == Spec => []SoundAgreement
<1>1. FaithfulInv => SoundAgreement
  <2>1. SUFFICES ASSUME FaithfulInv, NEW m \in Steady, NEW n \in Steady, Sound(m), Sound(n)
                 PROVE  IsPrefix(output[m], output[n]) \/ IsPrefix(output[n], output[m])
    BY DEF SoundAgreement
  <2>2. /\ m \in Node /\ n \in Node /\ parents \in Dags
        /\ Faithful(state[m], output[m]) /\ Faithful(state[n], output[n])
        /\ output[m] \in Seq(Vertices) /\ output[n] \in Seq(Vertices)
        /\ WellState(state[m]) /\ WellState(state[n])
    BY <2>1 DEF Steady, FaithfulInv, SteadyInv, OrderingInv, CountedInv
  <2>3. PICK t \in Nat : t = state[m].last_committed_round
    BY <2>2 DEF WellState, StateType
  <2>4. PICK u \in Nat : u = state[n].last_committed_round
    BY <2>2 DEF WellState, StateType
  <2>5. PICK L : Decided(L, t) /\ \E f : IsLedger(L, f, t) /\ output[m] = f[t].sequence
    BY <2>2, <2>3 DEF Faithful, Follows, Tracks
  <2>6. PICK M : Decided(M, u) /\ \E g : IsLedger(M, g, u) /\ output[n] = g[u].sequence
    BY <2>2, <2>4 DEF Faithful, Follows, Tracks
  <2>7. PICK f : IsLedger(L, f, t) /\ output[m] = f[t].sequence
    BY <2>5
  <2>8. PICK g : IsLedger(M, g, u) /\ output[n] = g[u].sequence
    BY <2>6
  <2>9. CASE t <= u
    <3>1. Extends(output[m], output[n])
      BY <2>2, <2>5, <2>6, <2>7, <2>8, <2>9, LeadersAgree, LedgersAgree
    <3>. QED  BY <2>2, <3>1, ConcatPrefix DEF Extends
  <2>10. CASE u <= t
    <3>1. Extends(output[n], output[m])
      BY <2>2, <2>5, <2>6, <2>7, <2>8, <2>10, LeadersAgree, LedgersAgree
    <3>. QED  BY <2>2, <3>1, ConcatPrefix DEF Extends
  <2>. QED  BY <2>9, <2>10
<1>. QED  BY <1>1, FaithfulInvariant, PTL

=============================================================================
