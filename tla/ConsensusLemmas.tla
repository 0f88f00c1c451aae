-------------------------- MODULE ConsensusLemmas ---------------------------
(***************************************************************************)
(* What the operators of Consensus compute, for every committee, every DAG *)
(* and every state of an engine: what linked reaches, what update keeps,   *)
(* which leaders order_leaders finds, what order_dag and commit output.    *)
(* The theorems about the engines rest on these lemmas.                    *)
(*                                                                         *)
(* Induction, recursion and sequences come first.  The induction theorems  *)
(* of the library take an operator, which the provers at hand cannot       *)
(* instantiate; here a set or a function takes its place.                  *)
(***************************************************************************)
EXTENDS Consensus, CommitteeTheorems, SequenceTheorems, WellFoundedInduction

\* A set of numbers has a least one.
LEMMA LeastNumber ==
    ASSUME NEW T \in SUBSET Nat, T # {}
    PROVE  \E x \in T : \A y \in T : x <= y
<1>. DEFINE R == OpToRel(<, Nat)
<1>1. PICK x \in T : \A y \in T : ~(<<y, x>> \in R)
  BY NatLessThanWellFounded, WFMin
<1>2. \A y \in Nat : y < x => <<y, x>> \in R
  BY DEF OpToRel
<1>. HIDE DEF R
<1>3. \A y \in T : ~(y < x)
  BY <1>1, <1>2
<1>. QED  BY <1>3

\* Induction up to n: a set with 0 and with the successors of its members.
LEMMA Induction ==
    ASSUME NEW n \in Nat, NEW P, 0 \in P,
           \A k \in 0..(n - 1) : k \in P => k + 1 \in P
    PROVE  \A k \in 0..n : k \in P
<1>. DEFINE T == {k \in 0..n : k \notin P}
<1>1. SUFFICES ASSUME T # {} PROVE FALSE
  OBVIOUS
<1>2. T \in SUBSET Nat
  OBVIOUS
<1>3. PICK k \in T : \A j \in T : k <= j
  BY <1>1, <1>2, LeastNumber
<1>4. k - 1 \in 0..(n - 1) /\ k - 1 \in 0..n
  BY <1>3
<1>5. k - 1 \in P
  BY <1>3, <1>4
<1>. QED  BY <1>3, <1>4, <1>5

\* A step function: what the i-th step makes of a value of R[i - 1].
IsStepThrough(g, n, R) == \A i \in 1..n : \A x \in R[i - 1] : g[<<i, x>>] \in R[i]

\* The values obtained from s, one for each number of steps up to n.
IsRunThrough(f, n, R, s, g) ==
    /\ f = [i \in 0..n |-> f[i]] /\ f[0] = s
    /\ \A i \in 0..n : f[i] \in R[i]
    /\ \A i \in 1..n : f[i] = g[<<i, f[i - 1]>>]

\* From any value the steps can be taken.
LEMMA RecursionThrough ==
    ASSUME NEW n \in Nat, NEW R, NEW s \in R[0], NEW g, IsStepThrough(g, n, R)
    PROVE  \E f : IsRunThrough(f, n, R, s, g)
<1>. USE DEF IsStepThrough
<1>. DEFINE IsUpTo(f, k) == /\ f = [i \in 0..k |-> f[i]] /\ f[0] = s
                            /\ \A i \in 0..k : f[i] \in R[i]
                            /\ \A i \in 1..k : f[i] = g[<<i, f[i - 1]>>]
            P == {k \in 0..n : \E f : IsUpTo(f, k)}
<1>1. 0 \in P
  <2>. DEFINE z == [i \in 0..0 |-> s]
  <2>1. z = [i \in 0..0 |-> z[i]] /\ z[0] = s /\ \A i \in 0..0 : i = 0
    OBVIOUS
  <2>. HIDE DEF z
  <2>2. IsUpTo(z, 0)
    BY <2>1
  <2>. HIDE DEF IsUpTo
  <2>3. 0 \in 0..n
    OBVIOUS
  <2>. QED  BY <2>2, <2>3
<1>2. ASSUME NEW k \in 0..(n - 1), k \in P
      PROVE  k + 1 \in P
  <2>1. PICK f : IsUpTo(f, k)
    BY <1>2
  <2>. DEFINE h == [i \in 0..(k + 1) |-> IF i = k + 1 THEN g[<<k + 1, f[k]>>] ELSE f[i]]
  <2>2. k \in Nat /\ k + 1 \in 1..n /\ f[k] \in R[k] /\ k \in 0..k /\ (k + 1) - 1 = k
    BY <2>1
  <2>3. g[<<k + 1, f[k]>>] \in R[k + 1]
    BY <2>2
  <2>4. \A i \in 0..(k + 1) : i \in 0..k \/ i = k + 1
    BY <2>2
  <2>5. h = [i \in 0..(k + 1) |-> h[i]] /\ h[0] = s
    BY <2>1, <2>2
  <2>6. \A i \in 0..(k + 1) : h[i] \in R[i]
    BY <2>1, <2>2, <2>3, <2>4
  <2>7. \A i \in 1..(k + 1) : h[i] = g[<<i, h[i - 1]>>]
    <3>1. h[k + 1] = g[<<k + 1, h[(k + 1) - 1]>>]
      <4>1. h[k] = f[k] /\ h[k + 1] = g[<<k + 1, f[k]>>]
        BY <2>2
      <4>. QED  BY <2>2, <4>1
    <3>2. \A i \in 1..k : h[i] = f[i] /\ h[i - 1] = f[i - 1]
      BY <2>2
    <3>3. \A i \in 1..(k + 1) : i \in 1..k \/ i = k + 1
      BY <2>2
    <3>4. \A i \in 1..k : f[i] = g[<<i, f[i - 1]>>]
      BY <2>1
    <3>. HIDE DEF h
    <3>. QED  BY <3>1, <3>2, <3>3, <3>4
  <2>. HIDE DEF h
  <2>8. IsUpTo(h, k + 1)
    BY <2>5, <2>6, <2>7
  <2>9. k + 1 \in 0..n
    BY <2>2
  <2>. HIDE DEF IsUpTo
  <2>. QED  BY <2>8, <2>9
<1>. HIDE DEF P
<1>3. \A k \in 0..n : k \in P
  BY <1>1, <1>2, Induction
<1>4. n \in P
  BY <1>3
<1>. QED  BY <1>4 DEF P, IsRunThrough

\* The same with one set of values for all the steps.
IsStep(g, n, S) == g \in [(1..n) \X S -> S]

IsRun(f, n, S, s, g) ==
    f \in [0..n -> S] /\ f[0] = s /\ \A i \in 1..n : f[i] = g[<<i, f[i - 1]>>]

\* Recursion whose values stay in one set.
LEMMA Recursion ==
    ASSUME NEW n \in Nat, NEW S, NEW s \in S, NEW g, IsStep(g, n, S)
    PROVE  \E f : IsRun(f, n, S, s, g)
<1>. DEFINE R == [i \in 0..n |-> S]
<1>1. \A i \in 0..n : R[i] = S
  OBVIOUS
<1>2. \A i \in 1..n : i - 1 \in 0..n /\ i \in 0..n
  OBVIOUS
<1>3. IsStepThrough(g, n, R) /\ s \in R[0]
  BY <1>1, <1>2 DEF IsStep, IsStepThrough
<1>. HIDE DEF R
<1>4. PICK f : IsRunThrough(f, n, R, s, g)
  BY <1>3, RecursionThrough
<1>5. f \in [0..n -> S]
  BY <1>1, <1>4 DEF IsRunThrough
<1>. QED  BY <1>4, <1>5 DEF IsRunThrough, IsRun

\* A finite set of numbers, given by its members, has a largest one.
LEMMA MaxProperties ==
    ASSUME NEW n \in Nat \ {0}, NEW f \in [1..n -> Nat]
    PROVE  LET m == Max({f[i] : i \in 1..n})
           IN  /\ m \in {f[i] : i \in 1..n}
               /\ \A i \in 1..n : f[i] <= m
<1>. DEFINE Largest(k) == {j \in 1..(k + 1) : \A i \in 1..(k + 1) : f[i] <= f[j]}
            P == {k \in 0..(n - 1) : Largest(k) # {}}
<1>1. 0 \in P
  <2>1. 1 \in Largest(0)
    OBVIOUS
  <2>. QED  BY <2>1
<1>2. ASSUME NEW k \in 0..((n - 1) - 1), k \in P
      PROVE  k + 1 \in P
  <2>0. SUFFICES Largest(k + 1) # {}
    <3>1. k + 1 \in 0..(n - 1)
      BY <1>2
    <3>. QED  BY <3>1
  <2>1. PICK j \in 1..(k + 1) : \A i \in 1..(k + 1) : f[i] <= f[j]
    BY <1>2
  <2>2. \A i \in 1..((k + 1) + 1) : i \in 1..(k + 1) \/ i = k + 2
    OBVIOUS
  <2>3. /\ k + 2 \in 1..n /\ j \in 1..n /\ f[k + 2] \in Nat /\ f[j] \in Nat
        /\ \A i \in 1..((k + 1) + 1) : f[i] \in Nat
    BY <2>1
  <2>4. CASE f[k + 2] <= f[j]
    <3>1. j \in Largest(k + 1)
      BY <2>1, <2>2, <2>4
    <3>. QED  BY <3>1
  <2>5. CASE f[j] <= f[k + 2]
    <3>1. k + 2 \in Largest(k + 1)
      BY <2>1, <2>2, <2>3, <2>5
    <3>. QED  BY <3>1
  <2>. HIDE DEF Largest
  <2>. QED  BY <2>3, <2>4, <2>5
<1>. HIDE DEF P
<1>3. n - 1 \in P
  <2>. DEFINE m == n - 1
  <2>1. m \in Nat /\ \A k \in 0..(m - 1) : k \in P => k + 1 \in P
    BY <1>2
  <2>. HIDE DEF m
  <2>2. \A k \in 0..m : k \in P
    BY <1>1, <2>1, Induction
  <2>3. m \in P
    BY <2>1, <2>2
  <2>. QED  BY <2>3 DEF m
<1>4. PICK j \in 1..n : \A i \in 1..n : f[i] <= f[j]
  <2>1. (n - 1) + 1 = n
    OBVIOUS
  <2>. QED  BY <1>3, <2>1 DEF P
<1>. DEFINE M == {f[i] : i \in 1..n}
<1>5. f[j] \in M /\ \A y \in M : f[j] >= y
  BY <1>4
<1>. HIDE DEF M
<1>6. Max(M) \in M /\ \A y \in M : Max(M) >= y
  BY <1>5 DEF Max
<1>. QED  BY <1>6 DEF M

-----------------------------------------------------------------------------
\* The members of a concatenation, and when it repeats none.
LEMMA ConcatMembers ==
    ASSUME NEW S, NEW s \in Seq(S), NEW t \in Seq(S)
    PROVE  /\ s \o t \in Seq(S)
           /\ ToSet(s \o t) = ToSet(s) \cup ToSet(t)
           /\ (IsInjective(s) /\ IsInjective(t) /\ ToSet(s) \cap ToSet(t) = {})
                => IsInjective(s \o t)
<1>1. /\ s \o t \in Seq(S)
      /\ Len(s \o t) = Len(s) + Len(t)
      /\ Len(s) \in Nat /\ Len(t) \in Nat
      /\ DOMAIN s = 1..Len(s) /\ DOMAIN t = 1..Len(t)
      /\ DOMAIN (s \o t) = 1..(Len(s) + Len(t))
      /\ \A i \in 1..(Len(s) + Len(t)) :
            (s \o t)[i] = IF i <= Len(s) THEN s[i] ELSE t[i - Len(s)]
  OBVIOUS
<1>. DEFINE u == s \o t
<1>. HIDE DEF u
<1>2. \A i \in 1..Len(s) : i \in DOMAIN u /\ u[i] = s[i]
  BY <1>1 DEF u
<1>3. \A i \in 1..Len(t) : i + Len(s) \in DOMAIN u /\ u[i + Len(s)] = t[i]
  <2>1. \A i \in 1..Len(t) : /\ i + Len(s) \in 1..(Len(s) + Len(t))
                             /\ ~(i + Len(s) <= Len(s))
                             /\ (i + Len(s)) - Len(s) = i
    BY <1>1
  <2>. QED  BY <1>1, <2>1 DEF u
<1>4. \A i \in DOMAIN u : \/ i \in 1..Len(s) /\ u[i] = s[i]
                          \/ i - Len(s) \in 1..Len(t) /\ u[i] = t[i - Len(s)]
  BY <1>1 DEF u
<1>5. ToSet(u) = ToSet(s) \cup ToSet(t)
  <2>1. ToSet(u) \subseteq ToSet(s) \cup ToSet(t)
    BY <1>1, <1>4 DEF ToSet
  <2>2. ToSet(s) \subseteq ToSet(u)
    BY <1>1, <1>2 DEF ToSet
  <2>3. ToSet(t) \subseteq ToSet(u)
    BY <1>1, <1>3 DEF ToSet
  <2>. QED  BY <2>1, <2>2, <2>3
<1>6. ASSUME IsInjective(s), IsInjective(t), ToSet(s) \cap ToSet(t) = {},
             NEW i \in DOMAIN u, NEW j \in DOMAIN u, u[i] = u[j]
      PROVE  i = j
  <2>1. CASE i \in 1..Len(s) /\ j \in 1..Len(s)
    BY <1>1, <1>2, <1>6, <2>1 DEF IsInjective
  <2>2. CASE i \notin 1..Len(s) /\ j \notin 1..Len(s)
    <3>1. t[i - Len(s)] = t[j - Len(s)] /\ i - Len(s) \in DOMAIN t /\ j - Len(s) \in DOMAIN t
      BY <1>1, <1>4, <1>6, <2>2
    <3>2. i - Len(s) = j - Len(s)
      BY <1>6, <3>1 DEF IsInjective
    <3>3. i \in Int /\ j \in Int
      BY <1>1, <1>6 DEF u
    <3>. QED  BY <1>1, <3>2, <3>3
  <2>3. CASE i \in 1..Len(s) /\ j \notin 1..Len(s)
    <3>1. u[i] \in ToSet(s) /\ u[j] \in ToSet(t)
      BY <1>1, <1>2, <1>4, <2>3 DEF ToSet
    <3>. QED  BY <1>6, <3>1
  <2>4. CASE i \notin 1..Len(s) /\ j \in 1..Len(s)
    <3>1. u[j] \in ToSet(s) /\ u[i] \in ToSet(t)
      BY <1>1, <1>2, <1>4, <2>4 DEF ToSet
    <3>. QED  BY <1>6, <3>1
  <2>. QED  BY <2>1, <2>2, <2>3, <2>4
<1>. QED  BY <1>1, <1>5, <1>6 DEF u, IsInjective

\* FlattenSeq concatenates the sequences one after the other.
LEMMA Flattening ==
    ASSUME NEW S, NEW ss \in Seq(Seq(S))
    PROVE  \E f \in [0..Len(ss) -> Seq(S)] :
              /\ f[0] = <<>>
              /\ \A i \in 1..Len(ss) : f[i] = f[i - 1] \o ss[i]
              /\ FlattenSeq(ss) = f[Len(ss)]
<1>1. PICK n \in Nat : n = Len(ss)
  OBVIOUS
<1>. DEFINE g == [p \in (1..n) \X Seq(S) |-> p[2] \o ss[p[1]]]
            IsFlat(fl) == fl = [i \in 1..n |-> IF i = 1 THEN ss[i] ELSE fl[i - 1] \o ss[i]]
            F == CHOOSE fl : IsFlat(fl)
<1>2. \A i \in 1..n : ss[i] \in Seq(S)
  BY <1>1
<1>3. g \in [(1..n) \X Seq(S) -> Seq(S)]
  BY <1>2
<1>4. <<>> \in Seq(S)
  OBVIOUS
<1>5. PICK f \in [0..n -> Seq(S)] : f[0] = <<>> /\ \A i \in 1..n : f[i] = g[<<i, f[i - 1]>>]
  <2>1. IsStep(g, n, Seq(S))
    BY <1>3 DEF IsStep
  <2>. HIDE DEF g
  <2>2. PICK f : IsRun(f, n, Seq(S), <<>>, g)
    BY <1>4, <2>1, Recursion
  <2>. QED  BY <2>2 DEF IsRun
<1>6. \A i \in 1..n : i - 1 \in 0..n /\ i \in 0..n
  OBVIOUS
<1>7. \A i \in 1..n : f[i] = f[i - 1] \o ss[i]
  <2>1. SUFFICES ASSUME NEW i \in 1..n PROVE f[i] = f[i - 1] \o ss[i]
    OBVIOUS
  <2>2. f[i - 1] \in Seq(S)
    BY <1>5, <1>6
  <2>3. g[<<i, f[i - 1]>>] = f[i - 1] \o ss[i]
    BY <2>2
  <2>. HIDE DEF g
  <2>. QED  BY <1>5, <2>3
<1>8. CASE n = 0
  <2>1. FlattenSeq(ss) = <<>>
    <3>1. ss = <<>>
      BY <1>1, <1>8, EmptySeq
    <3>. QED  BY <1>1, <1>8, <3>1 DEF FlattenSeq
  <2>. QED  BY <1>1, <1>5, <1>7, <1>8, <2>1
<1>9. CASE n # 0
  <2>1. 1 \in 1..n /\ n \in 1..n
    BY <1>9
  <2>. DEFINE h == [i \in 1..n |-> f[i]]
  <2>2. \A i \in 1..n : h[i] = IF i = 1 THEN ss[i] ELSE h[i - 1] \o ss[i]
    <3>1. f[1] = ss[1]
      <4>1. 1 - 1 = 0 /\ f[0] = <<>> /\ ss[1] \in Seq(S)
        BY <1>2, <1>5, <2>1
      <4>2. f[1] = <<>> \o ss[1]
        BY <1>7, <2>1, <4>1
      <4>. QED  BY <4>1, <4>2
    <3>2. \A i \in 1..n : i # 1 => i - 1 \in 1..n
      OBVIOUS
    <3>. QED  BY <1>7, <3>1, <3>2
  <2>3. IsFlat(h)
    BY <2>2, Zenon
  <2>. HIDE DEF h
  <2>4. IsFlat(F)
    BY <2>3
  <2>5. FlattenSeq(ss) = F[n]
    BY <1>1, <1>9 DEF FlattenSeq
  <2>. HIDE DEF F
  <2>6. \A i \in 1..n : F[i] = IF i = 1 THEN ss[i] ELSE F[i - 1] \o ss[i]
    BY <2>4
  <2>. DEFINE P == {k \in 0..(n - 1) : F[k + 1] = f[k + 1]}
  <2>7. 0 \in P
    <3>1. F[1] = ss[1]
      BY <2>1, <2>6
    <3>2. f[1] = ss[1]
      <4>1. 1 - 1 = 0 /\ f[0] = <<>> /\ ss[1] \in Seq(S)
        BY <1>2, <1>5, <2>1
      <4>2. f[1] = <<>> \o ss[1]
        BY <1>7, <2>1, <4>1
      <4>. QED  BY <4>1, <4>2
    <3>. QED  BY <1>9, <3>1, <3>2
  <2>8. ASSUME NEW k \in 0..((n - 1) - 1), k \in P
        PROVE  k + 1 \in P
    <3>1. (k + 1) + 1 \in 1..n /\ ((k + 1) + 1) - 1 = k + 1 /\ (k + 1) + 1 # 1 /\ k + 1 \in 0..(n - 1)
      OBVIOUS
    <3>2. F[(k + 1) + 1] = F[k + 1] \o ss[(k + 1) + 1]
      BY <2>6, <3>1
    <3>3. f[(k + 1) + 1] = f[k + 1] \o ss[(k + 1) + 1]
      BY <1>7, <3>1
    <3>. QED  BY <2>8, <3>1, <3>2, <3>3
  <2>9. PICK m \in Nat : m = n - 1
    BY <1>9
  <2>. HIDE DEF P
  <2>10. \A k \in 0..m : k \in P
    BY <2>7, <2>8, <2>9, Induction
  <2>11. m \in P /\ m + 1 = n
    BY <2>9, <2>10
  <2>12. F[n] = f[n]
    BY <2>11 DEF P
  <2>. QED  BY <1>1, <1>5, <1>7, <2>5, <2>12
<1>. QED  BY <1>8, <1>9

\* The members of a flattened sequence are those of its parts, and it repeats
\* none when no part does and no two parts share one.
LEMMA FlattenMembers ==
    ASSUME NEW S, NEW ss \in Seq(Seq(S))
    PROVE  /\ FlattenSeq(ss) \in Seq(S)
           /\ ToSet(FlattenSeq(ss)) = UNION {ToSet(ss[i]) : i \in 1..Len(ss)}
           /\ (/\ \A i \in 1..Len(ss) : IsInjective(ss[i])
               /\ \A i, j \in 1..Len(ss) : i # j => ToSet(ss[i]) \cap ToSet(ss[j]) = {})
                 => IsInjective(FlattenSeq(ss))
<1>1. PICK n \in Nat : n = Len(ss)
  OBVIOUS
<1>2. \A i \in 1..n : ss[i] \in Seq(S)
  BY <1>1
<1>3. PICK f \in [0..n -> Seq(S)] :
         /\ f[0] = <<>>
         /\ \A i \in 1..n : f[i] = f[i - 1] \o ss[i]
         /\ FlattenSeq(ss) = f[n]
  BY <1>1, Flattening
<1>. DEFINE Before(k) == UNION {ToSet(ss[i]) : i \in 1..k}
            Apart == /\ \A i \in 1..n : IsInjective(ss[i])
                     /\ \A i, j \in 1..n : i # j => ToSet(ss[i]) \cap ToSet(ss[j]) = {}
            P == {k \in 0..n : ToSet(f[k]) = Before(k) /\ (Apart => IsInjective(f[k]))}
<1>4. 0 \in P
  <2>1. ToSet(f[0]) = {} /\ IsInjective(f[0])
    BY <1>3 DEF ToSet, IsInjective
  <2>2. Before(0) = {}
    OBVIOUS
  <2>. QED  BY <2>1, <2>2
<1>5. ASSUME NEW k \in 0..(n - 1), k \in P
      PROVE  k + 1 \in P
  <2>1. k + 1 \in 1..n /\ (k + 1) - 1 = k /\ k \in 0..n /\ k + 1 \in 0..n
    OBVIOUS
  <2>2. f[k + 1] = f[k] \o ss[k + 1] /\ f[k] \in Seq(S) /\ ss[k + 1] \in Seq(S)
    BY <1>2, <1>3, <2>1
  <2>3. ToSet(f[k]) = Before(k) /\ (Apart => IsInjective(f[k]))
    BY <1>5
  <2>4. Before(k + 1) = Before(k) \cup ToSet(ss[k + 1])
    <3>1. 1..(k + 1) = 1..k \cup {k + 1}
      BY <2>1
    <3>. QED  BY <3>1
  <2>5. ASSUME Apart
        PROVE  IsInjective(ss[k + 1]) /\ Before(k) \cap ToSet(ss[k + 1]) = {}
    <3>1. \A i \in 1..k : i \in 1..n /\ i # k + 1
      OBVIOUS
    <3>2. \A i \in 1..k : ToSet(ss[i]) \cap ToSet(ss[k + 1]) = {}
      BY <2>1, <2>5, <3>1
    <3>3. IsInjective(ss[k + 1])
      BY <2>1, <2>5
    <3>. QED  BY <3>2, <3>3
  <2>. HIDE DEF Before, Apart
  <2>6. /\ ToSet(f[k + 1]) = Before(k) \cup ToSet(ss[k + 1])
        /\ Apart => IsInjective(f[k + 1])
    BY <2>2, <2>3, <2>5, ConcatMembers
  <2>. QED  BY <2>1, <2>4, <2>6
<1>. HIDE DEF P
<1>6. \A k \in 0..n : k \in P
  BY <1>4, <1>5, Induction
<1>7. n \in P
  BY <1>6
<1>. QED  BY <1>1, <1>3, <1>7 DEF P

\* A sequence of one member.
LEMMA OneMember ==
    ASSUME NEW S, NEW x \in S
    PROVE  <<x>> \in Seq(S) /\ ToSet(<<x>>) = {x} /\ IsInjective(<<x>>)
BY DEF ToSet, IsInjective

\* No member at all.
LEMMA NoMember ==
    ASSUME NEW S
    PROVE  <<>> \in Seq(S) /\ ToSet(<<>>) = {} /\ IsInjective(<<>>)
BY DEF ToSet, IsInjective

\* A sequence is its front and then its last member.
LEMMA FrontAndLast ==
    ASSUME NEW S, NEW s \in Seq(S), s # <<>>
    PROVE  /\ Front(s) \in Seq(S) /\ Last(s) \in S /\ Last(s) \in ToSet(s)
           /\ ToSet(s) = ToSet(Front(s)) \cup {Last(s)}
           /\ IsInjective(s) => IsInjective(Front(s)) /\ Last(s) \notin ToSet(Front(s))
<1>1. PICK n \in Nat : n = Len(s) - 1 /\ Len(s) = n + 1
  BY EmptySeq
<1>2. /\ DOMAIN s = 1..(n + 1)
      /\ \A i \in 1..(n + 1) : s[i] \in S
  BY <1>1
<1>. DEFINE t == Front(s)
<1>3. t \in Seq(S) /\ Len(t) = n /\ \A i \in 1..n : t[i] = s[i]
  <2>1. \A i \in 1..n : i \in 1..Len(s)
    BY <1>1
  <2>. QED  BY <1>1, <2>1 DEF Front
<1>. HIDE DEF t
<1>4. DOMAIN t = 1..n
  BY <1>3
<1>5. Last(s) = s[n + 1] /\ n + 1 \in 1..(n + 1)
  BY <1>1 DEF Last
<1>6. \A i \in 1..(n + 1) : i \in 1..n \/ i = n + 1
  OBVIOUS
<1>7. \A i \in 1..n : i \in 1..(n + 1) /\ i # n + 1
  OBVIOUS
<1>8. ToSet(s) = ToSet(t) \cup {Last(s)}
  BY <1>2, <1>3, <1>4, <1>5, <1>6, <1>7 DEF ToSet
<1>9. ASSUME IsInjective(s) PROVE IsInjective(t) /\ Last(s) \notin ToSet(t)
  <2>1. \A i, j \in 1..(n + 1) : s[i] = s[j] => i = j
    BY <1>2, <1>9 DEF IsInjective
  <2>2. IsInjective(t)
    BY <1>3, <1>4, <1>7, <2>1 DEF IsInjective
  <2>3. Last(s) \notin ToSet(t)
    BY <1>3, <1>4, <1>5, <1>7, <2>1 DEF ToSet
  <2>. QED  BY <2>2, <2>3
<1>. QED  BY <1>2, <1>3, <1>5, <1>8, <1>9 DEF t

\* A sequence followed by another has the first one as a prefix.
LEMMA ConcatPrefix ==
    ASSUME NEW S, NEW s \in Seq(S), NEW t \in Seq(S)
    PROVE  IsPrefix(s, s) /\ IsPrefix(s, s \o t)
<1>1. /\ Len(s) \in Nat /\ Len(t) \in Nat /\ Len(s \o t) = Len(s) + Len(t)
      /\ \A i \in 1..Len(s) : (s \o t)[i] = s[i]
  OBVIOUS
<1>2. SubSeq(s \o t, 1, Len(s)) = SubSeq(s, 1, Len(s))
  BY <1>1
<1>. QED  BY <1>1, <1>2 DEF IsPrefix

\* A sequence that repeats none has as many members as its length.
LEMMA InjectiveLength ==
    ASSUME NEW S, NEW s \in Seq(S), IsInjective(s)
    PROVE  Cardinality(ToSet(s)) = Len(s)
<1>1. PICK n \in Nat : n = Len(s)
  OBVIOUS
<1>2. DOMAIN s = 1..n /\ s \in [1..n -> ToSet(s)]
  BY <1>1 DEF ToSet
<1>3. s \in Bijection(1..n, ToSet(s))
  BY <1>2 DEF Bijection, Injection, Surjection, IsInjective, ToSet
<1>. QED  BY <1>1, <1>3, FS_CountingElements DEF ExistsBijection

-----------------------------------------------------------------------------
\* A vertex is its author with its round.
LEMMA VertexType ==
    ASSUME parents \in Dags, NEW v \in Vertices
    PROVE  /\ origin(v) \in Authority /\ round(v) \in Nat
           /\ v = <<origin(v), round(v)>>
<1>1. v \in Authority \X (Nat \ {0})
  BY DagsAssumption DEF WellFormed, Vertices
<1>. QED  BY <1>1 DEF origin, round

\* What linked reaches in each round from lo to hi, walking down from a
\* certificate of round hi.
IsWalk(f, lo, hi, dag, from) ==
    f = [r \in lo..hi |->
            IF r = hi
              THEN {from}
              ELSE LET above == f[r + 1]
                   IN  {v \in dag : round(v) = r /\ \E x \in above : v \in parents[x]}]

Walk(dag, from, to) == CHOOSE f : IsWalk(f, round(to), round(from), dag, from)

\* linked asks whether the walk from one certificate reaches the other.
LEMMA LinkedIsWalk ==
    ASSUME NEW dag, NEW from, NEW to
    PROVE  linked(dag, from, to) <=> to \in Walk(dag, from, to)[round(to)]
BY DEF linked, Walk, IsWalk

\* The walk of linked is well defined: there is a function that satisfies its
\* recursive definition.
LEMMA WalkExists ==
    ASSUME NEW dag, NEW from, NEW to, round(to) \in Nat, round(from) \in Nat,
           round(to) <= round(from)
    PROVE  IsWalk(Walk(dag, from, to), round(to), round(from), dag, from)
<1>. DEFINE hi == round(from)
            Exists(k) == \E f : IsWalk(f, hi - k, hi, dag, from)
            T == {k \in Nat : ~Exists(k)}
<1>1. SUFFICES T = {}
  <2>1. hi - round(to) \in Nat /\ hi - (hi - round(to)) = round(to)
    OBVIOUS
  <2>2. ASSUME T = {} PROVE Exists(hi - round(to))
    BY <2>1, <2>2
  <2>. QED  BY <2>1, <2>2 DEF Walk
<1>2. SUFFICES ASSUME T # {} PROVE FALSE
  OBVIOUS
<1>3. PICK k \in T : \A j \in T : k <= j
  BY <1>2, LeastNumber
<1>4. k # 0
  <2>1. IsWalk([r \in (hi - 0)..hi |-> {from}], hi - 0, hi, dag, from)
    BY DEF IsWalk
  <2>. QED  BY <2>1, <1>3
<1>. DEFINE lo == hi - k
<1>5. /\ k \in Nat /\ k - 1 \in Nat /\ lo \in Int /\ lo < hi
      /\ hi - (k - 1) = lo + 1
  BY <1>3, <1>4
<1>6. PICK f : IsWalk(f, lo + 1, hi, dag, from)
  <2>1. k - 1 \notin T
    BY <1>3, <1>5
  <2>. QED  BY <2>1, <1>5
<1>. DEFINE g == [r \in lo..hi |->
                    IF r = lo
                      THEN {v \in dag : round(v) = lo /\ \E x \in f[lo + 1] : v \in parents[x]}
                      ELSE f[r]]
<1>7. IsWalk(g, lo, hi, dag, from)
  <2>1. \A r \in lo..hi : r # lo => r \in (lo + 1)..hi
    BY <1>5
  <2>2. \A r \in (lo + 1)..hi : g[r] = f[r]
    BY <1>5
  <2>3. \A r \in lo..hi : r # hi => r + 1 \in (lo + 1)..hi
    BY <1>5
  <2>4. \A r \in lo..hi :
           g[r] = IF r = hi
                    THEN {from}
                    ELSE {v \in dag : round(v) = r /\ \E x \in g[r + 1] : v \in parents[x]}
    <3>1. SUFFICES ASSUME NEW r \in lo..hi
                   PROVE  g[r] = IF r = hi
                    THEN {from}
                    ELSE {v \in dag : round(v) = r /\ \E x \in g[r + 1] : v \in parents[x]}
      OBVIOUS
    <3>2. CASE r = lo
      <4>1. g[r] = {v \in dag : round(v) = lo /\ \E x \in f[lo + 1] : v \in parents[x]}
        BY <3>2
      <4>2. r # hi /\ g[r + 1] = f[lo + 1]
        BY <3>2, <1>5, <2>2, <2>3
      <4>. QED  BY <4>1, <4>2, <3>2
    <3>3. CASE r # lo
      <4>1. r \in (lo + 1)..hi /\ g[r] = f[r]
        BY <3>1, <3>3, <2>1, <2>2
      <4>2. r # hi => g[r + 1] = f[r + 1]
        BY <3>1, <2>2, <2>3
      <4>3. f[r] = IF r = hi
                     THEN {from}
                     ELSE {v \in dag : round(v) = r /\ \E x \in f[r + 1] : v \in parents[x]}
        BY <4>1, <1>6 DEF IsWalk
      <4>. QED  BY <4>1, <4>2, <4>3
    <3>. QED  BY <3>2, <3>3
  <2>. HIDE DEF lo, hi
  <2>. QED  BY <2>4 DEF IsWalk
<1>. QED  BY <1>3, <1>7

\* What a walk holds in each round.
LEMMA WalkRounds ==
    ASSUME NEW dag, NEW from, NEW to, round(to) \in Nat, round(from) \in Nat,
           round(to) <= round(from)
    PROVE  /\ Walk(dag, from, to)[round(from)] = {from}
           /\ \A r \in round(to)..(round(from) - 1) : \A v \in dag :
                v \in Walk(dag, from, to)[r] <=>
                    round(v) = r /\ \E x \in Walk(dag, from, to)[r + 1] : v \in parents[x]
<1>. DEFINE F == Walk(dag, from, to)
<1>1. IsWalk(F, round(to), round(from), dag, from)
  BY WalkExists
<1>. HIDE DEF F
<1>2. \A r \in round(to)..round(from) :
        F[r] = IF r = round(from)
                 THEN {from}
                 ELSE {v \in dag : round(v) = r /\ \E x \in F[r + 1] : v \in parents[x]}
  BY <1>1 DEF IsWalk
<1>3. F[round(from)] = {from}
  <2>1. round(from) \in round(to)..round(from)
    OBVIOUS
  <2>. QED  BY <1>2, <2>1
<1>4. \A r \in round(to)..(round(from) - 1) :
        F[r] = {v \in dag : round(v) = r /\ \E x \in F[r + 1] : v \in parents[x]}
  <2>1. \A r \in round(to)..(round(from) - 1) : r \in round(to)..round(from) /\ r # round(from)
    OBVIOUS
  <2>. QED  BY <1>2, <2>1
<1>5. \A r \in round(to)..(round(from) - 1) : \A v \in dag :
        v \in F[r] <=> round(v) = r /\ \E x \in F[r + 1] : v \in parents[x]
  BY <1>4
<1>. QED  BY <1>3, <1>5, Zenon DEF F

\* A quorum and f+1 stake share a member.
LEMMA QuorumMeetsValid ==
    ASSUME NEW S \in SUBSET Authority, NEW T \in SUBSET Authority,
           IsQuorum(S), IsValid(T)
    PROVE  S \cap T # {}
<1>. DEFINE N == TotalStake
<1>1. StakeOf(S \cup T) = StakeOf(S) + StakeOf(T) - StakeOf(S \cap T)
  BY StakeUnion
<1>2. StakeOf(S \cup T) <= N
  BY StakeMonotone DEF TotalStake
<1>3. /\ StakeOf(S) \in Nat /\ StakeOf(T) \in Nat
      /\ StakeOf(S \cap T) \in Nat /\ StakeOf(S \cup T) \in Nat
  BY StakeType
<1>4. N \in Nat
  BY TotalStakePositive
<1>5. StakeOf(S) >= (2 * N) \div 3 + 1 /\ StakeOf(T) >= (N + 2) \div 3
  BY DEF IsQuorum, IsValid, quorum_threshold, validity_threshold
<1>. HIDE DEF N
<1>6. (2 * N) \div 3 + 1 + (N + 2) \div 3 > N
  BY <1>4
<1>7. StakeOf(S \cap T) > 0
  BY <1>1, <1>2, <1>3, <1>4, <1>5, <1>6
<1>. QED  BY <1>7, StakeEmpty

\* The rules of the DAG for one vertex.
Rules(x) ==
    /\ round(x) \in Nat /\ round(x) > 0
    /\ parents[x] \subseteq Certificates
    /\ IsQuorum({origin(p) : p \in parents[x]})
    /\ \A p \in parents[x] :
        /\ round(p) = round(x) - 1
        /\ origin(p) \in Authority
        /\ p = <<origin(p), round(p)>>
        /\ round(p) > 0 => p \in Vertices
    /\ x = leader_of(round(x)) /\ leader_of(round(x) - 1) \notin parents[x]
          => IsQuorum(Skips(parents, round(x)))

\* Every vertex obeys them.
LEMMA DagRules ==
    ASSUME parents \in Dags, NEW x \in Vertices
    PROVE  Rules(x)
<1>1. /\ x \in Authority \X (Nat \ {0})
      /\ parents[x] \subseteq Vertices \cup genesis
      /\ \A p \in parents[x] : round(p) = round(x) - 1
      /\ IsQuorum({origin(p) : p \in parents[x]})
      /\ x = leader_of(round(x)) /\ leader_of(round(x) - 1) \notin parents[x]
            => IsQuorum(Skips(parents, round(x)))
  BY DagsAssumption DEF WellFormed, Vertices
<1>2. round(x) \in Nat /\ round(x) > 0
  BY <1>1 DEF round
<1>3. \A g \in genesis : origin(g) \in Authority /\ round(g) = 0 /\ g = <<origin(g), round(g)>>
  BY DEF genesis, origin, round
<1>4. \A p \in Vertices : origin(p) \in Authority /\ p = <<origin(p), round(p)>>
  BY VertexType
<1>. QED  BY <1>1, <1>2, <1>3, <1>4 DEF Rules, Certificates

\* The DAG itself: in any part H of it that holds the history of what it holds,
\* a leader v with f+1 stake of children is linked from every later leader.
LEMMA SupportedIsLinked ==
    ASSUME parents \in Dags,
           NEW H \in SUBSET Certificates,
           \A c \in H \cap Vertices : parents[c] \ genesis \subseteq H,
           NEW v \in Vertices, v = leader_of(round(v)),
           NEW C \in SUBSET Vertices, \A y \in C : v \in parents[y],
           IsValid({origin(y) : y \in C}),
           NEW w \in H, w = leader_of(round(w)), round(w) > round(v)
    PROVE  linked(H, w, v)
<1>. DEFINE F == Walk(H, w, v)
            S == {origin(y) : y \in C}
<1>r. \A x \in Vertices : round(x) \in Nat /\ round(x) > 0
  BY DagRules DEF Rules
<1>p. \A x \in Vertices : \A p \in parents[x] :
        /\ p \in Certificates /\ origin(p) \in Authority
        /\ p = <<origin(p), round(p)>>
        /\ round(p) = round(x) - 1
        /\ round(p) > 0 => p \in Vertices
  <2>1. SUFFICES ASSUME NEW x \in Vertices, NEW p \in parents[x]
                 PROVE  /\ p \in Certificates /\ origin(p) \in Authority
                        /\ p = <<origin(p), round(p)>>
                        /\ round(p) = round(x) - 1
                        /\ round(p) > 0 => p \in Vertices
    OBVIOUS
  <2>2. Rules(x)
    BY DagRules
  <2>. QED  BY <2>2 DEF Rules
<1>q. \A x \in Vertices : IsQuorum({origin(p) : p \in parents[x]})
  BY DagRules DEF Rules
<1>l. \A x \in Vertices :
        x = leader_of(round(x)) /\ leader_of(round(x) - 1) \notin parents[x]
          => IsQuorum(Skips(parents, round(x)))
  <2>1. SUFFICES ASSUME NEW x \in Vertices,
                        x = leader_of(round(x)), leader_of(round(x) - 1) \notin parents[x]
                 PROVE  IsQuorum(Skips(parents, round(x)))
    OBVIOUS
  <2>2. Rules(x)
    BY DagRules
  <2>. QED  BY <2>1, <2>2 DEF Rules
<1>1. round(v) \in Nat /\ round(v) > 0
  BY <1>r, <1>p
<1>2. \A c \in H : round(c) \in Nat /\ (round(c) > 0 => c \in Vertices)
  <2>1. \A g \in genesis : round(g) = 0
    BY DEF genesis, round
  <2>. QED  BY <2>1, <1>r, <1>p DEF Certificates
<1>3. w \in Vertices /\ round(w) \in Nat
  BY <1>1, <1>2
<1>4. /\ F[round(w)] = {w}
      /\ \A r \in round(v)..(round(w) - 1) : \A c \in H :
           c \in F[r] <=> round(c) = r /\ \E x \in F[r + 1] : c \in parents[x]
  BY <1>1, <1>3, WalkRounds
<1>. HIDE DEF F
<1>5. \A x \in H \cap Vertices : \A p \in parents[x] : round(p) > 0 => p \in H /\ p \in Vertices
  <2>1. \A g \in genesis : round(g) = 0
    BY DEF genesis, round
  <2>. QED  BY <2>1, <1>r, <1>p
<1>6. S \in SUBSET Authority
  BY VertexType
<1>7. \A y \in C : round(y) = round(v) + 1
  <2>1. SUFFICES ASSUME NEW y \in C PROVE round(y) = round(v) + 1
    OBVIOUS
  <2>2. round(v) = round(y) - 1 /\ round(y) \in Nat
    BY <2>1, <1>r, <1>p
  <2>. QED  BY <2>2
\* It is enough that a child of v is reached.
<1>8. SUFFICES \E y \in H \cap Vertices : y \in F[round(v) + 1] /\ v \in parents[y]
  <2>1. ASSUME NEW y \in H \cap Vertices, y \in F[round(v) + 1], v \in parents[y]
        PROVE  v \in F[round(v)]
    <3>1. v \in H
      BY <1>1, <1>5, <2>1
    <3>2. round(v) \in round(v)..(round(w) - 1)
      BY <1>1, <1>3
    <3>. QED  BY <1>4, <2>1, <3>1, <3>2
  <2>. QED  BY <2>1, LinkedIsWalk DEF F
\* The next leader links v, for want of a quorum that does not.
<1>9. CASE round(w) = round(v) + 1
  <2>1. v \in parents[w]
    <3>1. SUFFICES ASSUME v \notin parents[w] PROVE FALSE
      OBVIOUS
    <3>2. round(w) - 1 = round(v)
      BY <1>1, <1>9
    <3>3. IsQuorum(Skips(parents, round(w)))
      BY <1>3, <3>1, <3>2, <1>l
    <3>4. PICK a \in Skips(parents, round(w)) : a \in S
      BY <1>6, <3>3, QuorumMeetsValid DEF Skips
    <3>5. PICK y \in C : origin(y) = a
      BY <3>4
    <3>6. y = <<a, round(w)>>
      BY <1>7, <1>9, <3>5, VertexType
    <3>7. v \notin parents[y]
      BY <3>2, <3>4, <3>6 DEF Skips, Vertices
    <3>. QED  BY <3>7
  <2>. QED  BY <1>3, <1>4, <1>9, <2>1
\* Further on, something is reached in every round above v.
<1>10. CASE round(w) > round(v) + 1
  <2>. DEFINE Reached(r) == \E x \in F[r] : x \in H \cap Vertices /\ round(x) = r
              T == {k \in Nat : k < round(w) - round(v) /\ ~Reached(round(w) - k)}
  <2>1. T = {}
    <3>1. SUFFICES ASSUME T # {} PROVE FALSE
      OBVIOUS
    <3>2. PICK k \in T : \A j \in T : k <= j
      BY <3>1, LeastNumber
    <3>3. k # 0
      BY <1>3, <1>4, <3>2
    <3>. DEFINE r == round(w) - k
    <3>4. /\ r \in round(v)..(round(w) - 1) /\ r > round(v)
          /\ round(w) - (k - 1) = r + 1 /\ k - 1 \in Nat
          /\ k - 1 < round(w) - round(v)
      BY <1>1, <1>3, <3>2, <3>3
    <3>5. Reached(r + 1)
      <4>1. k - 1 \notin T
        BY <3>2, <3>4
      <4>. QED  BY <3>4, <4>1
    <3>6. PICK x \in F[r + 1] : x \in H \cap Vertices /\ round(x) = r + 1
      BY <3>5
    <3>7. PICK p \in parents[x] : TRUE
      BY <3>6, <1>q, QuorumNonEmpty
    <3>8. round(p) = r
      BY <3>4, <3>6, <3>7, <1>r, <1>p
    <3>9. p \in H \cap Vertices
      BY <1>1, <1>5, <3>4, <3>6, <3>7, <3>8
    <3>10. p \in F[r]
      BY <1>4, <3>4, <3>6, <3>7, <3>8, <3>9
    <3>. QED  BY <3>2, <3>8, <3>9, <3>10
  <2>2. Reached(round(v) + 2)
    <3>. DEFINE k == round(w) - (round(v) + 2)
    <3>1. k \in Nat /\ k < round(w) - round(v) /\ round(w) - k = round(v) + 2
      BY <1>1, <1>3, <1>10
    <3>2. k \notin T
      BY <2>1
    <3>. QED  BY <3>1, <3>2
  <2>3. PICK x \in F[round(v) + 2] : x \in H \cap Vertices /\ round(x) = round(v) + 2
    BY <2>2
  <2>4. {origin(p) : p \in parents[x]} \in SUBSET Authority
    BY <2>3, <1>r, <1>p
  <2>5. PICK p \in parents[x] : origin(p) \in S
    BY <1>6, <2>3, <2>4, <1>q, QuorumMeetsValid
  <2>6. PICK y \in C : origin(y) = origin(p)
    BY <2>5
  <2>7. y = p /\ round(p) = round(v) + 1
    <3>1. p = <<origin(p), round(p)>> /\ round(p) = round(v) + 1
      BY <1>1, <2>3, <2>5, <1>r, <1>p
    <3>. QED  BY <1>7, <2>6, <3>1, VertexType
  <2>8. p \in H \cap Vertices
    BY <1>1, <1>5, <2>3, <2>5, <2>7
  <2>9. p \in F[round(v) + 1]
    <3>1. round(v) + 1 \in round(v)..(round(w) - 1) /\ (round(v) + 1) + 1 = round(v) + 2
      BY <1>1, <1>3, <1>10
    <3>. QED  BY <1>4, <2>3, <2>5, <2>7, <2>8, <3>1
  <2>. QED  BY <2>7, <2>8, <2>9
<1>. QED  BY <1>1, <1>3, <1>9, <1>10

-----------------------------------------------------------------------------
(***************************************************************************)
(* The algorithm.                                                          *)
(***************************************************************************)
StateType ==
    [last_committed_round : Nat,
     last_committed       : [Authority -> Nat],
     dag                  : SUBSET Certificates]

\* A state the engine can be in.
WellState(st) ==
    /\ st \in StateType
    /\ st.last_committed_round = Max({st.last_committed[a] : a \in Authority})
    /\ IsFiniteSet(st.dag)
    /\ \A g \in genesis \cap st.dag : st.last_committed[origin(g)] = 0

\* What the engine does not need to hold any more.
Past(st, v) ==
    \/ round(v) < st.last_committed[origin(v)]
    \/ round(v) + gc_depth < st.last_committed_round

\* From state st to state u the certificates of B are committed, and nothing else.
Advances(st, u, B) ==
    /\ WellState(u)
    /\ st.last_committed_round <= u.last_committed_round
    /\ \A a \in Authority :
        /\ st.last_committed[a] <= u.last_committed[a]
        /\ \/ u.last_committed[a] = st.last_committed[a]
           \/ \E b \in B : origin(b) = a /\ u.last_committed[a] = round(b)
    /\ \A b \in B : round(b) <= u.last_committed[origin(b)]
    /\ u.dag \subseteq st.dag
    /\ \A v \in st.dag : v \in u.dag \/ Past(u, v)
    /\ B # {} => \A v \in u.dag : u.last_committed[origin(v)] <= round(v)

-----------------------------------------------------------------------------
\* Certificates and the DAG have their types.
LEMMA CertificateType ==
    ASSUME parents \in Dags, NEW v \in Certificates
    PROVE  /\ origin(v) \in Authority /\ round(v) \in Nat
           /\ v = <<origin(v), round(v)>>
           /\ v \in genesis <=> round(v) = 0
           /\ v \in Vertices <=> round(v) > 0
<1>1. \A g \in genesis : origin(g) \in Authority /\ round(g) = 0 /\ g = <<origin(g), round(g)>>
  BY DEF genesis, origin, round
<1>2. \A x \in Vertices : origin(x) \in Authority /\ x = <<origin(x), round(x)>>
                          /\ round(x) \in Nat /\ round(x) > 0
  <2>1. SUFFICES ASSUME NEW x \in Vertices
                 PROVE  origin(x) \in Authority /\ x = <<origin(x), round(x)>>
                          /\ round(x) \in Nat /\ round(x) > 0
    OBVIOUS
  <2>2. Rules(x)
    BY DagRules
  <2>. QED  BY <2>2, VertexType DEF Rules
<1>. QED  BY <1>1, <1>2 DEF Certificates

\* The last committed round of a state is the latest of its authorities'.
LEMMA CommittedMax ==
    ASSUME NEW committed \in [Authority -> Nat]
    PROVE  LET m == Max({committed[a] : a \in Authority})
           IN  /\ m \in Nat
               /\ \E a \in Authority : committed[a] = m
               /\ \A a \in Authority : committed[a] <= m
<1>1. PICK n \in Nat \ {0} : n = Len(Keys)
  BY CommitteeAssumption
<1>. DEFINE f == [i \in 1..n |-> committed[Keys[i]]]
            C == {committed[a] : a \in Authority}
<1>2. /\ \A a \in Authority : \E i \in 1..n : a = Keys[i]
      /\ \A i \in 1..n : Keys[i] \in Authority
  BY <1>1 DEF Authority
<1>3. f \in [1..n -> Nat]
  BY <1>2
<1>4. {f[i] : i \in 1..n} = C
  BY <1>2
<1>. HIDE DEF f
<1>5. Max(C) \in C /\ \A i \in 1..n : f[i] <= Max(C)
  BY <1>3, <1>4, MaxProperties
<1>6. \A a \in Authority : committed[a] <= Max(C)
  BY <1>2, <1>5 DEF f
<1>. QED  BY <1>5, <1>6

\* The larger of two numbers.
LEMMA MaxOfTwo ==
    ASSUME NEW a \in Nat, NEW b \in Nat
    PROVE  Max({a, b}) = IF a <= b THEN b ELSE a
<1>. DEFINE S == {a, b}
            m == IF a <= b THEN b ELSE a
<1>1. m \in S /\ \A y \in S : m >= y
  OBVIOUS
<1>2. \A x \in S : x \in Nat
  OBVIOUS
<1>3. Max(S) \in S /\ \A y \in S : Max(S) >= y
  <2>. HIDE DEF S, m
  <2>. QED  BY <1>1 DEF Max
<1>4. Max(S) >= m /\ m >= Max(S)
  BY <1>1, <1>3
<1>. QED  BY <1>1, <1>2, <1>3, <1>4

\* No authority is committed later than the last committed round.
LEMMA CommittedBound ==
    ASSUME NEW st, WellState(st)
    PROVE  \A a \in Authority : /\ st.last_committed[a] \in Nat
                                /\ st.last_committed_round \in Nat
                                /\ st.last_committed[a] <= st.last_committed_round
BY CommittedMax DEF WellState, StateType

\* The engine starts in such a state.
LEMMA InitialWellState == WellState(InitialState)
<1>. DEFINE zero == [a \in Authority |-> 0]
<1>1. Max({zero[a] : a \in Authority}) = 0
  <2>1. zero \in [Authority -> Nat] /\ \A a \in Authority : zero[a] = 0
    OBVIOUS
  <2>. HIDE DEF zero
  <2>. QED  BY <2>1, CommittedMax
<1>2. IsFiniteSet(genesis)
  <2>. DEFINE f == [a \in Authority |-> <<a, 0>>]
  <2>1. f \in Surjection(Authority, genesis)
    BY DEF genesis, Surjection
  <2>. QED  BY <2>1, AuthorityFinite, FS_Surjection
<1>3. \A g \in genesis : origin(g) \in Authority
  BY DEF genesis, origin
<1>. QED  BY <1>1, <1>2, <1>3 DEF WellState, StateType, InitialState, Certificates

\* One certificate is committed.
LEMMA UpdateAdvances ==
    ASSUME parents \in Dags, gc_depth \in Nat,
           NEW st, WellState(st), NEW c \in Vertices
    PROVE  Advances(st, update(st, c), {c})
<1>. DEFINE lc == st.last_committed
            committed == Commits(lc, c)
            last == Max({committed[a] : a \in Authority})
            dag == Prune(st.dag, committed, last)
            u == update(st, c)
<1>1. /\ lc \in [Authority -> Nat] /\ st.dag \subseteq Certificates
      /\ st.last_committed_round = Max({lc[a] : a \in Authority})
      /\ IsFiniteSet(st.dag)
      /\ \A g \in genesis \cap st.dag : lc[origin(g)] = 0
  BY DEF WellState, StateType
<1>2. origin(c) \in Authority /\ round(c) \in Nat
  BY VertexType
<1>3. /\ committed \in [Authority -> Nat]
      /\ \A a \in Authority : /\ lc[a] <= committed[a]
                              /\ committed[a] = lc[a] \/ (a = origin(c) /\ committed[a] = round(c))
      /\ round(c) <= committed[origin(c)]
  <2>. DEFINE m == Max({lc[origin(c)], round(c)})
  <2>1. m \in Nat /\ m >= lc[origin(c)] /\ m >= round(c)
        /\ (m = lc[origin(c)] \/ m = round(c))
    BY <1>1, <1>2, MaxOfTwo
  <2>2. committed = [lc EXCEPT ![origin(c)] = m]
    BY DEF Commits
  <2>. HIDE DEF m, committed, lc
  <2>3. \A a \in Authority : committed[a] = IF a = origin(c) THEN m ELSE lc[a]
    BY <1>1, <2>2
  <2>4. committed \in [Authority -> Nat]
    BY <1>1, <2>1, <2>2
  <2>. QED  BY <1>1, <1>2, <2>1, <2>3, <2>4
<1>4. u.last_committed_round = last /\ u.last_committed = committed /\ u.dag = dag
  BY DEF update
<1>. HIDE DEF lc, committed
<1>5. /\ last \in Nat
      /\ \A a \in Authority : committed[a] <= last
  BY <1>3, CommittedMax
<1>6. st.last_committed_round \in Nat /\ st.last_committed_round <= last
  <2>1. PICK a \in Authority : lc[a] = st.last_committed_round
    BY <1>1, CommittedMax
  <2>. QED  BY <1>1, <1>3, <1>5, <2>1
<1>. HIDE DEF last
<1>7. \A v \in st.dag : origin(v) \in Authority /\ round(v) \in Nat
  BY <1>1, CertificateType
<1>8. dag \subseteq st.dag /\ IsFiniteSet(dag)
  BY <1>1, FS_Subset DEF Prune
<1>9. \A v \in dag : committed[origin(v)] <= round(v)
  BY <1>3, <1>7 DEF Prune
<1>10. \A v \in st.dag : v \in dag \/ round(v) < committed[origin(v)] \/ round(v) + gc_depth < last
  BY <1>3, <1>5, <1>7 DEF Prune
<1>11. \A g \in genesis \cap dag : committed[origin(g)] = 0
  <2>1. \A g \in genesis : round(g) = 0
    BY DEF genesis, round
  <2>. QED  BY <1>3, <1>7, <1>8, <1>9, <2>1
<1>. HIDE DEF dag
<1>12. u \in StateType
  BY <1>1, <1>3, <1>4, <1>5, <1>8 DEF StateType, update, committed, last, dag, lc
<1>13. WellState(u)
  BY <1>4, <1>8, <1>11, <1>12 DEF WellState, last
<1>14. \A v \in st.dag : v \in u.dag \/ Past(u, v)
  BY <1>4, <1>10 DEF Past
<1>15. \A a \in Authority :
        /\ st.last_committed[a] <= u.last_committed[a]
        /\ \/ u.last_committed[a] = st.last_committed[a]
           \/ \E b \in {c} : origin(b) = a /\ u.last_committed[a] = round(b)
  BY <1>3, <1>4 DEF lc
<1>16. \A b \in {c} : round(b) <= u.last_committed[origin(b)]
  BY <1>3, <1>4
<1>17. /\ \A v \in u.dag : u.last_committed[origin(v)] <= round(v)
       /\ u.dag \subseteq st.dag
       /\ st.last_committed_round <= u.last_committed_round
  BY <1>4, <1>6, <1>8, <1>9
<1>. HIDE DEF u
<1>18. Advances(st, u, {c})
  BY <1>13, <1>14, <1>15, <1>16, <1>17 DEF Advances
<1>. QED  BY <1>18 DEF u

\* Nothing is committed.
LEMMA AdvancesNot ==
    ASSUME NEW st, WellState(st)
    PROVE  Advances(st, st, {})
<1>1. \A a \in Authority : st.last_committed[a] \in Nat
  BY DEF WellState, StateType
<1>2. st.last_committed_round \in Nat
  BY DEF WellState, StateType
<1>. QED  BY <1>1, <1>2 DEF Advances

\* What is past stays so.
LEMMA PastStays ==
    ASSUME parents \in Dags, gc_depth \in Nat,
           NEW st, WellState(st), NEW u, NEW B, Advances(st, u, B),
           NEW v \in Certificates, Past(st, v)
    PROVE  Past(u, v)
<1>1. WellState(u)
  BY DEF Advances
<1>2. /\ origin(v) \in Authority /\ round(v) \in Nat
      /\ st.last_committed[origin(v)] \in Nat /\ u.last_committed[origin(v)] \in Nat
      /\ st.last_committed_round \in Nat /\ u.last_committed_round \in Nat
  BY <1>1, CertificateType, CommittedBound
<1>3. /\ st.last_committed[origin(v)] <= u.last_committed[origin(v)]
      /\ st.last_committed_round <= u.last_committed_round
  BY <1>2 DEF Advances
<1>. QED  BY <1>2, <1>3 DEF Past

\* One advance after another.
LEMMA AdvancesTwice ==
    ASSUME parents \in Dags, gc_depth \in Nat,
           NEW st, NEW u, NEW w, NEW B \in SUBSET Vertices, NEW C \in SUBSET Vertices,
           WellState(st), Advances(st, u, B), Advances(u, w, C)
    PROVE  Advances(st, w, B \cup C)
<1>1. WellState(u) /\ WellState(w)
  BY DEF Advances
<1>2. \A a \in Authority : /\ st.last_committed[a] \in Nat
                           /\ u.last_committed[a] \in Nat
                           /\ w.last_committed[a] \in Nat
  BY <1>1, CommittedBound
<1>3. /\ st.last_committed_round \in Nat /\ u.last_committed_round \in Nat
      /\ w.last_committed_round \in Nat
      /\ st.dag \subseteq Certificates /\ u.dag \subseteq st.dag /\ w.dag \subseteq u.dag
      /\ st.last_committed_round <= u.last_committed_round
      /\ u.last_committed_round <= w.last_committed_round
  BY <1>1 DEF WellState, StateType, Advances
<1>4. \A v \in Certificates : origin(v) \in Authority /\ round(v) \in Nat
  BY CertificateType
<1>5. \A b \in B \cup C : b \in Certificates
  BY DEF Certificates
<1>6. \A a \in Authority :
        /\ st.last_committed[a] <= w.last_committed[a]
        /\ \/ w.last_committed[a] = st.last_committed[a]
           \/ \E b \in B \cup C : origin(b) = a /\ w.last_committed[a] = round(b)
  <2>1. SUFFICES ASSUME NEW a \in Authority
                 PROVE  /\ st.last_committed[a] <= w.last_committed[a]
                        /\ \/ w.last_committed[a] = st.last_committed[a]
                           \/ \E b \in B \cup C : origin(b) = a /\ w.last_committed[a] = round(b)
    OBVIOUS
  <2>2. /\ st.last_committed[a] <= u.last_committed[a]
        /\ \/ u.last_committed[a] = st.last_committed[a]
           \/ \E b \in B : origin(b) = a /\ u.last_committed[a] = round(b)
    BY DEF Advances
  <2>3. /\ u.last_committed[a] <= w.last_committed[a]
        /\ \/ w.last_committed[a] = u.last_committed[a]
           \/ \E b \in C : origin(b) = a /\ w.last_committed[a] = round(b)
    BY DEF Advances
  <2>. QED  BY <1>2, <2>2, <2>3
<1>7. \A b \in B \cup C : round(b) <= w.last_committed[origin(b)]
  <2>1. \A b \in B : round(b) <= u.last_committed[origin(b)]
                     /\ u.last_committed[origin(b)] <= w.last_committed[origin(b)]
    BY <1>4, <1>5 DEF Advances
  <2>2. \A b \in C : round(b) <= w.last_committed[origin(b)]
    BY DEF Advances
  <2>. QED  BY <1>2, <1>4, <1>5, <2>1, <2>2
<1>8. ASSUME NEW v \in st.dag PROVE v \in w.dag \/ Past(w, v)
  <2>1. v \in u.dag \/ Past(u, v)
    BY <1>8 DEF Advances
  <2>2. v \in Certificates
    BY <1>3, <1>8
  <2>3. Past(u, v) => Past(w, v)
    BY <1>1, <2>2, PastStays
  <2>. QED  BY <2>1, <2>3 DEF Advances
<1>9. ASSUME B \cup C # {}, NEW v \in w.dag
      PROVE  w.last_committed[origin(v)] <= round(v)
  <2>1. CASE C # {}
    BY <1>9, <2>1 DEF Advances
  <2>2. CASE C = {}
    <3>1. v \in u.dag /\ v \in st.dag /\ origin(v) \in Authority
      BY <1>3, <1>4, <1>9
    <3>2. u.last_committed[origin(v)] <= round(v)
      BY <1>9, <2>2, <3>1 DEF Advances
    <3>3. w.last_committed[origin(v)] = u.last_committed[origin(v)]
      BY <2>2, <3>1 DEF Advances
    <3>. QED  BY <3>2, <3>3
  <2>. QED  BY <2>1, <2>2
<1>. DEFINE D == B \cup C
<1>10. w.dag \subseteq st.dag /\ st.last_committed_round <= w.last_committed_round
  BY <1>3
<1>11. \A b \in D : round(b) <= w.last_committed[origin(b)]
  BY <1>7
<1>12. D # {} => \A v \in w.dag : w.last_committed[origin(v)] <= round(v)
  BY <1>9
<1>13. \A v \in st.dag : v \in w.dag \/ Past(w, v)
  BY <1>8
<1>14. Advances(st, w, D)
  <2>. HIDE DEF D
  <2>1. \A a \in Authority :
        /\ st.last_committed[a] <= w.last_committed[a]
        /\ \/ w.last_committed[a] = st.last_committed[a]
           \/ \E b \in D : origin(b) = a /\ w.last_committed[a] = round(b)
    BY <1>6 DEF D
  <2>. QED  BY <1>1, <1>10, <1>11, <1>12, <1>13, <2>1 DEF Advances
<1>. QED  BY <1>14

\* The states in which a batch of certificates is committed, one by one.
IsUpdateRun(st, batch, after) ==
    /\ after[0] = st
    /\ \A i \in 1..Len(batch) : after[i] = update(after[i - 1], batch[i])
    /\ \A i \in 0..Len(batch) : WellState(after[i])
    /\ updates(st, batch) = after[Len(batch)]

\* They follow from each other, and none is ill-formed.
LEMMA UpdateRun ==
    ASSUME parents \in Dags, gc_depth \in Nat,
           NEW st, WellState(st), NEW batch \in Seq(Vertices)
    PROVE  \E after : IsUpdateRun(st, batch, after)
<1>1. PICK n \in Nat : n = Len(batch)
  OBVIOUS
<1>2. \A i \in 1..n : batch[i] \in Vertices
  BY <1>1
<1>. DEFINE States == {u \in StateType : WellState(u)}
            g == [p \in (1..n) \X States |-> update(p[2], batch[p[1]])]
            IsAfter(after) == after = [i \in 0..n |->
                IF i = 0 THEN st ELSE update(after[i - 1], batch[i])]
            after == CHOOSE f : IsAfter(f)
<1>3. updates(st, batch) = after[n]
  BY <1>1 DEF updates
<1>4. \A u \in States : \A i \in 1..n : update(u, batch[i]) \in States
  <2>1. SUFFICES ASSUME NEW u \in States, NEW i \in 1..n
                 PROVE  update(u, batch[i]) \in States
    OBVIOUS
  <2>2. WellState(u) /\ batch[i] \in Vertices
    BY <1>2
  <2>3. Advances(u, update(u, batch[i]), {batch[i]})
    BY <2>2, UpdateAdvances
  <2>4. WellState(update(u, batch[i]))
    BY <2>3 DEF Advances
  <2>. QED  BY <2>4 DEF WellState
<1>5. IsStep(g, n, States) /\ st \in States
  BY <1>4 DEF IsStep, WellState
<1>6. \E f : IsAfter(f)
  <2>. HIDE DEF g, States
  <2>1. PICK f : IsRun(f, n, States, st, g)
    BY <1>5, Recursion
  <2>2. f \in [0..n -> States] /\ f[0] = st
    BY <2>1 DEF IsRun
  <2>3. \A i \in 1..n : f[i - 1] \in States /\ f[i] = g[<<i, f[i - 1]>>]
    BY <2>1, <2>2 DEF IsRun
  <2>4. \A i \in 1..n : f[i] = update(f[i - 1], batch[i])
    <3>1. SUFFICES ASSUME NEW i \in 1..n PROVE f[i] = update(f[i - 1], batch[i])
      OBVIOUS
    <3>2. g[<<i, f[i - 1]>>] = update(f[i - 1], batch[i])
      BY <2>3 DEF g
    <3>. QED  BY <2>3, <3>2
  <2>5. \A i \in 0..n : f[i] = IF i = 0 THEN st ELSE update(f[i - 1], batch[i])
    BY <2>2, <2>4
  <2>6. IsAfter(f)
    BY <2>2, <2>5
  <2>. QED  BY <2>6
<1>7. IsAfter(after)
  BY <1>6
<1>. HIDE DEF after
<1>8. /\ after[0] = st
      /\ \A i \in 1..n : after[i] = update(after[i - 1], batch[i])
  BY <1>7
<1>. DEFINE P == {k \in 0..n : after[k] \in States}
<1>9. 0 \in P
  BY <1>5, <1>8
<1>10. ASSUME NEW k \in 0..(n - 1), k \in P
       PROVE  k + 1 \in P
  <2>1. k + 1 \in 0..n /\ k + 1 \in 1..n /\ (k + 1) - 1 = k
    OBVIOUS
  <2>2. after[k + 1] = update(after[k], batch[k + 1]) /\ after[k] \in States
    BY <1>8, <1>10, <2>1
  <2>. QED  BY <1>4, <2>1, <2>2
<1>. HIDE DEF P
<1>11. \A k \in 0..n : k \in P
  BY <1>9, <1>10, Induction
<1>12. \A k \in 0..n : WellState(after[k])
  BY <1>11 DEF P, States
<1>. QED  BY <1>1, <1>3, <1>8, <1>12 DEF IsUpdateRun

\* A batch of certificates is committed.
LEMMA UpdatesAdvance ==
    ASSUME parents \in Dags, gc_depth \in Nat,
           NEW st, WellState(st), NEW batch \in Seq(Vertices)
    PROVE  Advances(st, updates(st, batch), ToSet(batch))
<1>1. PICK n \in Nat : n = Len(batch)
  OBVIOUS
<1>2. \A i \in 1..n : batch[i] \in Vertices
  BY <1>1
<1>3. PICK after : IsUpdateRun(st, batch, after)
  BY UpdateRun
<1>4. /\ after[0] = st /\ updates(st, batch) = after[n]
      /\ \A i \in 1..n : after[i] = update(after[i - 1], batch[i])
  BY <1>1, <1>3 DEF IsUpdateRun
<1>. DEFINE B(k) == {batch[i] : i \in 1..k}
<1>. DEFINE P == {k \in 0..n : Advances(st, after[k], B(k))}
<1>5. 0 \in P
  <2>1. B(0) = {}
    OBVIOUS
  <2>2. Advances(st, after[0], {})
    BY <1>4, AdvancesNot
  <2>3. Advances(st, after[0], B(0))
    BY <2>1, <2>2, Zenon
  <2>4. 0 \in 0..n
    OBVIOUS
  <2>. QED  BY <2>3, <2>4
<1>6. ASSUME NEW k \in 0..(n - 1), k \in P
       PROVE  k + 1 \in P
  <2>1. k \in 0..n /\ k + 1 \in 0..n /\ k + 1 \in 1..n /\ (k + 1) - 1 = k
    OBVIOUS
  <2>2. Advances(st, after[k], B(k))
    BY <1>6
  <2>3. after[k + 1] = update(after[k], batch[k + 1])
    BY <1>4, <2>1
  <2>4. B(k + 1) = B(k) \cup {batch[k + 1]}
    <3>1. 1..(k + 1) = 1..k \cup {k + 1}
      BY <2>1
    <3>. QED  BY <3>1
  <2>5. B(k) \in SUBSET Vertices /\ {batch[k + 1]} \in SUBSET Vertices
    <3>1. \A i \in 1..k : i \in 1..n
      OBVIOUS
    <3>. QED  BY <1>2, <2>1, <3>1
  <2>. HIDE DEF B
  <2>6. WellState(after[k])
    BY <2>2 DEF Advances
  <2>7. Advances(after[k], after[k + 1], {batch[k + 1]})
    BY <2>1, <2>3, <2>6, <1>2, UpdateAdvances
  <2>8. Advances(st, after[k + 1], B(k + 1))
    BY <2>2, <2>4, <2>5, <2>7, AdvancesTwice
  <2>. QED  BY <2>1, <2>8
<1>. HIDE DEF P
<1>7. \A k \in 0..n : k \in P
  BY <1>5, <1>6, Induction
<1>8. Advances(st, after[n], B(n))
  <2>1. n \in P
    BY <1>7
  <2>. QED  BY <2>1 DEF P
<1>9. B(n) = ToSet(batch)
  BY <1>1 DEF ToSet
<1>. QED  BY <1>4, <1>8, <1>9

-----------------------------------------------------------------------------
\* The members of S in a sequence.
LEMMA AmongMembers ==
    ASSUME NEW T, NEW s \in Seq(T), NEW S
    PROVE  /\ Among(s, S) \in Seq(T)
           /\ ToSet(Among(s, S)) = ToSet(s) \cap S
           /\ IsInjective(s) => IsInjective(Among(s, S))
<1>1. PICK n \in Nat : n = Len(s)
  OBVIOUS
<1>2. DOMAIN s = 1..n /\ \A i \in 1..n : s[i] \in T
  BY <1>1
<1>. DEFINE ss == [i \in 1..n |-> IF s[i] \in S THEN <<s[i]>> ELSE <<>>]
<1>3. Among(s, S) = FlattenSeq(ss)
  BY <1>1 DEF Among
<1>4. \A i \in 1..n : /\ ss[i] \in Seq(T) /\ IsInjective(ss[i])
                      /\ ToSet(ss[i]) = {s[i]} \cap S
  BY <1>2, OneMember, NoMember
<1>5. ss \in Seq(Seq(T)) /\ Len(ss) = n
  <2>1. ss = [i \in 1..n |-> ss[i]]
    OBVIOUS
  <2>. HIDE DEF ss
  <2>2. ss \in [1..n -> Seq(T)]
    BY <1>4, <2>1
  <2>. QED  BY <2>2
<1>. HIDE DEF ss
<1>6. /\ FlattenSeq(ss) \in Seq(T)
      /\ ToSet(FlattenSeq(ss)) = UNION {ToSet(ss[i]) : i \in 1..n}
      /\ (/\ \A i \in 1..n : IsInjective(ss[i])
          /\ \A i, j \in 1..n : i # j => ToSet(ss[i]) \cap ToSet(ss[j]) = {})
            => IsInjective(FlattenSeq(ss))
  BY <1>5, FlattenMembers
<1>7. UNION {ToSet(ss[i]) : i \in 1..n} = ToSet(s) \cap S
  BY <1>2, <1>4 DEF ToSet
<1>8. IsInjective(s) => \A i, j \in 1..n : i # j => ToSet(ss[i]) \cap ToSet(ss[j]) = {}
  <2>1. SUFFICES ASSUME IsInjective(s), NEW i \in 1..n, NEW j \in 1..n, i # j
                 PROVE  ToSet(ss[i]) \cap ToSet(ss[j]) = {}
    OBVIOUS
  <2>2. s[i] # s[j]
    BY <1>2, <2>1 DEF IsInjective
  <2>. QED  BY <1>4, <2>2
<1>. QED  BY <1>3, <1>4, <1>6, <1>7, <1>8

\* The certificates of one round, one per authority.
LEMMA RowMembers ==
    ASSUME NEW r
    PROVE  /\ Row(r) \in Seq(Authority \X {r})
           /\ ToSet(Row(r)) = Authority \X {r}
           /\ IsInjective(Row(r))
<1>1. PICK n \in Nat : n = Len(Keys)
  BY CommitteeAssumption
<1>2. /\ Row(r) = [i \in 1..n |-> <<Keys[i], r>>]
      /\ Authority = {Keys[i] : i \in 1..n}
      /\ \A i, j \in 1..n : Keys[i] = Keys[j] => i = j
  BY <1>1, CommitteeAssumption DEF Row, Authority
<1>. QED  BY <1>2 DEF ToSet, IsInjective

\* What the search pushes on the stack: parents that are neither visited nor
\* committed.
LEMMA FreshMembers ==
    ASSUME parents \in Dags, NEW st, WellState(st), NEW x \in Vertices, NEW visited
    PROVE  /\ Fresh(st, x, visited) \in Seq(Vertices)
           /\ ToSet(Fresh(st, x, visited)) =
                {p \in (parents[x] \cap st.dag) \ visited : st.last_committed[origin(p)] # round(p)}
           /\ IsInjective(Fresh(st, x, visited))
<1>. DEFINE S == {p \in (parents[x] \cap st.dag) \ visited : st.last_committed[origin(p)] # round(p)}
            row == Row(round(x) - 1)
            T == Authority \X {round(x) - 1}
<1>1. \A p \in S : p \in T /\ p \in Vertices
  <2>1. SUFFICES ASSUME NEW p \in S PROVE p \in T /\ p \in Vertices
    OBVIOUS
  <2>2. /\ round(p) = round(x) - 1 /\ origin(p) \in Authority
        /\ p = <<origin(p), round(p)>>
    BY DagRules DEF Rules
  <2>3. p \in Certificates /\ p \in st.dag /\ st.last_committed[origin(p)] # round(p)
    BY DEF WellState, StateType
  <2>4. p \notin genesis
    <3>1. \A g \in genesis : round(g) = 0
      BY DEF genesis, round
    <3>. QED  BY <2>3, <3>1 DEF WellState
  <2>. QED  BY <2>2, <2>3, <2>4 DEF Certificates
<1>2. row \in Seq(T) /\ ToSet(row) = T /\ IsInjective(row)
  BY RowMembers
<1>. HIDE DEF row, T
<1>3. /\ Among(row, S) \in Seq(T)
      /\ ToSet(Among(row, S)) = T \cap S
      /\ IsInjective(Among(row, S))
  BY <1>2, AmongMembers
<1>4. ToSet(Among(row, S)) = S
  BY <1>1, <1>3
<1>5. Among(row, S) \in Seq(Vertices)
  <2>1. S \subseteq Vertices
    BY <1>1
  <2>. HIDE DEF S
  <2>2. PICK t \in Seq(T) : t = Among(row, S)
    BY <1>3
  <2>3. \A i \in 1..Len(t) : t[i] \in Vertices
    BY <1>4, <2>1, <2>2 DEF ToSet
  <2>4. t \in Seq(Vertices)
    BY <2>2, <2>3
  <2>. QED  BY <2>2, <2>4
<1>. QED  BY <1>3, <1>4, <1>5 DEF Fresh, row

\* Sorting by round loses nothing.
LEMMA SortMembers ==
    ASSUME NEW T, NEW s \in Seq(T), NEW last \in Nat, \A v \in ToSet(s) : round(v) \in 1..last
    PROVE  /\ sort_by_round(s, last) \in Seq(T)
           /\ ToSet(sort_by_round(s, last)) = ToSet(s)
           /\ IsInjective(s) => IsInjective(sort_by_round(s, last))
<1>. DEFINE Of(r) == {v \in ToSet(s) : round(v) = r}
            ss == [r \in 1..last |-> Among(s, Of(r))]
<1>1. \A r \in 1..last : /\ ss[r] \in Seq(T)
                         /\ ToSet(ss[r]) = Of(r)
                         /\ IsInjective(s) => IsInjective(ss[r])
  <2>1. SUFFICES ASSUME NEW r \in 1..last
                 PROVE  /\ Among(s, Of(r)) \in Seq(T)
                        /\ ToSet(Among(s, Of(r))) = Of(r)
                        /\ IsInjective(s) => IsInjective(Among(s, Of(r)))
    OBVIOUS
  <2>2. ToSet(s) \cap Of(r) = Of(r)
    OBVIOUS
  <2>. HIDE DEF Of
  <2>. QED  BY <2>2, AmongMembers
<1>2. ss \in Seq(Seq(T)) /\ Len(ss) = last
  BY <1>1
<1>3. sort_by_round(s, last) = FlattenSeq(ss)
  BY DEF sort_by_round
<1>. HIDE DEF ss
<1>4. /\ FlattenSeq(ss) \in Seq(T)
      /\ ToSet(FlattenSeq(ss)) = UNION {ToSet(ss[i]) : i \in 1..last}
      /\ (/\ \A i \in 1..last : IsInjective(ss[i])
          /\ \A i, j \in 1..last : i # j => ToSet(ss[i]) \cap ToSet(ss[j]) = {})
            => IsInjective(FlattenSeq(ss))
  BY <1>2, FlattenMembers
<1>5. UNION {ToSet(ss[i]) : i \in 1..last} = ToSet(s)
  BY <1>1
<1>6. \A i, j \in 1..last : i # j => ToSet(ss[i]) \cap ToSet(ss[j]) = {}
  BY <1>1
<1>. QED  BY <1>1, <1>3, <1>4, <1>5, <1>6

-----------------------------------------------------------------------------
\* A step of the search of order_dag: the top of the stack is visited.
Visit(st, s) ==
    LET x     == Last(s.buffer)
        fresh == Fresh(st, x, s.already_ordered)
    IN  [buffer          |-> Front(s.buffer) \o fresh,
         ordered         |-> Append(s.ordered, x),
         already_ordered |-> s.already_ordered \cup ToSet(fresh)]

\* The parents of x that the search goes on to.
Pending(st, x) == {p \in parents[x] \cap st.dag : st.last_committed[origin(p)] # round(p)}

\* The search visits nothing twice, and nothing it should not.
SearchInv(st, last, s) ==
    /\ s \in [buffer : Seq(Vertices), ordered : Seq(Vertices), already_ordered : SUBSET Vertices]
    /\ ToSet(s.ordered) \cup ToSet(s.buffer) = {last} \cup s.already_ordered
    /\ ToSet(s.ordered) \cap ToSet(s.buffer) = {}
    /\ IsInjective(s.ordered) /\ IsInjective(s.buffer)
    /\ \A v \in s.already_ordered :
        v \in st.dag /\ st.last_committed[origin(v)] # round(v) /\ round(v) < round(last)
    /\ \A x \in ToSet(s.ordered) : Pending(st, x) \subseteq s.already_ordered

\* A visit keeps this, and orders one certificate more.
LEMMA VisitKeeps ==
    ASSUME parents \in Dags, NEW st, WellState(st), NEW last \in Vertices,
           NEW s, SearchInv(st, last, s), s.buffer # <<>>
    PROVE  /\ SearchInv(st, last, Visit(st, s))
           /\ Len(Visit(st, s).ordered) = Len(s.ordered) + 1
           /\ ToSet(s.ordered) \cup {Last(s.buffer)} = ToSet(Visit(st, s).ordered)
<1>. DEFINE x == Last(s.buffer)
            front == Front(s.buffer)
            fresh == Fresh(st, x, s.already_ordered)
            new == (Pending(st, x)) \ s.already_ordered
            t == Visit(st, s)
<1>1. /\ s.buffer \in Seq(Vertices) /\ s.ordered \in Seq(Vertices)
      /\ s.already_ordered \in SUBSET Vertices
  BY DEF SearchInv
<1>2. /\ front \in Seq(Vertices) /\ x \in Vertices
      /\ ToSet(s.buffer) = ToSet(front) \cup {x}
      /\ IsInjective(front) /\ x \notin ToSet(front)
  BY <1>1, FrontAndLast DEF SearchInv
<1>3. fresh \in Seq(Vertices) /\ ToSet(fresh) = new /\ IsInjective(fresh)
  <2>. HIDE DEF x
  <2>. QED  BY <1>2, FreshMembers DEF Pending
<1>4. /\ t.buffer = front \o fresh /\ t.ordered = Append(s.ordered, x)
      /\ t.already_ordered = s.already_ordered \cup ToSet(fresh)
      /\ t = [buffer |-> front \o fresh, ordered |-> Append(s.ordered, x),
              already_ordered |-> s.already_ordered \cup ToSet(fresh)]
  BY DEF Visit
<1>. HIDE DEF t, front, fresh, x
<1>5. \A p \in new : /\ p \in Vertices /\ p \in st.dag /\ p \notin s.already_ordered
                     /\ st.last_committed[origin(p)] # round(p)
                     /\ round(p) < round(x)
  <2>1. new \subseteq Vertices
    BY <1>3 DEF ToSet
  <2>2. \A p \in parents[x] : round(p) = round(x) - 1
    BY <1>2, DagRules DEF Rules
  <2>3. round(x) \in Nat
    BY <1>2, VertexType
  <2>. QED  BY <2>1, <2>2, <2>3 DEF Pending
<1>6. round(x) <= round(last) /\ round(x) \in Nat /\ round(last) \in Nat
  <2>1. x \in {last} \cup s.already_ordered
    BY <1>2 DEF SearchInv
  <2>2. \A v \in Vertices : round(v) \in Nat
    BY VertexType
  <2>. QED  BY <1>1, <1>2, <2>1, <2>2 DEF SearchInv
<1>7. \A p \in new : p # last /\ round(p) < round(last)
  <2>1. \A p \in new : round(p) \in Nat
    BY <1>5, VertexType
  <2>. QED  BY <1>5, <1>6, <2>1
<1>8. new \cap ({last} \cup s.already_ordered) = {}
  BY <1>5, <1>7
<1>9. ToSet(front) \cup {x} \cup ToSet(s.ordered) = {last} \cup s.already_ordered
  BY <1>2 DEF SearchInv
<1>. HIDE DEF new
<1>10. /\ t.buffer \in Seq(Vertices)
       /\ ToSet(t.buffer) = ToSet(front) \cup new
       /\ IsInjective(t.buffer)
  <2>1. ToSet(front) \cap ToSet(fresh) = {}
    BY <1>3, <1>8, <1>9
  <2>. QED  BY <1>2, <1>3, <1>4, <2>1, ConcatMembers
<1>11. /\ t.ordered \in Seq(Vertices) /\ Len(t.ordered) = Len(s.ordered) + 1
       /\ ToSet(t.ordered) = ToSet(s.ordered) \cup {x}
       /\ IsInjective(t.ordered)
  <2>1. t.ordered = s.ordered \o <<x>>
    BY <1>1, <1>2, <1>4
  <2>2. <<x>> \in Seq(Vertices) /\ ToSet(<<x>>) = {x} /\ IsInjective(<<x>>)
    BY <1>2, OneMember
  <2>3. ToSet(s.ordered) \cap {x} = {}
    BY <1>2 DEF SearchInv
  <2>4. Len(t.ordered) = Len(s.ordered) + 1
    BY <1>1, <1>2, <1>4
  <2>5. IsInjective(s.ordered)
    BY DEF SearchInv
  <2>6. PICK o \in Seq(Vertices), y \in Seq(Vertices) : o = s.ordered /\ y = <<x>>
    BY <1>1, <2>2
  <2>7. /\ o \o y \in Seq(Vertices) /\ IsInjective(o \o y)
        /\ ToSet(o \o y) = ToSet(o) \cup ToSet(y)
    BY <2>2, <2>3, <2>5, <2>6, ConcatMembers
  <2>. QED  BY <2>1, <2>2, <2>4, <2>6, <2>7
<1>12. t.already_ordered = s.already_ordered \cup new /\ t.already_ordered \in SUBSET Vertices
  BY <1>1, <1>3, <1>4, <1>5
<1>13. t \in [buffer : Seq(Vertices), ordered : Seq(Vertices), already_ordered : SUBSET Vertices]
  BY <1>4, <1>10, <1>11, <1>12
<1>14. ToSet(t.ordered) \cup ToSet(t.buffer) = {last} \cup t.already_ordered
  BY <1>9, <1>10, <1>11, <1>12
<1>15. ToSet(t.ordered) \cap ToSet(t.buffer) = {}
  <2>1. ToSet(s.ordered) \cap ToSet(front) = {} /\ x \notin ToSet(front)
    BY <1>2 DEF SearchInv
  <2>. QED  BY <1>8, <1>9, <1>10, <1>11, <2>1
<1>16. \A v \in t.already_ordered :
        v \in st.dag /\ st.last_committed[origin(v)] # round(v) /\ round(v) < round(last)
  BY <1>5, <1>7, <1>12 DEF SearchInv
<1>17. \A y \in ToSet(t.ordered) : Pending(st, y) \subseteq t.already_ordered
  BY <1>11, <1>12 DEF SearchInv, new
<1>18. SearchInv(st, last, t)
  BY <1>10, <1>11, <1>13, <1>14, <1>15, <1>16, <1>17 DEF SearchInv
<1>. QED  BY <1>11, <1>18 DEF t, x

\* The search of order_dag from a leader ends: it has visited the leader and
\* every certificate that is reached from it through pending parents.
SearchEnd(st, last, s) == SearchInv(st, last, s) /\ s.buffer = <<>>

Search(st, last) ==
    CHOOSE f : f = [i \in 0..Cardinality(st.dag) |->
        IF i = 0
          THEN [buffer |-> <<last>>, ordered |-> <<>>, already_ordered |-> {}]
          ELSE LET s == f[i - 1] IN IF s.buffer = <<>> THEN s ELSE Visit(st, s)]

\* order_dag drops what is old from what the search found and sorts the rest.
LEMMA OrderDagUnfolds ==
    ASSUME NEW st, NEW last
    PROVE  order_dag(st, last) =
             sort_by_round(Among(Search(st, last)[Cardinality(st.dag)].ordered,
                                 {v \in Vertices : round(v) + gc_depth >= st.last_committed_round}),
                           round(last))
BY DEF order_dag, Search, Visit

SearchStart(last) == [buffer |-> <<last>>, ordered |-> <<>>, already_ordered |-> {}]

SearchStep(st, s) == IF s.buffer = <<>> THEN s ELSE Visit(st, s)

\* The search, step by step.
IsSearchRun(st, last, n, f) ==
    /\ f[0] = SearchStart(last)
    /\ \A i \in 1..n : f[i] = SearchStep(st, f[i - 1])
    /\ \A i \in 0..n : SearchInv(st, last, f[i]) /\ (f[i].buffer = <<>> \/ Len(f[i].ordered) = i)

\* The search is well defined and comes to its end.
LEMMA SearchRuns ==
    ASSUME parents \in Dags, NEW st, WellState(st), NEW last \in Vertices, last \in st.dag
    PROVE  /\ Cardinality(st.dag) \in Nat
           /\ IsSearchRun(st, last, Cardinality(st.dag), Search(st, last))
<1>1. PICK n \in Nat : n = Cardinality(st.dag)
  BY FS_CardinalityType DEF WellState
<1>. DEFINE s0 == [buffer |-> <<last>>, ordered |-> <<>>, already_ordered |-> {}]
            Type == [buffer : Seq(Vertices), ordered : Seq(Vertices), already_ordered : SUBSET Vertices]
            States == {s \in Type : SearchInv(st, last, s)}
            Step(s) == IF s.buffer = <<>> THEN s ELSE Visit(st, s)
            g == [p \in (1..n) \X States |-> Step(p[2])]
            IsSearch(f) == f = [i \in 0..n |-> IF i = 0 THEN s0 ELSE Step(f[i - 1])]
            F == CHOOSE f : IsSearch(f)
<1>2. Search(st, last) = F
  BY <1>1 DEF Search
<1>3. SearchInv(st, last, s0)
  BY OneMember, NoMember DEF SearchInv
<1>4. s0 \in States
  BY <1>3 DEF SearchInv
<1>5. \A s \in States : Step(s) \in States
  <2>1. SUFFICES ASSUME NEW s \in States PROVE Step(s) \in States
    OBVIOUS
  <2>2. SearchInv(st, last, s)
    OBVIOUS
  <2>3. CASE s.buffer = <<>>
    BY <2>3
  <2>4. CASE s.buffer # <<>>
    <3>1. SearchInv(st, last, Visit(st, s))
      BY <2>2, <2>4, VisitKeeps
    <3>. QED  BY <2>4, <3>1 DEF SearchInv
  <2>. QED  BY <2>3, <2>4
<1>. HIDE DEF s0, States
<1>6. IsStep(g, n, States)
  BY <1>5 DEF IsStep
<1>. HIDE DEF Step
<1>7. \E f : IsSearch(f)
  <2>. HIDE DEF g
  <2>1. PICK f : IsRun(f, n, States, s0, g)
    BY <1>4, <1>6, Recursion
  <2>2. f \in [0..n -> States] /\ f[0] = s0
    BY <2>1 DEF IsRun
  <2>3. \A i \in 1..n : f[i - 1] \in States /\ f[i] = g[<<i, f[i - 1]>>]
    BY <2>1, <2>2 DEF IsRun
  <2>4. \A i \in 1..n : f[i] = Step(f[i - 1])
    <3>1. SUFFICES ASSUME NEW i \in 1..n PROVE f[i] = Step(f[i - 1])
      OBVIOUS
    <3>2. g[<<i, f[i - 1]>>] = Step(f[i - 1])
      BY <2>3 DEF g
    <3>. QED  BY <2>3, <3>2
  <2>5. \A i \in 0..n : f[i] = IF i = 0 THEN s0 ELSE Step(f[i - 1])
    BY <2>2, <2>4
  <2>6. IsSearch(f)
    BY <2>2, <2>5
  <2>. QED  BY <2>6
<1>8. IsSearch(F)
  BY <1>7
<1>. HIDE DEF F
<1>9. F[0] = s0 /\ \A i \in 1..n : F[i] = Step(F[i - 1])
  BY <1>8
<1>. DEFINE P == {k \in 0..n : /\ F[k] \in States
                               /\ F[k].buffer = <<>> \/ Len(F[k].ordered) = k}
<1>10. 0 \in P
  <2>1. Len(s0.ordered) = 0
    BY DEF s0
  <2>. QED  BY <1>4, <1>9, <2>1
<1>11. ASSUME NEW k \in 0..(n - 1), k \in P
       PROVE  k + 1 \in P
  <2>1. k + 1 \in 0..n /\ k + 1 \in 1..n /\ (k + 1) - 1 = k
    OBVIOUS
  <2>. DEFINE s == F[k]
  <2>2. s \in States /\ (s.buffer = <<>> \/ Len(s.ordered) = k)
    BY <1>11
  <2>3. F[k + 1] = Step(s)
    BY <1>9, <2>1
  <2>. HIDE DEF s
  <2>4. Step(s) \in States
    BY <1>5, <2>2
  <2>5. Step(s).buffer = <<>> \/ Len(Step(s).ordered) = k + 1
    <3>1. CASE s.buffer = <<>>
      BY <3>1 DEF Step
    <3>2. CASE s.buffer # <<>>
      <4>1. SearchInv(st, last, s)
        BY <2>2 DEF States
      <4>2. Len(Visit(st, s).ordered) = Len(s.ordered) + 1
        BY <3>2, <4>1, VisitKeeps
      <4>. QED  BY <2>2, <3>2, <4>2 DEF Step
    <3>. QED  BY <3>1, <3>2
  <2>. QED  BY <2>1, <2>3, <2>4, <2>5
<1>. HIDE DEF P
<1>12. \A k \in 0..n : k \in P
  BY <1>10, <1>11, Induction
<1>13. \A k \in 0..n : SearchInv(st, last, F[k]) /\ (F[k].buffer = <<>> \/ Len(F[k].ordered) = k)
  BY <1>12 DEF P, States
<1>. QED  BY <1>1, <1>2, <1>9, <1>13 DEF IsSearchRun, SearchStart, s0, SearchStep, Step

\* At its end it has found what it should.
LEMMA SearchEnds ==
    ASSUME parents \in Dags, NEW st, WellState(st), NEW last \in Vertices, last \in st.dag
    PROVE  SearchEnd(st, last, Search(st, last)[Cardinality(st.dag)])
<1>1. PICK n \in Nat : n = Cardinality(st.dag)
  BY FS_CardinalityType DEF WellState
<1>. DEFINE s == Search(st, last)[n]
<1>2. SearchInv(st, last, s) /\ (s.buffer = <<>> \/ Len(s.ordered) = n)
  BY <1>1, SearchRuns DEF IsSearchRun
<1>. HIDE DEF s
<1>3. s.buffer = <<>>
  <2>1. SUFFICES ASSUME s.buffer # <<>> PROVE FALSE
    OBVIOUS
  <2>2. /\ s.ordered \in Seq(Vertices) /\ s.buffer \in Seq(Vertices)
        /\ IsInjective(s.ordered) /\ Len(s.ordered) = n
    BY <1>2, <2>1 DEF SearchInv
  <2>3. Cardinality(ToSet(s.ordered)) = n
    BY <2>2, InjectiveLength
  <2>4. Last(s.buffer) \in ToSet(s.buffer)
    BY <2>1, <2>2, FrontAndLast
  <2>5. ToSet(s.ordered) \cup ToSet(s.buffer) \subseteq st.dag
    BY <1>2 DEF SearchInv
  <2>6. Last(s.buffer) \notin ToSet(s.ordered)
    BY <1>2, <2>4 DEF SearchInv
  <2>. DEFINE A == ToSet(s.ordered)
              B == A \cup {Last(s.buffer)}
  <2>7. A \subseteq st.dag /\ B \subseteq st.dag
    BY <2>4, <2>5
  <2>8. IsFiniteSet(st.dag)
    BY DEF WellState
  <2>. HIDE DEF A
  <2>9. IsFiniteSet(A)
    BY <2>7, <2>8, FS_Subset
  <2>10. Cardinality(B) = n + 1
    BY <2>3, <2>6, <2>9, FS_AddElement DEF A
  <2>. HIDE DEF B
  <2>11. Cardinality(B) <= n
    BY <1>1, <2>7, <2>8, FS_Subset
  <2>. QED  BY <2>10, <2>11
<1>. QED  BY <1>1, <1>2, <1>3 DEF SearchEnd, s

\* The certificates that a leader brings along.
IsSubDag(st, last, B) ==
    /\ last \in B
    /\ \A v \in B :
        /\ v \in st.dag
        /\ v = last \/ (st.last_committed[origin(v)] # round(v) /\ round(v) < round(last))
    /\ \A x \in B : \A p \in Pending(st, x) :
        p \in B \/ round(p) + gc_depth < st.last_committed_round

\* What order_dag returns: the sub-dag of the leader, nothing in it twice.
LEMMA OrderDag ==
    ASSUME parents \in Dags, gc_depth \in Nat, NEW st, WellState(st),
           NEW last \in Vertices, last \in st.dag, round(last) > st.last_committed_round
    PROVE  /\ order_dag(st, last) \in Seq(Vertices)
           /\ IsInjective(order_dag(st, last))
           /\ IsSubDag(st, last, ToSet(order_dag(st, last)))
<1>. DEFINE s == Search(st, last)[Cardinality(st.dag)]
            o == s.ordered
            Recent == {v \in Vertices : round(v) + gc_depth >= st.last_committed_round}
            recent == Among(o, Recent)
<1>1. SearchInv(st, last, s) /\ s.buffer = <<>>
  BY SearchEnds DEF SearchEnd
<1>2. /\ o \in Seq(Vertices) /\ IsInjective(o)
      /\ ToSet(o) = {last} \cup s.already_ordered
      /\ \A v \in s.already_ordered :
            v \in st.dag /\ st.last_committed[origin(v)] # round(v) /\ round(v) < round(last)
      /\ \A x \in ToSet(o) : Pending(st, x) \subseteq s.already_ordered
  <2>1. ToSet(s.buffer) = {}
    BY <1>1, NoMember
  <2>. QED  BY <1>1, <2>1 DEF SearchInv
<1>. HIDE DEF s, o
<1>3. /\ recent \in Seq(Vertices) /\ IsInjective(recent)
      /\ ToSet(recent) = ToSet(o) \cap Recent
  <2>. HIDE DEF Recent
  <2>. QED  BY <1>2, AmongMembers
<1>4. \A v \in Vertices : round(v) \in Nat /\ round(v) > 0
  BY DagRules DEF Rules
<1>5. \A v \in ToSet(o) : v \in Vertices
  BY <1>2 DEF ToSet
<1>6. st.last_committed_round \in Nat
  BY DEF WellState, StateType
<1>7. \A v \in ToSet(recent) : round(v) \in 1..round(last)
  <2>1. SUFFICES ASSUME NEW v \in ToSet(recent) PROVE round(v) \in 1..round(last)
    OBVIOUS
  <2>2. v \in Vertices /\ (v = last \/ round(v) < round(last))
    BY <1>2, <1>3, <1>5
  <2>. QED  BY <1>4, <2>2
<1>. HIDE DEF recent
<1>8. /\ sort_by_round(recent, round(last)) \in Seq(Vertices)
      /\ ToSet(sort_by_round(recent, round(last))) = ToSet(recent)
      /\ IsInjective(sort_by_round(recent, round(last)))
  <2>1. round(last) \in Nat
    BY <1>4
  <2>. QED  BY <1>3, <1>7, <2>1, SortMembers
<1>9. order_dag(st, last) = sort_by_round(recent, round(last))
  BY OrderDagUnfolds DEF recent, o, s
<1>10. last \in ToSet(recent)
  BY <1>2, <1>3, <1>4, <1>6
<1>11. \A v \in ToSet(recent) :
         /\ v \in st.dag
         /\ v = last \/ (st.last_committed[origin(v)] # round(v) /\ round(v) < round(last))
  BY <1>2, <1>3
<1>12. ASSUME NEW x \in ToSet(recent), NEW p \in Pending(st, x)
       PROVE  p \in ToSet(recent) \/ round(p) + gc_depth < st.last_committed_round
  <2>1. p \in ToSet(o) /\ p \in Vertices
    BY <1>2, <1>3, <1>5, <1>12
  <2>. QED  BY <1>3, <1>4, <1>6, <2>1
<1>. QED  BY <1>8, <1>9, <1>10, <1>11, <1>12 DEF IsSubDag

-----------------------------------------------------------------------------
\* The next leader of C above v.
NextAbove(C, x, v) ==
    x \in C /\ round(x) > round(v) /\ \A y \in C : round(y) <= round(v) \/ round(y) >= round(x)

\* From round r on, C has the leaders that the next leader above them in C links.
Decides(dag, r, C) ==
    \A v \in Vertices : v = leader_of(round(v)) /\ round(v) >= r =>
        \A x : NextAbove(C, x, v) => (v \in C <=> v \in dag /\ linked(dag, x, v))

\* One round further down.
LEMMA DecidesStep ==
    ASSUME parents \in Dags, NEW dag, NEW r \in Nat, NEW C \in SUBSET Vertices,
           \A x \in C : x = leader_of(round(x)) /\ round(x) > r,
           NEW h \in C, \A x \in C : round(h) <= round(x),
           Decides(dag, r + 1, C),
           NEW E, \A x : x \in E <=> \/ x \in C
                                     \/ x = leader_of(r) /\ x \in dag /\ linked(dag, h, x)
    PROVE  Decides(dag, r, E)
<1>1. SUFFICES ASSUME NEW v \in Vertices, v = leader_of(round(v)), round(v) >= r,
                      NEW x, NextAbove(E, x, v)
               PROVE  v \in E <=> v \in dag /\ linked(dag, x, v)
  BY DEF Decides
<1>2. \A y \in Vertices : round(y) \in Nat
  BY VertexType
<1>3. round(leader_of(r)) = r
  BY DEF round, leader_of
<1>4. x \in C /\ NextAbove(C, x, v)
  BY <1>1, <1>2, <1>3 DEF NextAbove
<1>5. CASE round(v) = r
  <2>1. v = leader_of(r) /\ v \notin C
    BY <1>1, <1>5
  <2>2. x = h
    <3>1. h \in C /\ h \in E
      OBVIOUS
    <3>2. round(h) = round(x)
      BY <1>2, <1>4, <1>5, <3>1 DEF NextAbove
    <3>. QED  BY <1>4, <3>1, <3>2
  <2>. QED  BY <2>1, <2>2
<1>6. CASE round(v) # r
  <2>1. round(v) >= r + 1
    BY <1>1, <1>2, <1>6
  <2>2. v \in E <=> v \in C
    BY <1>3, <1>6
  <2>. QED  BY <1>1, <1>4, <2>1, <2>2 DEF Decides
<1>. QED  BY <1>5, <1>6

\* The leaders that order_leaders has found down to round r.
IsChain(st, last, r, c) ==
    /\ c \in Seq(Vertices) /\ Len(c) > 0 /\ c[Len(c)] = last
    /\ \A i \in 1..Len(c) :
        /\ c[i] \in st.dag /\ c[i] = leader_of(round(c[i]))
        /\ round(c[i]) >= r
    /\ \A i, j \in 1..Len(c) : i < j => round(c[i]) < round(c[j])
    /\ \A q \in r..(round(last) - 1) :
        /\ leader_of(q) \in st.dag
        /\ \A w \in ToSet(c) : round(w) > q => linked(st.dag, w, leader_of(q))
        => leader_of(q) \in ToSet(c)
    /\ Decides(st.dag, r, ToSet(c))

\* The leader of round r goes before the later ones if the oldest of them links it.
Before(st, r, later) ==
    IF leader_of(r) \in st.dag /\ linked(st.dag, Head(later), leader_of(r))
      THEN <<leader_of(r)>> \o later
      ELSE later

\* The chain with the leader of one more round.
LEMMA ChainStep ==
    ASSUME parents \in Dags, NEW st, WellState(st), NEW last \in Vertices,
           NEW r \in Nat, 0 < r, r < round(last),
           NEW c, IsChain(st, last, r + 1, c)
    PROVE  IsChain(st, last, r, Before(st, r, c))
<1>1. PICK n \in Nat : n = Len(c) /\ n > 0
  BY DEF IsChain
<1>2. /\ c \in Seq(Vertices) /\ c[n] = last /\ DOMAIN c = 1..n
      /\ \A i \in 1..n : /\ c[i] \in Vertices /\ c[i] \in st.dag /\ c[i] = leader_of(round(c[i]))
                         /\ round(c[i]) >= r + 1 /\ round(c[i]) \in Nat
      /\ \A i, j \in 1..n : i < j => round(c[i]) < round(c[j])
      /\ Head(c) = c[1] /\ 1 \in 1..n
  <2>1. \A i \in 1..n : c[i] \in Vertices
    BY <1>1 DEF IsChain
  <2>2. \A v \in Vertices : round(v) \in Nat
    BY VertexType
  <2>. QED  BY <1>1, <2>1, <2>2 DEF IsChain
<1>3. round(leader_of(r)) = r /\ round(last) \in Nat
  BY VertexType DEF round, leader_of
<1>4. \A q \in r..(round(last) - 1) : q = r \/ q \in (r + 1)..(round(last) - 1)
  BY <1>3
<1>5. \A E : (\A x : x \in E <=> \/ x \in ToSet(c)
                                 \/ /\ x = leader_of(r) /\ x \in st.dag
                                    /\ linked(st.dag, Head(c), x))
              => Decides(st.dag, r, E)
  <2>1. PICK C \in SUBSET Vertices : C = ToSet(c)
    BY <1>2 DEF ToSet
  <2>2. \A x \in C : \E i \in 1..n : x = c[i]
    BY <1>2, <2>1 DEF ToSet
  <2>3. \A x \in C : x = leader_of(round(x)) /\ round(x) > r
    BY <1>2, <2>2
  <2>4. PICK h \in C : h = Head(c)
    BY <1>2, <2>1 DEF ToSet
  <2>5. \A i \in 1..n : round(c[1]) <= round(c[i])
    <3>1. \A i \in 1..n : i = 1 \/ 1 < i
      OBVIOUS
    <3>. QED  BY <1>2, <3>1
  <2>6. \A x \in C : round(h) <= round(x)
    BY <1>2, <2>2, <2>4, <2>5
  <2>7. Decides(st.dag, r + 1, C)
    BY <2>1 DEF IsChain
  <2>. QED  BY <2>1, <2>3, <2>4, <2>6, <2>7, DecidesStep
<1>6. CASE leader_of(r) \in st.dag /\ linked(st.dag, Head(c), leader_of(r))
  <2>. DEFINE l == leader_of(r)
              d == <<l>> \o c
  <2>1. l \in Vertices
    <3>1. l \in Certificates
      BY <1>6 DEF WellState, StateType
    <3>. QED  BY <1>3, <3>1, CertificateType
  <2>2. /\ d \in Seq(Vertices) /\ Len(d) = n + 1
        /\ d[1] = l
        /\ \A i \in 2..(n + 1) : d[i] = c[i - 1] /\ i - 1 \in 1..n
    BY <1>1, <1>2, <2>1
  <2>3. ToSet(d) = {l} \cup ToSet(c)
    <3>1. PICK e \in Seq(Vertices) : e = <<l>> /\ ToSet(e) = {l}
      BY <2>1, OneMember
    <3>2. ToSet(e \o c) = ToSet(e) \cup ToSet(c)
      BY <1>2, ConcatMembers
    <3>. QED  BY <3>1, <3>2
  <2>. HIDE DEF d
  <2>4. d[n + 1] = last
    <3>1. n + 1 \in 2..(n + 1) /\ (n + 1) - 1 = n
      BY <1>1
    <3>. QED  BY <1>2, <2>2, <3>1
  <2>5. ASSUME NEW i \in 1..(n + 1)
        PROVE  d[i] \in st.dag /\ d[i] = leader_of(round(d[i])) /\ round(d[i]) >= r
    <3>1. CASE i = 1
      BY <1>3, <1>6, <2>2, <3>1
    <3>2. CASE i # 1
      <4>1. i \in 2..(n + 1)
        BY <3>2
      <4>2. d[i] = c[i - 1] /\ i - 1 \in 1..n
        BY <2>2, <4>1
      <4>. QED  BY <1>2, <4>2
    <3>. QED  BY <3>1, <3>2
  <2>6. ASSUME NEW i \in 1..(n + 1), NEW j \in 1..(n + 1), i < j
        PROVE  round(d[i]) < round(d[j])
    <3>1. j \in 2..(n + 1) /\ d[j] = c[j - 1] /\ j - 1 \in 1..n
      <4>1. j \in 2..(n + 1)
        BY <2>6
      <4>. QED  BY <2>2, <4>1
    <3>2. CASE i = 1
      BY <1>2, <1>3, <2>2, <3>1, <3>2
    <3>3. CASE i # 1
      <4>1. i \in 2..(n + 1)
        BY <3>3
      <4>2. d[i] = c[i - 1] /\ i - 1 \in 1..n /\ i - 1 < j - 1
        BY <2>2, <2>6, <4>1
      <4>. QED  BY <1>2, <3>1, <4>2
    <3>. QED  BY <3>2, <3>3
  <2>7. ASSUME NEW q \in r..(round(last) - 1), leader_of(q) \in st.dag,
               \A w \in ToSet(d) : round(w) > q => linked(st.dag, w, leader_of(q))
        PROVE  leader_of(q) \in ToSet(d)
    <3>1. CASE q = r
      BY <2>3, <3>1
    <3>2. CASE q \in (r + 1)..(round(last) - 1)
      BY <2>3, <2>7, <3>2 DEF IsChain
    <3>. QED  BY <1>4, <3>1, <3>2
  <2>8. Decides(st.dag, r, ToSet(d))
    BY <1>6, <1>5, <2>3
  <2>9. IsChain(st, last, r, d)
    BY <1>1, <2>2, <2>4, <2>5, <2>6, <2>7, <2>8 DEF IsChain
  <2>. QED  BY <1>6, <2>9 DEF Before, d
<1>7. CASE ~(leader_of(r) \in st.dag /\ linked(st.dag, Head(c), leader_of(r)))
  <2>1. Head(c) \in ToSet(c) /\ round(Head(c)) > r
    BY <1>2 DEF ToSet
  <2>2. ASSUME NEW q \in r..(round(last) - 1), leader_of(q) \in st.dag,
               \A w \in ToSet(c) : round(w) > q => linked(st.dag, w, leader_of(q))
        PROVE  leader_of(q) \in ToSet(c)
    <3>1. CASE q = r
      BY <1>7, <2>1, <2>2, <3>1
    <3>2. CASE q \in (r + 1)..(round(last) - 1)
      BY <2>2, <3>2 DEF IsChain
    <3>. QED  BY <1>4, <3>1, <3>2
  <2>3. \A i \in 1..n : round(c[i]) >= r
    BY <1>2
  <2>4. Decides(st.dag, r, ToSet(c))
    BY <1>7, <1>5
  <2>5. IsChain(st, last, r, c)
    BY <1>1, <1>2, <2>2, <2>3, <2>4 DEF IsChain
  <2>. QED  BY <1>7, <2>5 DEF Before
<1>. QED  BY <1>6, <1>7

\* What order_leaders returns: a chain of leaders above the last committed round.
LEMMA OrderLeaders ==
    ASSUME parents \in Dags, NEW st, WellState(st), NEW last \in Vertices,
           last \in st.dag, last = leader_of(round(last)),
           round(last) > st.last_committed_round
    PROVE  IsChain(st, last, st.last_committed_round + 1, order_leaders(st, last))
<1>1. PICK hi \in Nat : hi = round(last)
  BY VertexType
<1>2. PICK lo \in Nat : lo = st.last_committed_round + 1 /\ 0 < lo /\ lo <= hi
  <2>1. st.last_committed_round \in Nat
    BY DEF WellState, StateType
  <2>2. st.last_committed_round + 1 \in Nat /\ st.last_committed_round + 1 <= hi
    BY <1>1, <2>1
  <2>. QED  BY <2>1, <2>2
<1>3. PICK n \in Nat : n = hi - lo
  BY <1>2
<1>. DEFINE IsLeaders(f) == f = [r \in lo..hi |-> IF r = hi THEN <<last>> ELSE Before(st, r, f[r + 1])]
            chain == CHOOSE f : IsLeaders(f)
            g == [p \in (1..n) \X Seq(Vertices) |-> Before(st, hi - p[1], p[2])]
<1>4. order_leaders(st, last) = chain[lo]
  BY <1>1, <1>2 DEF order_leaders, Before
<1>5. \A i \in 1..n : hi - i \in Nat /\ 0 < hi - i /\ hi - i < hi
  BY <1>2, <1>3
<1>6. \A i \in 1..n : \A c \in Seq(Vertices) : Before(st, hi - i, c) \in Seq(Vertices)
  <2>1. SUFFICES ASSUME NEW i \in 1..n, NEW c \in Seq(Vertices),
                        leader_of(hi - i) \in st.dag
                 PROVE  <<leader_of(hi - i)>> \o c \in Seq(Vertices)
    BY DEF Before
  <2>2. leader_of(hi - i) \in Certificates /\ round(leader_of(hi - i)) = hi - i
    BY <2>1 DEF WellState, StateType, round, leader_of
  <2>3. leader_of(hi - i) \in Vertices
    BY <1>5, <2>2, CertificateType
  <2>. QED  BY <2>3
<1>7. IsStep(g, n, Seq(Vertices))
  BY <1>6 DEF IsStep
<1>8. \E f : IsLeaders(f)
  <2>1. <<last>> \in Seq(Vertices)
    OBVIOUS
  <2>. HIDE DEF g
  <2>2. PICK f : IsRun(f, n, Seq(Vertices), <<last>>, g)
    BY <1>7, <2>1, Recursion
  <2>3. f \in [0..n -> Seq(Vertices)] /\ f[0] = <<last>>
    BY <2>2 DEF IsRun
  <2>4. \A i \in 1..n : f[i - 1] \in Seq(Vertices) /\ f[i] = g[<<i, f[i - 1]>>]
    BY <2>2, <2>3 DEF IsRun
  <2>5. \A i \in 1..n : f[i] = Before(st, hi - i, f[i - 1])
    <3>1. SUFFICES ASSUME NEW i \in 1..n PROVE f[i] = Before(st, hi - i, f[i - 1])
      OBVIOUS
    <3>2. g[<<i, f[i - 1]>>] = Before(st, hi - i, f[i - 1])
      BY <2>4 DEF g
    <3>. QED  BY <2>4, <3>2
  <2>. DEFINE h == [r \in lo..hi |-> f[hi - r]]
  <2>6. ASSUME NEW r \in lo..hi
        PROVE  h[r] = IF r = hi THEN <<last>> ELSE Before(st, r, h[r + 1])
    <3>1. CASE r = hi
      <4>1. hi - r = 0 /\ h[r] = f[hi - r]
        BY <3>1
      <4>. QED  BY <2>3, <3>1, <4>1
    <3>2. CASE r # hi
      <4>1. /\ hi - r \in 1..n /\ hi - (hi - r) = r /\ (hi - r) - 1 = hi - (r + 1)
            /\ r + 1 \in lo..hi /\ h[r] = f[hi - r] /\ h[r + 1] = f[hi - (r + 1)]
        BY <1>3, <3>2
      <4>2. f[hi - r] = Before(st, hi - (hi - r), f[(hi - r) - 1])
        BY <2>5, <4>1
      <4>. QED  BY <3>2, <4>1, <4>2
    <3>. QED  BY <3>1, <3>2
  <2>7. IsLeaders(h)
    BY <2>6, Zenon
  <2>. QED  BY <2>7
<1>9. IsLeaders(chain)
  BY <1>8
<1>. HIDE DEF chain
<1>10. \A r \in lo..hi : chain[r] = IF r = hi THEN <<last>> ELSE Before(st, r, chain[r + 1])
  BY <1>9
<1>. DEFINE P == {k \in 0..n : IsChain(st, last, hi - k, chain[hi - k])}
<1>11. 0 \in P
  <2>1. chain[hi] = <<last>>
    <3>1. hi \in lo..hi
      BY <1>2
    <3>. QED  BY <1>10, <3>1
  <2>4. Decides(st.dag, hi, ToSet(<<last>>))
    <3>1. ToSet(<<last>>) = {last}
      BY OneMember
    <3>2. \A v \in Vertices : round(v) \in Nat
      BY VertexType
    <3>. QED  BY <1>1, <3>1, <3>2 DEF Decides, NextAbove
  <2>2. IsChain(st, last, hi, <<last>>)
    BY <1>1, <2>4 DEF IsChain
  <2>3. hi - 0 = hi /\ 0 \in 0..n
    OBVIOUS
  <2>. QED  BY <2>1, <2>2, <2>3
<1>12. ASSUME NEW k \in 0..(n - 1), k \in P
       PROVE  k + 1 \in P
  <2>1. PICK r \in Nat : /\ r = hi - (k + 1) /\ hi - k = r + 1 /\ r \in lo..hi /\ r # hi
                         /\ 0 < r /\ r < round(last) /\ k + 1 \in 0..n
    BY <1>1, <1>2, <1>3
  <2>2. IsChain(st, last, r + 1, chain[r + 1])
    BY <1>12, <2>1
  <2>3. chain[r] = Before(st, r, chain[r + 1])
    BY <1>10, <2>1
  <2>4. IsChain(st, last, r, chain[r])
    BY <2>1, <2>2, <2>3, ChainStep
  <2>. QED  BY <2>1, <2>4
<1>. HIDE DEF P
<1>13. \A k \in 0..n : k \in P
  BY <1>11, <1>12, Induction
<1>14. n \in P /\ hi - n = lo
  BY <1>2, <1>3, <1>13
<1>. QED  BY <1>2, <1>4, <1>14 DEF P

-----------------------------------------------------------------------------
\* A certificate that will not be output any more.
Gone(st, v) == v \notin st.dag \/ st.last_committed[origin(v)] = round(v)

\* What is committed is gone, and what is gone stays so.
LEMMA GoneStays ==
    ASSUME parents \in Dags, NEW st, WellState(st), NEW u, NEW B \in SUBSET Vertices,
           Advances(st, u, B)
    PROVE  /\ \A v \in B : Gone(u, v)
           /\ \A v \in Vertices : Gone(st, v) => Gone(u, v)
<1>1. WellState(u)
  BY DEF Advances
<1>2. \A v \in Vertices : /\ origin(v) \in Authority /\ round(v) \in Nat
                          /\ st.last_committed[origin(v)] \in Nat
                          /\ u.last_committed[origin(v)] \in Nat
  BY <1>1, VertexType, CommittedBound
<1>3. ASSUME NEW v \in B PROVE Gone(u, v)
  <2>1. v \in u.dag => u.last_committed[origin(v)] <= round(v)
    BY <1>3 DEF Advances
  <2>2. round(v) <= u.last_committed[origin(v)]
    BY <1>3 DEF Advances
  <2>. QED  BY <1>2, <1>3, <2>1, <2>2 DEF Gone
<1>4. ASSUME NEW v \in Vertices, Gone(st, v) PROVE Gone(u, v)
  <2>1. u.dag \subseteq st.dag
    BY DEF Advances
  <2>2. CASE v \notin st.dag
    BY <2>1, <2>2 DEF Gone
  <2>3. CASE st.last_committed[origin(v)] = round(v)
    <3>1. CASE B = {}
      <4>1. u.last_committed[origin(v)] = st.last_committed[origin(v)]
        BY <1>2, <3>1 DEF Advances
      <4>. QED  BY <2>3, <4>1 DEF Gone
    <3>2. CASE B # {}
      <4>1. v \in u.dag => u.last_committed[origin(v)] <= round(v)
        BY <3>2 DEF Advances
      <4>2. st.last_committed[origin(v)] <= u.last_committed[origin(v)]
        BY <1>2 DEF Advances
      <4>. QED  BY <1>2, <2>3, <4>1, <4>2 DEF Gone
    <3>. QED  BY <3>1, <3>2
  <2>. QED  BY <1>4, <2>2, <2>3 DEF Gone
<1>. QED  BY <1>3, <1>4

\* What the commit of the first leaders of a chain has done.
Progress(st, leaders, k, acc) ==
    /\ acc.sequence \in Seq(Vertices) /\ IsInjective(acc.sequence)
    /\ Advances(st, acc.st, ToSet(acc.sequence))
    /\ \A v \in ToSet(acc.sequence) : ~Gone(st, v)
    /\ \A j \in 1..k : leaders[j] \in ToSet(acc.sequence)
    /\ acc.st.last_committed_round =
        IF k = 0 THEN st.last_committed_round ELSE round(leaders[k])

\* The commit of one more leader.
CommitStep(acc, leader_) ==
    LET batch == order_dag(acc.st, leader_)
    IN  [st |-> updates(acc.st, batch), sequence |-> acc.sequence \o batch]

\* The next leader of a chain is still in the dag, and later than what is committed.
LEMMA NextLeader ==
    ASSUME parents \in Dags, gc_depth \in Nat, NEW st, WellState(st), NEW last \in Vertices,
           NEW leaders, IsChain(st, last, st.last_committed_round + 1, leaders),
           NEW k \in Nat, k + 1 \in 1..Len(leaders),
           NEW acc, Progress(st, leaders, k, acc)
    PROVE  /\ WellState(acc.st)
           /\ leaders[k + 1] \in Vertices /\ leaders[k + 1] \in acc.st.dag
           /\ round(leaders[k + 1]) > acc.st.last_committed_round
<1>. DEFINE l == leaders[k + 1]
            A == ToSet(acc.sequence)
<1>1. WellState(acc.st) /\ Advances(st, acc.st, A)
  BY DEF Progress, Advances
<1>2. /\ leaders \in Seq(Vertices) /\ l \in Vertices /\ l \in st.dag
      /\ round(l) >= st.last_committed_round + 1
  BY DEF IsChain
<1>3. /\ round(l) \in Nat /\ origin(l) \in Authority
      /\ st.last_committed_round \in Nat /\ acc.st.last_committed_round \in Nat
  BY <1>1, <1>2, VertexType DEF WellState, StateType
<1>4. round(l) > acc.st.last_committed_round
  <2>1. CASE k = 0
    BY <1>2, <1>3, <2>1 DEF Progress
  <2>2. CASE k # 0
    <3>1. k \in 1..Len(leaders) /\ k < k + 1
      BY <1>2, <2>2
    <3>2. round(leaders[k]) < round(l)
      BY <3>1 DEF IsChain
    <3>. QED  BY <2>2, <3>2 DEF Progress
  <2>. QED  BY <2>1, <2>2
<1>. HIDE DEF l
<1>5. \A a \in Authority : acc.st.last_committed[a] \in Nat
                           /\ acc.st.last_committed[a] <= acc.st.last_committed_round
  BY <1>1, CommittedBound
<1>6. l \in acc.st.dag
  <2>1. l \in acc.st.dag \/ Past(acc.st, l)
    BY <1>1, <1>2 DEF Advances
  <2>2. ~Past(acc.st, l)
    BY <1>3, <1>4, <1>5 DEF Past
  <2>. QED  BY <2>1, <2>2
<1>. QED  BY <1>1, <1>2, <1>4, <1>6 DEF l

\* The next commit makes the next progress.
LEMMA CommitStepProgress ==
    ASSUME parents \in Dags, gc_depth \in Nat, NEW st, WellState(st), NEW last \in Vertices,
           NEW leaders, IsChain(st, last, st.last_committed_round + 1, leaders),
           NEW k \in Nat, k + 1 \in 1..Len(leaders),
           NEW acc, Progress(st, leaders, k, acc)
    PROVE  Progress(st, leaders, k + 1, CommitStep(acc, leaders[k + 1]))
<1>. DEFINE l == leaders[k + 1]
            batch == order_dag(acc.st, l)
            w == updates(acc.st, batch)
            A == ToSet(acc.sequence)
            B == ToSet(batch)
<1>1. /\ acc.sequence \in Seq(Vertices) /\ IsInjective(acc.sequence)
      /\ WellState(acc.st) /\ Advances(st, acc.st, A)
      /\ A \in SUBSET Vertices
  <2>1. acc.sequence \in Seq(Vertices) /\ IsInjective(acc.sequence) /\ Advances(st, acc.st, A)
    BY DEF Progress
  <2>2. WellState(acc.st)
    BY <2>1 DEF Advances
  <2>3. A \in SUBSET Vertices
    BY <2>1 DEF ToSet
  <2>. QED  BY <2>1, <2>2, <2>3
<1>2. /\ leaders \in Seq(Vertices) /\ l \in Vertices /\ l \in st.dag
      /\ round(l) >= st.last_committed_round + 1
  BY DEF IsChain
<1>3. /\ round(l) \in Nat /\ origin(l) \in Authority
      /\ st.last_committed_round \in Nat /\ acc.st.last_committed_round \in Nat
  BY <1>1, <1>2, VertexType DEF WellState, StateType
<1>4. round(l) > acc.st.last_committed_round /\ l \in acc.st.dag
  BY NextLeader
<1>. HIDE DEF l
<1>5. \A a \in Authority : acc.st.last_committed[a] \in Nat
                           /\ acc.st.last_committed[a] <= acc.st.last_committed_round
  BY <1>1, CommittedBound
<1>6. acc.st.last_committed[origin(l)] # round(l)
  BY <1>3, <1>4, <1>5
<1>7. /\ batch \in Seq(Vertices) /\ IsInjective(batch)
      /\ l \in B
      /\ \A v \in B : v \in acc.st.dag /\ (v = l \/ (acc.st.last_committed[origin(v)] # round(v)
                                                     /\ round(v) < round(l)))
  BY <1>1, <1>2, <1>4, <1>6, OrderDag DEF IsSubDag
<1>. HIDE DEF batch
<1>8. Advances(acc.st, w, B)
  BY <1>1, <1>7, UpdatesAdvance
<1>. HIDE DEF w
<1>9. B \in SUBSET Vertices
  BY <1>7 DEF ToSet
<1>10. \A v \in B : ~Gone(acc.st, v)
  BY <1>6, <1>7 DEF Gone
<1>11. (\A v \in A : Gone(acc.st, v)) /\ (\A v \in Vertices : Gone(st, v) => Gone(acc.st, v))
  BY <1>1, GoneStays
<1>12. A \cap B = {} /\ \A v \in A \cup B : ~Gone(st, v)
  <2>1. \A v \in A : ~Gone(st, v)
    BY DEF Progress
  <2>. QED  BY <1>9, <1>10, <1>11, <2>1
<1>. DEFINE s == acc.sequence \o batch
<1>13. s \in Seq(Vertices) /\ IsInjective(s) /\ ToSet(s) = A \cup B
  <2>1. PICK x \in Seq(Vertices) : x = acc.sequence
    BY <1>1
  <2>2. ToSet(x) \cap ToSet(batch) = {}
    BY <1>12, <2>1
  <2>. QED  BY <1>1, <1>7, <2>1, <2>2, ConcatMembers
<1>. HIDE DEF s
<1>14. Advances(st, w, A \cup B)
  <2>. HIDE DEF A, B
  <2>. QED  BY <1>1, <1>8, <1>9, AdvancesTwice
<1>15. \A j \in 1..(k + 1) : leaders[j] \in ToSet(s)
  <2>1. \A j \in 1..(k + 1) : j \in 1..k \/ j = k + 1
    OBVIOUS
  <2>. QED  BY <1>7, <1>13, <2>1 DEF Progress, l
<1>16. w.last_committed_round = round(l)
  <2>1. WellState(w)
    BY <1>8 DEF Advances
  <2>2. PICK a \in Authority : w.last_committed[a] = w.last_committed_round
    BY <2>1, CommittedMax DEF WellState, StateType
  <2>3. w.last_committed[origin(l)] <= w.last_committed_round /\ w.last_committed_round \in Nat
        /\ w.last_committed[origin(l)] \in Nat
    BY <1>3, <2>1, CommittedBound
  <2>4. round(l) <= w.last_committed[origin(l)]
    BY <1>7, <1>8 DEF Advances
  <2>5. w.last_committed[a] <= round(l)
    <3>1. CASE w.last_committed[a] = acc.st.last_committed[a]
      BY <1>3, <1>4, <1>5, <3>1
    <3>2. ASSUME NEW b \in B, w.last_committed[a] = round(b)
          PROVE  w.last_committed[a] <= round(l)
      <4>1. round(b) \in Nat
        BY <1>9, VertexType
      <4>. QED  BY <1>3, <1>7, <3>2, <4>1
    <3>. QED  BY <1>8, <3>1, <3>2 DEF Advances
  <2>. QED  BY <1>3, <2>2, <2>3, <2>4, <2>5
<1>. DEFINE acc2 == CommitStep(acc, l)
<1>17. acc2.st = w /\ acc2.sequence = s
  BY DEF CommitStep, w, s, batch
<1>. HIDE DEF acc2
<1>18. Progress(st, leaders, k + 1, acc2)
  <2>. HIDE DEF A, B
  <2>1. acc2.sequence \in Seq(Vertices) /\ IsInjective(acc2.sequence)
    BY <1>13, <1>17
  <2>2. Advances(st, acc2.st, ToSet(acc2.sequence))
    BY <1>13, <1>14, <1>17
  <2>3. \A v \in ToSet(acc2.sequence) : ~Gone(st, v)
    BY <1>12, <1>13, <1>17
  <2>4. \A j \in 1..(k + 1) : leaders[j] \in ToSet(acc2.sequence)
    BY <1>15, <1>17
  <2>5. acc2.st.last_committed_round = round(leaders[k + 1]) /\ k + 1 # 0
    BY <1>16, <1>17 DEF l
  <2>. QED  BY <2>1, <2>2, <2>3, <2>4, <2>5 DEF Progress
<1>. QED  BY <1>18 DEF acc2, l

\* What committing a leader does: it and the leaders before it that it links
\* are output with all they bring along, each certificate for the first time.
Commits_leader(st, last, d) ==
    /\ d = commit(st, last)
    /\ d.sequence \in Seq(Vertices) /\ IsInjective(d.sequence)
    /\ Advances(st, d.st, ToSet(d.sequence))
    /\ \A v \in ToSet(d.sequence) : ~Gone(st, v)
    /\ ToSet(order_leaders(st, last)) \subseteq ToSet(d.sequence)
    /\ d.st.last_committed_round = round(last)

\* The commit goes through the leaders of the chain one by one.
IsCommitRun(st, last, n, f) ==
    /\ n = Len(order_leaders(st, last)) /\ n > 0
    /\ f[0] = [st |-> st, sequence |-> <<>>]
    /\ \A i \in 1..n : f[i] = CommitStep(f[i - 1], order_leaders(st, last)[i])
    /\ \A i \in 0..n : Progress(st, order_leaders(st, last), i, f[i])
    /\ commit(st, last) = f[n]

\* It is well defined, and ends with all leaders of the chain committed.
LEMMA CommitRun ==
    ASSUME parents \in Dags, gc_depth \in Nat, NEW st, WellState(st), NEW last \in Vertices,
           last \in st.dag, last = leader_of(round(last)),
           round(last) > st.last_committed_round
    PROVE  \E n \in Nat : \E f : IsCommitRun(st, last, n, f)
<1>. DEFINE leaders == order_leaders(st, last)
<1>1. IsChain(st, last, st.last_committed_round + 1, leaders)
  BY OrderLeaders
<1>2. PICK n \in Nat : n = Len(leaders) /\ n > 0
  BY <1>1 DEF IsChain
<1>3. leaders \in Seq(Vertices) /\ leaders[n] = last /\ DOMAIN leaders = 1..n
  BY <1>1, <1>2 DEF IsChain
<1>. HIDE DEF leaders
<1>. DEFINE s0 == [st |-> st, sequence |-> <<>>]
            IsDone(f) == f = [i \in 0..n |->
                IF i = 0 THEN s0 ELSE CommitStep(f[i - 1], leaders[i])]
            done == CHOOSE f : IsDone(f)
            Accs == [st : StateType, sequence : Seq(Vertices)]
            R == [k \in 0..n |-> {acc \in Accs : Progress(st, leaders, k, acc)}]
            g == [p \in (1..n) \X Accs |-> CommitStep(p[2], leaders[p[1]])]
<1>4. commit(st, last) = done[n]
  BY <1>2 DEF commit, CommitStep, leaders
<1>5. s0 \in R[0]
  <2>1. s0.st = st /\ s0.sequence = <<>> /\ s0 \in Accs
    BY DEF WellState
  <2>. HIDE DEF s0, Accs
  <2>2. ToSet(s0.sequence) = {} /\ IsInjective(s0.sequence) /\ s0.sequence \in Seq(Vertices)
    BY <2>1, NoMember
  <2>3. Advances(st, s0.st, ToSet(s0.sequence))
    BY <2>1, <2>2, AdvancesNot
  <2>4. Progress(st, leaders, 0, s0)
    BY <2>1, <2>2, <2>3 DEF Progress
  <2>. QED  BY <2>1, <2>4
<1>6. \A i \in 1..n : \A acc \in R[i - 1] :
        /\ g[<<i, acc>>] = CommitStep(acc, leaders[i])
        /\ CommitStep(acc, leaders[i]) \in R[i]
  <2>1. SUFFICES ASSUME NEW i \in 1..n, NEW acc \in R[i - 1]
                 PROVE  /\ g[<<i, acc>>] = CommitStep(acc, leaders[i])
                        /\ CommitStep(acc, leaders[i]) \in R[i]
    OBVIOUS
  <2>2. PICK k \in Nat : k = i - 1 /\ k + 1 = i /\ k \in 0..n
    OBVIOUS
  <2>3. acc \in Accs /\ Progress(st, leaders, k, acc)
    BY <2>2
  <2>4. Progress(st, leaders, i, CommitStep(acc, leaders[i]))
    BY <1>1, <1>2, <2>2, <2>3, CommitStepProgress
  <2>5. CommitStep(acc, leaders[i]) \in Accs
    <3>. DEFINE d == CommitStep(acc, leaders[i])
    <3>1. d = [st |-> d.st, sequence |-> d.sequence]
      BY DEF CommitStep
    <3>2. d.sequence \in Seq(Vertices) /\ d.st \in StateType
      BY <2>4 DEF Progress, Advances, WellState
    <3>. HIDE DEF d
    <3>3. d \in Accs
      BY <3>1, <3>2
    <3>. QED  BY <3>3 DEF d
  <2>. QED  BY <2>3, <2>4, <2>5
<1>. HIDE DEF s0, R, g
<1>7. IsStepThrough(g, n, R)
  BY <1>6 DEF IsStepThrough
<1>8. PICK f : IsRunThrough(f, n, R, s0, g)
  BY <1>2, <1>5, <1>7, RecursionThrough
<1>9. IsDone(f)
  <2>1. \A i \in 1..n : f[i - 1] \in R[i - 1]
    BY <1>8 DEF IsRunThrough
  <2>2. \A i \in 0..n : f[i] = IF i = 0 THEN s0 ELSE CommitStep(f[i - 1], leaders[i])
    <3>1. f[0] = s0
      BY <1>8 DEF IsRunThrough
    <3>2. ASSUME NEW i \in 1..n
          PROVE  f[i] = CommitStep(f[i - 1], leaders[i])
      <4>1. f[i] = g[<<i, f[i - 1]>>]
        BY <1>8 DEF IsRunThrough
      <4>. QED  BY <1>6, <2>1, <4>1
    <3>3. \A i \in 0..n : i = 0 \/ i \in 1..n
      OBVIOUS
    <3>. QED  BY <3>1, <3>2, <3>3
  <2>. QED  BY <1>8, <2>2 DEF IsRunThrough
<1>10. IsDone(done)
  BY <1>9
<1>. HIDE DEF done
<1>11. \A k \in 0..n : Progress(st, leaders, k, done[k])
  <2>1. done[0] = s0 /\ \A i \in 1..n : done[i] = CommitStep(done[i - 1], leaders[i])
    BY <1>10
  <2>. DEFINE P == {k \in 0..n : done[k] \in R[k]}
  <2>2. 0 \in P
    BY <1>5, <2>1
  <2>3. ASSUME NEW k \in 0..(n - 1), k \in P
        PROVE  k + 1 \in P
    <3>1. k + 1 \in 0..n /\ k + 1 \in 1..n /\ (k + 1) - 1 = k
      OBVIOUS
    <3>. QED  BY <1>6, <2>1, <2>3, <3>1
  <2>. HIDE DEF P
  <2>4. \A k \in 0..n : k \in P
    BY <2>2, <2>3, Induction
  <2>5. \A k \in 0..n : done[k] \in R[k]
    BY <2>4 DEF P
  <2>. QED  BY <2>5 DEF R
<1>12. done[0] = s0 /\ \A i \in 1..n : done[i] = CommitStep(done[i - 1], leaders[i])
  BY <1>10
<1>13. IsCommitRun(st, last, n, done)
  BY <1>2, <1>4, <1>11, <1>12 DEF IsCommitRun, leaders, s0
<1>. QED  BY <1>2, <1>13

\* That is what commit does.
LEMMA CommitLeader ==
    ASSUME parents \in Dags, gc_depth \in Nat, NEW st, WellState(st), NEW last \in Vertices,
           last \in st.dag, last = leader_of(round(last)),
           round(last) > st.last_committed_round
    PROVE  Commits_leader(st, last, commit(st, last))
<1>. DEFINE leaders == order_leaders(st, last)
<1>1. PICK n \in Nat : \E f : IsCommitRun(st, last, n, f)
  BY CommitRun
<1>2. PICK f : IsCommitRun(st, last, n, f)
  BY <1>1
<1>3. IsChain(st, last, st.last_committed_round + 1, leaders)
  BY OrderLeaders
<1>4. /\ n = Len(leaders) /\ n > 0 /\ n \in 0..n
      /\ leaders \in Seq(Vertices) /\ leaders[n] = last /\ DOMAIN leaders = 1..n
  BY <1>2, <1>3 DEF IsChain, IsCommitRun
<1>. DEFINE d == commit(st, last)
<1>5. Progress(st, leaders, n, d)
  BY <1>2, <1>4 DEF IsCommitRun
<1>. HIDE DEF leaders, d
<1>6. ToSet(leaders) \subseteq ToSet(d.sequence)
  BY <1>4, <1>5 DEF ToSet, Progress
<1>7. n # 0
  BY <1>4
<1>. QED  BY <1>4, <1>5, <1>6, <1>7 DEF Progress, Commits_leader, leaders, d

-----------------------------------------------------------------------------
\* H is a set of certificates with the history of all of them, and st holds all
\* of H but for what is past.
IsHistory(H, st) ==
    /\ H \in SUBSET Certificates
    /\ \A c \in H \cap Vertices : parents[c] \ genesis \subseteq H
    /\ st.dag \subseteq H
    /\ \A v \in H : v \in st.dag \/ Past(st, v)

\* What is later than the last commit is in the dag.
LEMMA LaterIsHeld ==
    ASSUME parents \in Dags, gc_depth \in Nat, NEW st, WellState(st),
           NEW H, IsHistory(H, st), NEW v \in H, round(v) > st.last_committed_round
    PROVE  v \in st.dag
<1>1. v \in Certificates
  BY DEF IsHistory
<1>2. /\ origin(v) \in Authority /\ round(v) \in Nat
      /\ st.last_committed[origin(v)] \in Nat /\ st.last_committed_round \in Nat
      /\ st.last_committed[origin(v)] <= st.last_committed_round
  BY <1>1, CertificateType, CommittedBound
<1>3. ~Past(st, v)
  BY <1>2 DEF Past
<1>. QED  BY <1>3 DEF IsHistory

\* A history reaches down to the first round without a gap.
LEMMA NoGap ==
    ASSUME parents \in Dags, NEW H \in SUBSET Certificates,
           \A c \in H \cap Vertices : parents[c] \ genesis \subseteq H,
           NEW last \in H \cap Vertices, NEW q \in 1..round(last)
    PROVE  \E v \in H \cap Vertices : round(v) = q
<1>1. PICK n \in Nat : n + 1 = round(last)
  <2>1. round(last) \in Nat /\ round(last) > 0
    BY DagRules DEF Rules
  <2>2. round(last) - 1 \in Nat /\ (round(last) - 1) + 1 = round(last)
    BY <2>1
  <2>. QED  BY <2>2
<1>. DEFINE P == {k \in 0..n : \E v \in H \cap Vertices : round(v) = (n + 1) - k}
<1>2. 0 \in P
  <2>1. (n + 1) - 0 = round(last) /\ 0 \in 0..n
    BY <1>1
  <2>. QED  BY <2>1
<1>3. ASSUME NEW k \in 0..(n - 1), k \in P
      PROVE  k + 1 \in P
  <2>1. PICK r \in Nat : r = (n + 1) - (k + 1) /\ r > 0 /\ (n + 1) - k = r + 1 /\ k + 1 \in 0..n
    OBVIOUS
  <2>2. PICK v \in H \cap Vertices : round(v) = r + 1
    BY <1>3, <2>1
  <2>3. Rules(v)
    BY <2>2, DagRules
  <2>4. PICK p \in parents[v] : TRUE
    BY <2>3, QuorumNonEmpty DEF Rules
  <2>5. round(p) = r /\ p \in Vertices
    <3>1. round(p) = round(v) - 1 /\ (round(p) > 0 => p \in Vertices)
      BY <2>3, <2>4 DEF Rules
    <3>. QED  BY <2>1, <2>2, <3>1
  <2>6. p \notin genesis
    <3>1. \A g \in genesis : round(g) = 0
      BY DEF genesis, round
    <3>. QED  BY <2>1, <2>5, <3>1
  <2>7. p \in H
    BY <2>2, <2>4, <2>6
  <2>. QED  BY <2>1, <2>5, <2>7
<1>. HIDE DEF P
<1>4. \A k \in 0..n : k \in P
  BY <1>2, <1>3, Induction
<1>5. (n + 1) - q \in P /\ (n + 1) - ((n + 1) - q) = q
  BY <1>1, <1>4
<1>. QED  BY <1>5 DEF P

\* With the history of a leader at hand, the search for a path does not panic.
LEMMA NoPanic ==
    ASSUME parents \in Dags, gc_depth \in Nat, NEW st, WellState(st),
           NEW H, IsHistory(H, st), NEW last \in H \cap Vertices
    PROVE  ~panics(st, last)
<1>1. SUFFICES ASSUME NEW r \in (st.last_committed_round + 1)..(round(last) - 1),
                      NEW s \in r..(round(last) - 1), \A v \in st.dag : round(v) # s
               PROVE  FALSE
  BY DEF panics
<1>2. st.last_committed_round \in Nat /\ round(last) \in Nat
  BY VertexType DEF WellState, StateType
<1>3. s \in 1..round(last) /\ s > st.last_committed_round
  BY <1>1, <1>2
<1>4. PICK v \in H \cap Vertices : round(v) = s
  BY <1>3, NoGap DEF IsHistory
<1>. QED  BY <1>1, <1>3, <1>4, LaterIsHeld

\* A path in the history is a path in the dag, above the last commit.
LEMMA LinkedInDag ==
    ASSUME parents \in Dags, gc_depth \in Nat, NEW st, WellState(st),
           NEW H, IsHistory(H, st), NEW from, NEW to,
           round(from) \in Nat, round(to) \in Nat, round(to) > st.last_committed_round,
           linked(H, from, to)
    PROVE  linked(st.dag, from, to)
<1>1. st.last_committed_round \in Nat
  BY DEF WellState, StateType
<1>2. \A v \in H : round(v) \in round(to)..round(from) => v \in st.dag
  BY <1>1, LaterIsHeld
<1>3. \A v \in st.dag : v \in H
  BY DEF IsHistory
<1>4. \A f : IsWalk(f, round(to), round(from), H, from) <=>
             IsWalk(f, round(to), round(from), st.dag, from)
  <2>1. SUFFICES ASSUME NEW f
                 PROVE  IsWalk(f, round(to), round(from), H, from) <=>
                        IsWalk(f, round(to), round(from), st.dag, from)
    OBVIOUS
  <2>. DEFINE In(D, r) == {v \in D : round(v) = r /\ \E x \in f[r + 1] : v \in parents[x]}
  <2>2. \A r \in round(to)..round(from) : In(H, r) = In(st.dag, r)
    BY <1>2, <1>3
  <2>3. IsWalk(f, round(to), round(from), H, from) <=>
          f = [r \in round(to)..round(from) |-> IF r = round(from) THEN {from} ELSE In(H, r)]
    BY DEF IsWalk
  <2>4. IsWalk(f, round(to), round(from), st.dag, from) <=>
          f = [r \in round(to)..round(from) |-> IF r = round(from) THEN {from} ELSE In(st.dag, r)]
    BY DEF IsWalk
  <2>5. [r \in round(to)..round(from) |-> IF r = round(from) THEN {from} ELSE In(H, r)]
          = [r \in round(to)..round(from) |-> IF r = round(from) THEN {from} ELSE In(st.dag, r)]
    BY <2>2
  <2>. QED  BY <2>3, <2>4, <2>5
<1>5. Walk(H, from, to) = Walk(st.dag, from, to)
  BY <1>4 DEF Walk
<1>. QED  BY <1>5, LinkedIsWalk

\* The children of a vertex, and whether a leader has f+1 stake of them in S.
Children(v, S) == {y \in S : v \in parents[y]}
HasSupport(v, S) == v = leader_of(round(v)) /\ IsValid({origin(y) : y \in Children(v, S)})

\* A supported leader is in the chain of every later leader that is committed.
LEMMA SupportedInChain ==
    ASSUME parents \in Dags, gc_depth \in Nat, NEW st, WellState(st),
           NEW H, IsHistory(H, st),
           NEW v \in Vertices, HasSupport(v, Vertices),
           round(v) > st.last_committed_round,
           NEW last \in H \cap Vertices, last = leader_of(round(last)),
           round(v) <= round(last)
    PROVE  v \in ToSet(order_leaders(st, last))
<1>. DEFINE c == order_leaders(st, last)
            C == Children(v, Vertices)
<1>1. /\ round(v) \in Nat /\ round(last) \in Nat /\ st.last_committed_round \in Nat
      /\ st.last_committed_round + 1 \in Nat
  BY VertexType DEF WellState, StateType
<1>2. last \in st.dag
  BY <1>1, LaterIsHeld
<1>3. IsChain(st, last, st.last_committed_round + 1, c)
  BY <1>1, <1>2, OrderLeaders
<1>4. v = leader_of(round(v))
  BY DEF HasSupport
<1>. HIDE DEF c
<1>5. CASE round(v) = round(last)
  <2>1. v = last
    BY <1>4, <1>5
  <2>2. c[Len(c)] = last /\ Len(c) \in DOMAIN c
    BY <1>3 DEF IsChain
  <2>. QED  BY <2>1, <2>2 DEF ToSet, c
<1>6. CASE round(v) < round(last)
  <2>1. /\ H \in SUBSET Certificates
        /\ \A x \in H \cap Vertices : parents[x] \ genesis \subseteq H
    BY DEF IsHistory
  <2>2. C \in SUBSET Vertices /\ (\A y \in C : v \in parents[y]) /\ IsValid({origin(y) : y \in C})
    BY DEF Children, HasSupport
  <2>. HIDE DEF C
  <2>3. \A w \in H : w = leader_of(round(w)) /\ round(w) > round(v) => linked(H, w, v)
    <3>1. SUFFICES ASSUME NEW w \in H, w = leader_of(round(w)), round(w) > round(v)
                   PROVE  linked(H, w, v)
      OBVIOUS
    <3>. QED  BY <1>4, <2>1, <2>2, <3>1, SupportedIsLinked
  <2>4. v \in H
    <3>. DEFINE F == Walk(H, last, v)
    <3>1. v \in F[round(v)]
      BY <1>6, <2>3, LinkedIsWalk
    <3>2. IsWalk(F, round(v), round(last), H, last)
      BY <1>1, <1>6, WalkExists
    <3>. HIDE DEF F
    <3>3. round(v) \in round(v)..round(last) /\ round(v) # round(last)
      BY <1>1, <1>6
    <3>4. F[round(v)] = {x \in H : round(x) = round(v) /\ \E y \in F[round(v) + 1] : x \in parents[y]}
      BY <3>2, <3>3 DEF IsWalk
    <3>. QED  BY <3>1, <3>4
  <2>5. v \in st.dag
    BY <2>4, LaterIsHeld
  <2>6. ASSUME NEW w \in ToSet(c), round(w) > round(v)
        PROVE  linked(st.dag, w, v)
    <3>1. w \in st.dag /\ w = leader_of(round(w)) /\ w \in Vertices
      BY <1>3, <2>6 DEF IsChain, ToSet
    <3>2. w \in H /\ round(w) \in Nat
      BY <3>1, VertexType DEF IsHistory
    <3>3. linked(H, w, v)
      BY <2>3, <2>6, <3>1, <3>2
    <3>. QED  BY <1>1, <3>2, <3>3, LinkedInDag
  <2>7. round(v) \in (st.last_committed_round + 1)..(round(last) - 1)
    BY <1>1, <1>6
  <2>8. leader_of(round(v)) \in ToSet(c)
    BY <1>3, <1>4, <2>5, <2>6, <2>7 DEF IsChain
  <2>. QED  BY <1>4, <2>8 DEF c
<1>. QED  BY <1>1, <1>5, <1>6

=============================================================================
