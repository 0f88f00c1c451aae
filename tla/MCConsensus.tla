---------------------------- MODULE MCConsensus ----------------------------
(***************************************************************************)
(* Instances of Consensus: committees and families of DAGs.                *)
(***************************************************************************)
EXTENDS Consensus

CONSTANTS k0, k1, k2, k3

\* A committee of three, one of them with half of the stake: the quorums are
\* the heavy authority with at least one light one.
Keys3  == <<k0, k1, k2>>
Stake3 == k0 :> 2 @@ k1 :> 1 @@ k2 :> 1
Quorums3 == {{k0, k1}, {k0, k2}, {k0, k1, k2}}

\* The committee the repository generates: four authorities of stake one.
Keys4  == <<k0, k1, k2, k3>>
Stake4 == [a \in {k0, k1, k2, k3} |-> 1]

At(S, r) == {<<a, r>> : a \in S}

(***************************************************************************)
(* Every DAG with the given vertices, in which the quorum of parents of    *)
(* those of the rounds in varied is free and the other headers link every  *)
(* certificate of the round before.                                        *)
(***************************************************************************)
AllDags(vertices, varied) ==
    LET Authors(r) == {a \in Authority : r = 0 \/ <<a, r>> \in vertices}
        free == {v \in vertices : v[2] \in varied}
        choices == {f \in [free -> Quorums3] : \A v \in free : f[v] \subseteq Authors(v[2] - 1)}
        dag(f) == [v \in vertices |->
            At(IF v \in free THEN f[v] ELSE Authors(v[2] - 1), v[2] - 1)]
    IN  {dag(f) : f \in {g \in choices : WellFormed(dag(g))}}

\* Every certificate of an author descends from all its earlier ones.
Chained(d) ==
    LET above[v \in DOMAIN d] == d[v] \cup UNION {above[p] : p \in d[v] \cap DOMAIN d}
    IN  \A v, w \in DOMAIN d : v[1] = w[1] /\ v[2] < w[2] => v \in above[w]

ChainedDags(vertices, varied) ==
    {d : d \in {e \in AllDags(vertices, varied) : Chained(e)}}

Full(last) == Authority \X (1..last)

\* Four rounds; an author may stop, or miss one round, or be complete.
FourRounds ==
    UNION {ChainedDags(Full(4) \ missing, {3, 4}) :
        missing \in {{}, {<<k2, 3>>, <<k2, 4>>}, {<<k2, 2>>}, {<<k1, 2>>}, {<<k2, 3>>}}}

\* Five rounds; the light authority k2 may miss the round it leads.
FiveRounds ==
    UNION {ChainedDags(Full(5) \ missing, {2, 3}) :
        missing \in {{}, {<<k2, 2>>}, {<<k1, 4>>}}}

\* Scenarios with the DAGs of a set: certificates only, each once, no restarts.
Over(dags, depth, nodes) ==
    {[dag |-> d, gc_depth |-> depth, nodes |-> nodes, headers |-> {}, again |-> {}, restarts |-> 0] :
        d \in dags}

\* Headers of some rounds come too, some rounds come again, a node may restart.
Hearing(scenarios, rounds)   == {[s EXCEPT !.headers = rounds] : s \in scenarios}
Repeating(scenarios, rounds) == {[s EXCEPT !.again = rounds] : s \in scenarios}
Restarting(scenarios)        == {[s EXCEPT !.restarts = 1] : s \in scenarios}

(***************************************************************************)
(* Two nodes, each certificate once, in DAGs in which nothing leads either  *)
(* of them astray: certificates only, with little memory; and headers too,  *)
(* in three rounds of which the heavy authority links all it can.          *)
(***************************************************************************)
Orders == Over(FourRounds \cup FiveRounds, 1, Node)

Linked3(dags) == {d \in dags : d[<<k0, 3>>] = At(Authority, 2)}

Headers ==
    Hearing(Over({d \in Linked3(ChainedDags(Full(3), {3})) : d[<<k2, 3>>] # At(Authority, 2)},
                 50, Node), {3})

(***************************************************************************)
(* Any parents, and a round that may come again: certificates of the first  *)
(* or headers of the third, to two nodes, to one, or to one that restarts.  *)
(***************************************************************************)
Three    == Full(3) \ {<<k1, 3>>}
Tapering == Full(4) \ {<<k1, 3>>, <<k1, 4>>, <<k2, 4>>}

Again ==
    LET one(dags, depth) == UNION {Over(dags, depth, {n}) : n \in Node}
        some == {d \in AllDags(Tapering, {2, 3}) :
                   d[<<k1, 2>>] = At({k0, k1}, 1) /\ d[<<k2, 2>>] = At({k0, k2}, 1)}
        three == {d \in Linked3(AllDags(Three, {3})) : d[<<k2, 3>>] = At({k0, k1}, 2)}
    IN  UNION {Repeating(Over(some, 50, Node), {1}),
               Repeating(one(AllDags(Full(4), {2, 3}), 1), {1}),
               Restarting(Repeating(one(AllDags(Tapering \cup {<<k1, 3>>}, {2}), 1), {1})),
               Repeating(Hearing(Over(three, 50, Node), {3}), {3}),
               Restarting(Repeating(Hearing(one(three, 50), {3}), {3}))}

OrdersHeadersAgain == Orders \cup Headers \cup Again

(***************************************************************************)
(* The committee of four.  Header (k0, 1) is certified late: its author's   *)
(* header of round 2 does not link it, and the only other one that links   *)
(* it is (k1, 2), which the leader of round 3 does not have in its history. *)
(***************************************************************************)
Late ==
    LET most == {k0, k2, k3}
        choice == [v \in Full(5) |->
            CASE v[2] = 2 -> IF v[1] = k1 THEN {k0, k1, k2} ELSE {k1, k2, k3}
              [] v[2] = 3 -> IF v[1] = k1 THEN {k1, k2, k3} ELSE most
              [] v[2] = 4 -> IF v[1] \in {k0, k1} THEN Authority ELSE most
              [] OTHER -> Authority]
    IN  {[v \in Full(5) |-> At(choice[v], v[2] - 1)]}

LateUnlinked == Over(Late, 50, Node)

NodeSymmetry == Permutations(Node)
=============================================================================
