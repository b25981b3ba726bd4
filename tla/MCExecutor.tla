------------------------------ MODULE MCExecutor ------------------------------
(***************************************************************************)
(* Flow graphs for the executor's runs.  Back-edges are computed from each  *)
(* graph by the model of find_back_edges.                                   *)
(***************************************************************************)
EXTENDS Executor, Sequences, SequencesExt

GA == INSTANCE GraphAnalysis

\* Node ids in declaration order.
Order == <<"A", "B", "C", "D">>
FourNodes == {"A", "B", "C", "D"}
ThreeNodes == {"A", "B", "C"}

E(m, n) == [from |-> m, to |-> n]

\* The graph with the given edges, conditional edges and edges that may carry arrays.
Graph(nodes, edges, cond, fan) ==
    [edges |-> edges, cond |-> cond, fan |-> fan,
     back |-> GA!find_back_edges(SelectSeq(Order, LAMBDA n : n \in nodes),
                                 [e \in DOMAIN edges |-> [from |-> edges[e].from, to |-> edges[e].to, id |-> e]])]

\* Every edge set of an acyclic graph whose nodes are declared in topological order.
Forward(k) == {p \in (1..k) \X (1..k) : p[1] < p[2]}
Dags(k, cond(_)) ==
    {LET edges == SetToSeq({E(Order[p[1]], Order[p[2]]) : p \in P})
     IN  Graph({Order[i] : i \in 1..k}, edges, cond(edges), {}) : P \in SUBSET Forward(k)}

\* All acyclic graphs over four nodes, without conditions and with one on every edge.
AllDags == LET None(edges) == {}
               All(edges) == DOMAIN edges
           IN  Dags(4, None) \cup Dags(4, All)

\* The agent loop: A (model) fans out to B (tools), whose merged results go back to A;
\* A leaves to C, then D.
AgentLoop == Graph(FourNodes, <<E("A", "B"), E("B", "A"), E("A", "C"), E("C", "D")>>, {1, 3}, {1})

\* A loop A -> {B, C} -> D -> A whose body forks and joins.
LoopWithJoin ==
    Graph(FourNodes, <<E("A", "B"), E("A", "C"), E("B", "D"), E("C", "D"), E("D", "A")>>, {}, {})

AllGraphs == AllDags \cup {AgentLoop, LoopWithJoin}

\* A join of two entry nodes; the edge from B carries a condition.
ConditionalJoin == {Graph(ThreeNodes, <<E("A", "C"), E("B", "C")>>, {2}, {})}
=============================================================================
