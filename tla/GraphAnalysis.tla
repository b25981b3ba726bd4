---------------------------- MODULE GraphAnalysis ----------------------------
(***************************************************************************)
(* The static analysis of a flow graph that a run starts with: which edges  *)
(* are back-edges (find_back_edges) and which nodes are entry nodes.        *)
(* nodes is the sequence of node ids and edges the sequence of edges, both  *)
(* in declaration order.  A back-edge is known by the id of the edge, which *)
(* nothing makes unique before validate_graph is asked.                     *)
(***************************************************************************)
EXTENDS Naturals, Sequences, FiniteSets, SequencesExt

Outgoing(edges, n) == {e \in DOMAIN edges : edges[e].from = n}
InOrder(S) == SetToSortSeq(S, <)

RECURSIVE dfs_back_edges(_, _, _, _)

\* Defect: the whole visited set is taken for the recursion stack.
visit_edge_visited(edges, e, stack, st) ==
    IF edges[e].to \in st.visited THEN [st EXCEPT !.back = @ \cup {edges[e].id}]
    ELSE dfs_back_edges(edges, edges[e].to, stack, st)

\* An edge to a node on the recursion stack is a back-edge; unvisited nodes are visited.
visit_edge(edges, e, stack, st) ==
    IF edges[e].to \in stack THEN [st EXCEPT !.back = @ \cup {edges[e].id}]
    ELSE IF edges[e].to \notin st.visited THEN dfs_back_edges(edges, edges[e].to, stack, st)
    ELSE st

\* Depth-first search from n; st carries the visited nodes and the ids of the back-edges found.
dfs_back_edges(edges, n, stack, st) ==
    IF n \in st.visited THEN st
    ELSE FoldLeft(LAMBDA s, e : visit_edge(edges, e, stack \cup {n}, s),
                  [st EXCEPT !.visited = @ \cup {n}],
                  InOrder(Outgoing(edges, n)))

\* Nodes without any incoming edge.
start_nodes(nodes, edges) == {n \in Range(nodes) : \A e \in DOMAIN edges : edges[e].to # n}

\* Defect: without a start node, only the first node is searched from.
SearchRootsFirst(nodes, edges) ==
    LET starts == start_nodes(nodes, edges)
    IN  IF starts = {} THEN SelectSeq(nodes, LAMBDA n : n = nodes[1]) ELSE SelectSeq(nodes, LAMBDA n : n \in starts)

\* The search starts from those nodes, or from all nodes if there is none.
SearchRoots(nodes, edges) ==
    LET starts == start_nodes(nodes, edges)
    IN  IF starts = {} THEN nodes ELSE SelectSeq(nodes, LAMBDA n : n \in starts)

find_back_edges(nodes, edges) ==
    FoldLeft(LAMBDA s, n : dfs_back_edges(edges, n, {}, s),
             [visited |-> {}, back |-> {}],
             SearchRoots(nodes, edges)).back

\* Nodes without an incoming edge that is not a back-edge.
find_entry_nodes(nodes, edges, back) ==
    {n \in Range(nodes) : \A e \in DOMAIN edges : edges[e].id \in back \/ edges[e].to # n}
=============================================================================
