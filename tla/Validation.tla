----------------------------- MODULE Validation ------------------------------
(***************************************************************************)
(* validate_graph (validate.rs): the errors of a flow graph.  The library   *)
(* exports it for its users; the executor does not call it, and analyses    *)
(* the graph by its own copy of the search (GraphAnalysis).                 *)
(***************************************************************************)
EXTENDS GraphAnalysis

Repeated(ids) == \E i, j \in DOMAIN ids : i # j /\ ids[i] = ids[j]
unknown_endpoints(nodes, edges) ==
  {e \in DOMAIN edges : {edges[e].from, edges[e].to} \ Range(nodes) # {}}

RECURSIVE dfs(_, _, _, _)
\* stack is in_stack: the nodes between the root and node.
dfs(edges, node, stack, st) ==
  IF node \in st.visited THEN st
  ELSE FoldLeft(LAMBDA s, e :
                  IF edges[e].to \in stack \cup {node} THEN [s EXCEPT !.back = @ \cup {edges[e].id}]
                  ELSE IF edges[e].to \in s.visited THEN s
                  ELSE dfs(edges, edges[e].to, stack \cup {node}, s),
                [st EXCEPT !.visited = @ \cup {node}], InOrder(Outgoing(edges, node)))

\* Defect: it takes the first node only when every node has an incoming edge.
back_edge_ids_first(nodes, edges) ==
  FoldLeft(LAMBDA s, n : dfs(edges, n, {}, s), [visited |-> {}, back |-> {}],
           SearchRootsFirst(nodes, edges)).back
\* The search starts where the executor's does.
back_edge_ids(nodes, edges) ==
  FoldLeft(LAMBDA s, n : dfs(edges, n, {}, s), [visited |-> {}, back |-> {}],
           LET starts == start_nodes(nodes, edges)
           IN IF starts = {} THEN nodes ELSE SelectSeq(nodes, LAMBDA n : n \in starts)).back

entry_nodes(nodes, edges) ==
  LET back == back_edge_ids(nodes, edges)
  IN {n \in Range(nodes) : \A e \in DOMAIN edges : edges[e].id \notin back => edges[e].to # n}

\* The kinds of error found; none is Ok.
validate_graph(nodes, edges) ==
  (IF Repeated(nodes) THEN {"duplicate node"} ELSE {})
  \cup (IF unknown_endpoints(nodes, edges) # {} THEN {"unknown endpoint"} ELSE {})
  \cup (IF Repeated([e \in DOMAIN edges |-> edges[e].id]) THEN {"duplicate edge"} ELSE {})
  \cup (IF entry_nodes(nodes, edges) = {} /\ nodes # <<>> THEN {"no entry node"} ELSE {})
  \cup (IF nodes = <<>> THEN {"no nodes"} ELSE {})
=============================================================================
