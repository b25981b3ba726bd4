--------------------------- MODULE ExecutorProofs ---------------------------
(***************************************************************************)
(* Theorems about the run loop, for every set of nodes, every flow graph,   *)
(* every limit on traversals and arrays of every length.                    *)
(***************************************************************************)
EXTENDS Executor, FiniteSetTheorems, WellFoundedInduction, TLAPS

-----------------------------------------------------------------------------
(* Graphs, edges and tasks *)

\* The ends of an edge are nodes, and the edges of a flow are finitely many.
LEMMA GraphFacts ==
    ASSUME TypeOK
    PROVE  /\ Edges \subseteq Nat /\ IsFiniteSet(Edges)
           /\ \A e \in Edges : From(e) \in Nodes /\ To(e) \in Nodes
           /\ \A n : Outgoing(n) \subseteq Edges /\ Incoming(n) \subseteq Edges
BY DEF TypeOK, IsGraph, Edges, From, To, Outgoing, Incoming

\* The first of a set of edges, in declaration order, is one of them (spawn_ready_nodes
\* looks at the first passing edge to a target).
LEMMA MinInSet ==
    ASSUME NEW S, S \subseteq Nat, S # {}
    PROVE  Min(S) \in S
<1>1. PICK x \in S : \A y \in S : ~(<<y, x>> \in OpToRel(<, Nat))
  BY WFMin, NatLessThanWellFounded
<1>2. ASSUME NEW y \in S PROVE x =< y
  <2>1. x \in Nat /\ y \in Nat
    OBVIOUS
  <2>2. ~(y < x)
    BY <1>1, <2>1 DEF OpToRel
  <2> QED BY <2>1, <2>2
<1> QED BY <1>2 DEF Min

Tasks == [Nodes -> [0..MaxItems -> Nat]]

\* Taking a returned task out of the books.
LEMMA TakeFacts ==
    ASSUME TypeOK, NEW n \in Nodes, NEW i \in 0..MaxItems, running[n][i] > 0
    PROVE  /\ Take(n, i) \in Tasks
           /\ Take(n, i)[n][i] = running[n][i] - 1
           /\ \A t \in Nodes, j \in 0..MaxItems :
                  t # n \/ j # i => Take(n, i)[t][j] = running[t][j]
           /\ \A t \in Nodes, j \in 0..MaxItems : Take(n, i)[t][j] <= running[t][j]
<1>0. running \in Tasks
  BY DEF TypeOK, Tasks
<1>1. running \in Tasks /\ running[n][i] \in Nat /\ running[n][i] - 1 \in Nat
  <2>1. running[n] \in [0..MaxItems -> Nat]
    BY <1>0 DEF Tasks
  <2>2. running[n][i] \in Nat
    BY <2>1
  <2> QED BY <1>0, <2>2
<1>2. [running[n] EXCEPT ![i] = @ - 1] \in [0..MaxItems -> Nat]
  BY <1>1 DEF Tasks
<1>3. Take(n, i) = [running EXCEPT ![n] = [running[n] EXCEPT ![i] = @ - 1]]
  BY DEF Take
<1>4. Take(n, i) \in Tasks
  BY <1>1, <1>2, <1>3 DEF Tasks
<1>5. /\ Take(n, i)[n][i] = running[n][i] - 1
      /\ \A t \in Nodes, j \in 0..MaxItems :
                  t # n \/ j # i => Take(n, i)[t][j] = running[t][j]
  BY <1>1, <1>3 DEF Tasks
<1>6. ASSUME NEW t \in Nodes, NEW j \in 0..MaxItems PROVE Take(n, i)[t][j] <= running[t][j]
  <2>1. running[t][j] \in Nat /\ running[n][i] \in Nat
    BY <1>1 DEF Tasks
  <2>2. CASE t = n /\ j = i
    BY <1>5, <2>1, <2>2
  <2>3. CASE t # n \/ j # i
    BY <1>5, <2>1, <2>3
  <2> QED BY <2>2, <2>3
<1> QED BY <1>4, <1>5, <1>6

\* What the result of one task does to one node t that had the tasks, the place in
\* running_set and the fan-out entry given: nothing, a plain task, or one task per item.
Kept(t, tasks, rset, fos) ==
    /\ running'[t] = tasks[t] /\ fan_out_states'[t] = fos[t]
    /\ t \in running_set' <=> t \in rset
Plain(t, tasks, fos) ==
    /\ t \in running_set' /\ fan_out_states'[t] = fos[t]
    /\ running'[t][0] = tasks[t][0] + 1
    /\ \A i \in 1..MaxItems : running'[t][i] = tasks[t][i]
Fanned(t, tasks, rset) ==
    /\ t \in running_set' <=> t \in rset
    /\ \E e \in graph.fan : To(e) = t
    /\ \E k \in 1..MaxItems :
          /\ fan_out_states'[t] = [expected |-> k, results |-> {}, completed |-> 0]
          /\ running'[t][0] = tasks[t][0]
          /\ \A i \in 1..MaxItems : running'[t][i] = tasks[t][i] + (IF i <= k THEN 1 ELSE 0)

\* The nodes of S start, plainly or once per item, and the others are left alone.
Spread(S, tasks, rset, fos) ==
    /\ \A t \in Nodes \ S : Kept(t, tasks, rset, fos)
    /\ \A t \in S : Plain(t, tasks, fos) \/ Fanned(t, tasks, rset)

\* The loop's state after a step that spawned is well typed.
SpreadTypes ==
    /\ running' \in Tasks /\ running_set' \subseteq Nodes
    /\ fan_out_states' \in [Nodes -> FanOutState]
    /\ edge_traversal_counts' \in [Edges -> 0..MaxTraversals]

\* What spawn_nodes does to one node: a plain task, one task per item, or nothing.
LEMMA SpawnFacts ==
    ASSUME NEW S \in SUBSET Nodes, NEW items \in [S -> 0..MaxItems], NEW tasks \in Tasks,
           NEW rset \in SUBSET Nodes, NEW fos \in [Nodes -> FanOutState],
           spawn_nodes(S, items, tasks, rset, fos),
           edge_traversal_counts' \in [Edges -> 0..MaxTraversals],
           \A t \in S : items[t] > 0 => \E e \in graph.fan : To(e) = t
    PROVE  SpreadTypes /\ Spread(S, tasks, rset, fos)
<1>1. MaxItems \in Nat /\ 0 \in 0..MaxItems /\ 1..MaxItems \subseteq 0..MaxItems
  BY ParameterAssumption
<1>2. \A t \in Nodes, i \in 0..MaxItems : tasks[t][i] \in Nat
  BY DEF Tasks
<1>3. /\ running_set' = rset \cup {t \in S : items[t] = 0}
      /\ fan_out_states' = [t \in Nodes |->
             IF t \in S /\ items[t] > 0
             THEN [expected |-> items[t], results |-> {}, completed |-> 0] ELSE fos[t]]
      /\ running' = [t \in Nodes |->
             IF t \notin S THEN tasks[t]
             ELSE [i \in 0..MaxItems |->
                      tasks[t][i] + (IF i \in Instances(items[t]) THEN 1 ELSE 0)]]
  BY DEF spawn_nodes
<1>4. running' \in Tasks
  <2>1. ASSUME NEW t \in S, NEW i \in 0..MaxItems
        PROVE  tasks[t][i] + (IF i \in Instances(items[t]) THEN 1 ELSE 0) \in Nat
    BY <1>2
  <2>2. \A t \in Nodes : tasks[t] \in [0..MaxItems -> Nat]
    BY DEF Tasks
  <2> QED BY <1>3, <2>1, <2>2 DEF Tasks
<1>5. fan_out_states' \in [Nodes -> FanOutState]
  <2>1. ASSUME NEW t \in S
        PROVE  [expected |-> items[t], results |-> {}, completed |-> 0] \in FanOutState
    BY DEF FanOutState
  <2> QED BY <1>3, <2>1
<1>6. \A t \in Nodes \ S : Kept(t, tasks, rset, fos)
  BY <1>3 DEF Kept
<1>7. ASSUME NEW t \in S, NEW i \in 0..MaxItems
      PROVE  running'[t][i] = tasks[t][i] + (IF i \in Instances(items[t]) THEN 1 ELSE 0)
  BY <1>3
<1>8. ASSUME NEW t \in S, items[t] = 0 PROVE Plain(t, tasks, fos)
  <2>1. t \in running_set' /\ fan_out_states'[t] = fos[t]
    BY <1>3, <1>8
  <2>2. Instances(items[t]) = {0}
    BY <1>8 DEF Instances
  <2>3. running'[t][0] = tasks[t][0] + 1
    BY <1>1, <1>7, <2>2
  <2>4. ASSUME NEW i \in 1..MaxItems PROVE running'[t][i] = tasks[t][i]
    <3>1. i \in 0..MaxItems /\ i \notin Instances(items[t]) /\ tasks[t][i] \in Nat
      BY <1>1, <1>2, <2>2
    <3> QED BY <1>7, <3>1
  <2> QED BY <2>1, <2>3, <2>4 DEF Plain
<1>9. ASSUME NEW t \in S, items[t] > 0 PROVE Fanned(t, tasks, rset)
  <2>1. /\ t \in running_set' <=> t \in rset
        /\ fan_out_states'[t] = [expected |-> items[t], results |-> {}, completed |-> 0]
    BY <1>3, <1>9
  <2>2. items[t] \in Nat /\ Instances(items[t]) = 1..items[t]
    BY <1>1, <1>9 DEF Instances
  <2>3. running'[t][0] = tasks[t][0]
    <3>1. 0 \notin Instances(items[t]) /\ tasks[t][0] \in Nat
      BY <1>1, <1>2, <2>2
    <3> QED BY <1>1, <1>7, <3>1
  <2>4. ASSUME NEW i \in 1..MaxItems
        PROVE  running'[t][i] = tasks[t][i] + (IF i <= items[t] THEN 1 ELSE 0)
    <3>1. i \in 0..MaxItems /\ (i \in Instances(items[t]) <=> i <= items[t])
      BY <1>1, <2>2
    <3> QED BY <1>7, <3>1
  <2>5. items[t] \in 1..MaxItems /\ \E e \in graph.fan : To(e) = t
    BY <1>1, <1>9
  <2> QED BY <2>1, <2>3, <2>4, <2>5 DEF Fanned
<1>10. running_set' \subseteq Nodes
  BY <1>3
<1>11. \A t \in S : items[t] = 0 \/ items[t] > 0
  BY <1>1
<1>12. Spread(S, tasks, rset, fos)
  BY <1>6, <1>8, <1>9, <1>11 DEF Spread
<1> QED BY <1>4, <1>5, <1>10, <1>12 DEF SpreadTypes

\* How many instances of each target that starts are asked for.
ReadyItems(n, out, from_fan_in, done, outs, rset, fos) ==
    [t \in ReadyNodes(n, out, done, outs, rset, fos) |-> FanOutItems(n, out, t, from_fan_in)]

\* The targets that start are nodes, and an array is asked for only along an edge whose port
\* may hold one, with as many instances as it has items (spawn_ready_nodes).
LEMMA ReadyFacts ==
    ASSUME TypeOK, NEW n \in Nodes, NEW out \in Outputs(n), NEW from_fan_in \in BOOLEAN,
           NEW done, NEW outs, NEW rset, NEW fos, NEW S, NEW items,
           S = ReadyNodes(n, out, done, outs, rset, fos),
           items = ReadyItems(n, out, from_fan_in, done, outs, rset, fos)
    PROVE  /\ S \subseteq Nodes /\ items \in [S -> 0..MaxItems]
           /\ \A t \in S : items[t] > 0 => \E e \in graph.fan : To(e) = t
<1>1. /\ Passed(n, out) \subseteq Outgoing(n) /\ Outgoing(n) \subseteq Edges /\ Edges \subseteq Nat
      /\ \A e \in Edges : To(e) \in Nodes
  BY GraphFacts DEF Passed
<1>2. S \subseteq Nodes
  BY <1>1 DEF ReadyNodes
<1>3. ASSUME NEW t \in S
      PROVE  /\ FanOutItems(n, out, t, from_fan_in) \in 0..MaxItems
             /\ FanOutItems(n, out, t, from_fan_in) > 0 => \E e \in graph.fan : To(e) = t
  <2> DEFINE X == {x \in Passed(n, out) : To(x) = t}
             e == Min(X)
  <2>1. X \subseteq Nat /\ X # {}
    BY <1>1 DEF ReadyNodes
  <2>2. e \in Passed(n, out) /\ To(e) = t
    <3> HIDE DEF X
    <3>1. e \in X
      BY <2>1, MinInSet
    <3> QED BY <3>1 DEF X
  <2>3. FanOutItems(n, out, t, from_fan_in) = IF from_fan_in \/ e \notin graph.fan THEN 0 ELSE out.items[e]
    BY DEF FanOutItems
  <2> HIDE DEF e
  <2>4. CASE from_fan_in \/ e \notin graph.fan
    BY <2>3, <2>4, ParameterAssumption
  <2>5. CASE ~from_fan_in /\ e \in graph.fan
    <3>1. out.items \in [graph.fan \cap Outgoing(n) -> 0..MaxItems] /\ e \in graph.fan \cap Outgoing(n)
      BY <1>1, <2>2, <2>5 DEF Outputs
    <3> QED BY <2>2, <2>3, <2>5, <3>1
  <2> QED BY <2>4, <2>5
<1>4. items \in [S -> 0..MaxItems] /\ \A t \in S : items[t] = FanOutItems(n, out, t, from_fan_in)
  BY <1>3 DEF ReadyItems
<1> QED BY <1>2, <1>3, <1>4

\* Only edges out of n are counted, and none beyond max_traversals.
LEMMA CountFacts ==
    ASSUME TypeOK, NEW n \in Nodes, NEW out, NEW counts,
           counts = [e \in Edges |-> edge_traversal_counts[e] + (IF e \in Passed(n, out) THEN 1 ELSE 0)]
    PROVE  /\ counts \in [Edges -> 0..MaxTraversals]
           /\ \A e \in Edges : e \notin Outgoing(n) => counts[e] = edge_traversal_counts[e]
<1>1. /\ Passed(n, out) \subseteq Outgoing(n)
      /\ \A e \in Passed(n, out) : edge_traversal_counts[e] < MaxTraversals
  BY DEF Passed
<1>2. \A e \in Edges : edge_traversal_counts[e] \in 0..MaxTraversals
  BY DEF TypeOK
<1> QED BY <1>1, <1>2, ParameterAssumption

\* A successful result: which nodes start, and what that does to every node
\* (evaluate_edges_and_find_ready followed by spawn_ready_nodes).
LEMMA SucceedsFacts ==
    ASSUME TypeOK, NEW n \in Nodes, node_succeeds(n)
    PROVE  /\ SpreadTypes
           /\ \E out \in Outputs(n), S \in SUBSET Nodes :
                 /\ node_outputs' = [node_outputs EXCEPT ![n] = out]
                 /\ S = ReadyNodes(n, out, completed \cup {n}, node_outputs', running_set \ {n}, fan_out_states)
                 /\ completed' = (completed \cup {n}) \ S
                 /\ edge_traversal_counts' =
                       [e \in Edges |-> edge_traversal_counts[e] + (IF e \in Passed(n, out) THEN 1 ELSE 0)]
                 /\ Spread(S, Take(n, 0), running_set \ {n}, fan_out_states)
<1>1. 0 \in 0..MaxItems /\ MaxItems \in Nat /\ running[n][0] > 0
  BY ParameterAssumption DEF node_succeeds
<1>2. PICK out \in Outputs(n) :
        /\ node_outputs' = [node_outputs EXCEPT ![n] = out]
        /\ evaluate_downstream(n, out, FALSE, completed \cup {n}, Take(n, 0),
                               running_set \ {n}, fan_out_states, node_outputs')
  BY DEF node_succeeds
<1>3. PICK done, tasks, rset, fos, outs, ffi :
        /\ done = completed \cup {n} /\ tasks = Take(n, 0) /\ rset = running_set \ {n}
        /\ fos = fan_out_states /\ outs = node_outputs' /\ ffi = FALSE
  OBVIOUS
<1>4. tasks \in Tasks /\ rset \in SUBSET Nodes /\ fos \in [Nodes -> FanOutState] /\ ffi \in BOOLEAN
  <2>1. Take(n, 0) \in Tasks
    BY <1>1, TakeFacts
  <2>2. rset \in SUBSET Nodes /\ fos \in [Nodes -> FanOutState]
    BY <1>3 DEF TypeOK
  <2> QED BY <1>3, <2>1, <2>2
<1>5. evaluate_downstream(n, out, ffi, done, tasks, rset, fos, outs)
  BY <1>2, <1>3
<1>6. PICK S, items : /\ S = ReadyNodes(n, out, done, outs, rset, fos)
                      /\ items = ReadyItems(n, out, ffi, done, outs, rset, fos)
  OBVIOUS
<1>7. /\ completed' = done \ S /\ spawn_nodes(S, items, tasks, rset, fos)
      /\ edge_traversal_counts' =
            [e \in Edges |-> edge_traversal_counts[e] + (IF e \in Passed(n, out) THEN 1 ELSE 0)]
  BY <1>5, <1>6 DEF evaluate_downstream, ReadyItems
<1>8. /\ S \subseteq Nodes /\ items \in [S -> 0..MaxItems]
      /\ \A t \in S : items[t] > 0 => \E e \in graph.fan : To(e) = t
  BY <1>4, <1>6, ReadyFacts
<1>9. edge_traversal_counts' \in [Edges -> 0..MaxTraversals]
  BY <1>7, CountFacts
<1>10. SpreadTypes /\ Spread(S, tasks, rset, fos)
  BY <1>4, <1>7, <1>8, <1>9, SpawnFacts
<1> QED BY <1>2, <1>3, <1>6, <1>7, <1>8, <1>10

\* Recording the result of an instance that was expected keeps the entry well typed
\* (handle_fan_out_completion).
LEMMA RecordTypes ==
    ASSUME NEW st \in FanOutState, NEW i \in 1..MaxItems, NEW ok \in BOOLEAN
    PROVE  /\ record_instance(st, i, ok) \in FanOutState
           /\ record_instance(st, i, ok).expected = st.expected
           /\ record_instance(st, i, ok).results = st.results \cup {i}
           /\ record_instance(st, i, ok).completed = st.completed + 1
<1>1. st.results \cup {i} \in SUBSET (1..MaxItems) /\ st.completed + 1 \in Nat
  BY DEF FanOutState
<1>2. ASSUME NEW X \in SUBSET (1..MaxItems), NEW k \in Nat
      PROVE  [st EXCEPT !.results = X, !.completed = k] \in FanOutState
  BY DEF FanOutState
<1>3. record_instance(st, i, ok) \in FanOutState
  BY <1>1, <1>2 DEF record_instance
<1> QED BY <1>3 DEF record_instance, FanOutState

\* The three endings of handle_fan_out_completion, and the last one node by node.
LEMMA InstanceCases ==
    ASSUME TypeOK, NEW n \in Nodes, NEW i \in 0..MaxItems, NEW ok \in BOOLEAN, instance_returns(n, i, ok)
    PROVE  /\ i \in 1..MaxItems /\ running[n][i] > 0 /\ pc = "await" /\ pc' = "check"
           /\ UNCHANGED <<graph, cancel, failed, status, notified, registered>>
           /\ \/ /\ fan_out_states[n].expected = 0 /\ fan_out_states' = fan_out_states
                 /\ running' = Take(n, i)
                 /\ UNCHANGED <<completed, node_outputs, edge_traversal_counts, running_set>>
              \/ /\ fan_out_states[n].expected > 0
                 /\ record_instance(fan_out_states[n], i, ok).completed # fan_out_states[n].expected
                 /\ fan_out_states' = [fan_out_states EXCEPT ![n] = record_instance(@, i, ok)]
                 /\ running' = Take(n, i)
                 /\ UNCHANGED <<completed, node_outputs, edge_traversal_counts, running_set>>
              \/ /\ fan_out_states[n].expected > 0
                 /\ record_instance(fan_out_states[n], i, ok).completed = fan_out_states[n].expected
                 /\ \E out \in Outputs(n) :
                       /\ node_outputs' = [node_outputs EXCEPT ![n] = out]
                       /\ evaluate_downstream(n, out, TRUE, completed \cup {n}, Take(n, i), running_set,
                                   [fan_out_states EXCEPT ![n] = NoFanOut], node_outputs')
<1>1. MaxItems \in Nat /\ i \in 1..MaxItems /\ running[n][i] > 0 /\ pc = "await" /\ pc' = "check"
      /\ UNCHANGED <<graph, cancel, failed, status, notified, registered>>
  BY ParameterAssumption DEF instance_returns
<1>2. /\ fan_out_states[n] \in FanOutState /\ fan_out_states[n].expected \in Nat
      /\ record_instance(fan_out_states[n], i, ok).expected = fan_out_states[n].expected
  <2>1. fan_out_states[n] \in FanOutState
    BY DEF TypeOK
  <2>2. \A st \in FanOutState : st.expected \in Nat
    BY <1>1 DEF FanOutState
  <2> QED BY <1>1, <2>1, <2>2, RecordTypes
<1>3. CASE fan_out_states[n].expected = 0
  BY <1>1, <1>3 DEF instance_returns
<1>4. CASE /\ fan_out_states[n].expected > 0
           /\ record_instance(fan_out_states[n], i, ok).completed # fan_out_states[n].expected
  BY <1>1, <1>2, <1>4 DEF instance_returns, fan_in_reached
<1>5. CASE /\ fan_out_states[n].expected > 0
           /\ record_instance(fan_out_states[n], i, ok).completed = fan_out_states[n].expected
  BY <1>1, <1>2, <1>5 DEF instance_returns, fan_in_reached
<1>6. fan_out_states[n].expected = 0 \/ fan_out_states[n].expected > 0
  BY <1>2
<1> QED BY Zenon, <1>3, <1>4, <1>5, <1>6

\* The last instance: the node completes with the merged array and nothing fans out from it.
LEMMA LastInstanceFacts ==
    ASSUME TypeOK, NEW n \in Nodes, NEW i \in 1..MaxItems, running[n][i] > 0, NEW out \in Outputs(n),
           node_outputs' = [node_outputs EXCEPT ![n] = out],
           evaluate_downstream(n, out, TRUE, completed \cup {n}, Take(n, i), running_set,
                               [fan_out_states EXCEPT ![n] = NoFanOut], node_outputs')
    PROVE  /\ SpreadTypes
           /\ \E S \in SUBSET Nodes :
                 /\ S = ReadyNodes(n, out, completed \cup {n}, node_outputs', running_set,
                                   [fan_out_states EXCEPT ![n] = NoFanOut])
                 /\ completed' = (completed \cup {n}) \ S
                 /\ edge_traversal_counts' =
                       [e \in Edges |-> edge_traversal_counts[e] + (IF e \in Passed(n, out) THEN 1 ELSE 0)]
                 /\ Spread(S, Take(n, i), running_set, [fan_out_states EXCEPT ![n] = NoFanOut])
<1>3. PICK done, tasks, rset, fos, outs, ffi :
        /\ done = completed \cup {n} /\ tasks = Take(n, i) /\ rset = running_set
        /\ fos = [fan_out_states EXCEPT ![n] = NoFanOut] /\ outs = node_outputs' /\ ffi = TRUE
  OBVIOUS
<1>4. tasks \in Tasks /\ rset \in SUBSET Nodes /\ fos \in [Nodes -> FanOutState] /\ ffi \in BOOLEAN
  <2>0. MaxItems \in Nat /\ 0 \in 0..MaxItems
    BY ParameterAssumption
  <2>1. Take(n, i) \in Tasks
    BY <2>0, TakeFacts
  <2>2. NoFanOut \in FanOutState
    BY <2>0 DEF NoFanOut, FanOutState
  <2>3. rset \in SUBSET Nodes /\ fos \in [Nodes -> FanOutState]
    BY <1>3, <2>2 DEF TypeOK
  <2> QED BY <1>3, <2>1, <2>3
<1>5. evaluate_downstream(n, out, ffi, done, tasks, rset, fos, outs)
  BY <1>3
<1>6. PICK S, items : /\ S = ReadyNodes(n, out, done, outs, rset, fos)
                      /\ items = ReadyItems(n, out, ffi, done, outs, rset, fos)
  OBVIOUS
<1>7. /\ completed' = done \ S /\ spawn_nodes(S, items, tasks, rset, fos)
      /\ edge_traversal_counts' =
            [e \in Edges |-> edge_traversal_counts[e] + (IF e \in Passed(n, out) THEN 1 ELSE 0)]
  BY <1>5, <1>6 DEF evaluate_downstream, ReadyItems
<1>8. /\ S \subseteq Nodes /\ items \in [S -> 0..MaxItems]
      /\ \A t \in S : items[t] > 0 => \E e \in graph.fan : To(e) = t
  BY <1>4, <1>6, ReadyFacts
<1>9. edge_traversal_counts' \in [Edges -> 0..MaxTraversals]
  BY <1>7, CountFacts
<1>10. SpreadTypes /\ Spread(S, tasks, rset, fos)
  BY <1>4, <1>7, <1>8, <1>9, SpawnFacts
<1> QED BY <1>3, <1>6, <1>7, <1>8, <1>10

-----------------------------------------------------------------------------
(* Type correctness, for every graph *)

\* The graph of a run does not change, and neither do the things read off it.
LEMMA GraphFixed ==
    ASSUME UNCHANGED graph
    PROVE  /\ IsGraph(graph)' <=> IsGraph(graph)
           /\ Edges' = Edges /\ \A e : From(e)' = From(e) /\ To(e)' = To(e)
           /\ \A n : Outgoing(n)' = Outgoing(n) /\ Incoming(n)' = Incoming(n)
           /\ \A n : Outputs(n)' = Outputs(n)
           /\ find_entry_nodes' = find_entry_nodes
BY DEF IsGraph, Edges, From, To, Outgoing, Incoming, Outputs, find_entry_nodes

\* Every run starts well typed.
LEMMA InitTypeOK == Init => TypeOK
<1> SUFFICES ASSUME Init PROVE TypeOK
  OBVIOUS
<1>1. IsGraph(graph) /\ 0 \in 0..MaxItems /\ 0 \in 0..MaxTraversals
  BY GraphAssumption, ParameterAssumption DEF Init
<1>2. NoFanOut \in FanOutState /\ NoTasks \in [0..MaxItems -> Nat]
  BY <1>1 DEF NoFanOut, FanOutState, NoTasks
<1>3. edge_traversal_counts \in [Edges -> 0..MaxTraversals]
  BY <1>1 DEF Init
<1>4. /\ fan_out_states \in [Nodes -> FanOutState] /\ running \in [Nodes -> [0..MaxItems -> Nat]]
      /\ DOMAIN node_outputs = Nodes /\ \A n \in Nodes : node_outputs[n] = NoOutput
  BY <1>2 DEF Init
<1> QED BY <1>1, <1>3, <1>4 DEF Init, TypeOK

\* The graph of a run stays what it was.
LEMMA GraphStays == [Next]_vars => UNCHANGED graph
<1>1. LoopStep \/ request_cancel \/ Terminated \/ UNCHANGED vars => UNCHANGED graph
  BY DEF loopVars, LoopStep, start_run, request_cancel, check_loop, broadcast_completed, cleanup,
         Terminated, vars
<1>2. ASSUME NEW n \in Nodes, node_succeeds(n) \/ node_fails(n) PROVE UNCHANGED graph
  BY <1>2 DEF loopVars, node_succeeds, node_fails
<1>3. ASSUME NEW n \in Nodes, NEW i \in 0..MaxItems,
             task_panics(n, i) \/ detached_task_ends(n, i) \/ \E ok \in BOOLEAN : instance_returns(n, i, ok)
      PROVE  UNCHANGED graph
  BY <1>3 DEF loopVars, task_panics, detached_task_ends, instance_returns
<1> QED BY <1>1, <1>2, <1>3 DEF Next, TaskReturns

\* No step of the loop, no result and no cancel request breaks the types.
LEMMA NextTypeOK == TypeOK /\ [Next]_vars => TypeOK'
<1> SUFFICES ASSUME TypeOK, [Next]_vars PROVE TypeOK'
  OBVIOUS
<1> USE DEF loopVars
<1>0. /\ 0 \in 0..MaxItems /\ MaxItems \in Nat /\ running \in Tasks
      /\ \A n \in Nodes, i \in 0..MaxItems : running[n][i] \in Nat
  <2>1. MaxItems \in Nat /\ running \in Tasks
    BY ParameterAssumption DEF TypeOK, Tasks
  <2> QED BY <2>1 DEF Tasks
<1>1. UNCHANGED graph
  BY GraphStays
<1>2. /\ IsGraph(graph)' /\ Edges' = Edges /\ \A n : Outputs(n)' = Outputs(n)
  BY <1>1, GraphFixed DEF TypeOK
<1>3. CASE UNCHANGED vars
  BY <1>2, <1>3 DEF vars, TypeOK
<1>4. CASE start_run
  <2>1. [NoTasks EXCEPT ![0] = 1] \in [0..MaxItems -> Nat] /\ NoTasks \in [0..MaxItems -> Nat]
    BY <1>0 DEF NoTasks
  <2>2. running' \in [Nodes -> [0..MaxItems -> Nat]] /\ running_set' \subseteq Nodes
    BY <1>4, <2>1 DEF start_run, find_entry_nodes
  <2>3. /\ DOMAIN node_outputs' = Nodes
        /\ \A n \in Nodes : node_outputs'[n] \in Outputs(n) \cup {NoOutput, TriggerInputs}
    BY <1>4 DEF start_run, TypeOK
  <2> QED BY <1>2, <1>4, <2>2, <2>3 DEF start_run, TypeOK
<1>5. CASE check_loop
  <2>1. status' \in {"none", "Completed", "Failed", "Cancelled"} /\ pc' \in {"notify", "await"}
    BY <1>5 DEF check_loop, TypeOK, final_status
  <2> QED BY <1>2, <1>5, <2>1 DEF check_loop, TypeOK
<1>6. CASE broadcast_completed \/ cleanup \/ request_cancel
  <2>1. CASE broadcast_completed
    <3>1. notified' \in Nat /\ pc' = "cleanup"
      BY <2>1 DEF broadcast_completed, TypeOK
    <3> QED BY <1>2, <2>1, <3>1 DEF broadcast_completed, TypeOK
  <2>2. CASE cleanup
    BY <1>2, <2>2 DEF cleanup, TypeOK
  <2>3. CASE request_cancel
    BY <1>2, <2>3 DEF request_cancel, TypeOK
  <2> QED BY <1>6, <2>1, <2>2, <2>3
<1>7. ASSUME NEW n \in Nodes, node_succeeds(n) PROVE TypeOK'
  <2>1. pc' = "check" /\ UNCHANGED <<graph, cancel, failed, status, notified, registered>>
    BY <1>7 DEF node_succeeds
  <2>2. SpreadTypes
    BY <1>7, SucceedsFacts
  <2>3. PICK out \in Outputs(n), S \in SUBSET Nodes :
          node_outputs' = [node_outputs EXCEPT ![n] = out] /\ completed' = (completed \cup {n}) \ S
    BY <1>7, SucceedsFacts
  <2>4. /\ DOMAIN node_outputs' = Nodes
        /\ \A m \in Nodes : node_outputs'[m] \in Outputs(m) \cup {NoOutput, TriggerInputs}
    BY <2>3 DEF TypeOK
  <2> QED BY <1>2, <2>1, <2>2, <2>3, <2>4 DEF TypeOK, Tasks, SpreadTypes
<1>8. ASSUME NEW n \in Nodes, node_fails(n) PROVE TypeOK'
  <2> DEFINE rset == running_set \ {n}
             S == find_ready_after_failure(n, rset, failed \cup {n})
  <2>1. /\ running[n][0] > 0 /\ pc' = "check" /\ failed' = failed \cup {n}
        /\ running_set' = rset \cup S
        /\ running' = [t \in Nodes |->
               IF t \in S
               THEN [Take(n, 0)[t] EXCEPT ![0] = @ + Cardinality(Outgoing(n) \cap Incoming(t))]
               ELSE Take(n, 0)[t]]
        /\ UNCHANGED <<graph, cancel, completed, node_outputs, edge_traversal_counts,
                       fan_out_states, status, notified, registered>>
    BY <1>8 DEF node_fails
  <2>2. Take(n, 0) \in Tasks /\ \A t \in Nodes : Take(n, 0)[t] \in [0..MaxItems -> Nat]
    BY <1>0, <2>1, TakeFacts DEF Tasks
  <2>3. S \subseteq Nodes
    BY GraphFacts DEF find_ready_after_failure
  <2>4. \A t \in Nodes : Cardinality(Outgoing(n) \cap Incoming(t)) \in Nat
    BY GraphFacts, FS_Subset, FS_CardinalityType
  <2> HIDE DEF S
  <2>5. ASSUME NEW t \in Nodes
        PROVE  [Take(n, 0)[t] EXCEPT ![0] = @ + Cardinality(Outgoing(n) \cap Incoming(t))]
                   \in [0..MaxItems -> Nat]
    <3>1. ASSUME NEW f \in [0..MaxItems -> Nat], NEW k \in Nat
          PROVE  [f EXCEPT ![0] = @ + k] \in [0..MaxItems -> Nat]
      BY <1>0
    <3> QED BY <2>2, <2>4, <3>1
  <2>6. running' \in [Nodes -> [0..MaxItems -> Nat]] /\ running_set' \subseteq Nodes
    BY <2>1, <2>2, <2>3, <2>5 DEF TypeOK
  <2> QED BY <1>2, <2>1, <2>6 DEF TypeOK
<1>9. ASSUME NEW n \in Nodes, NEW i \in 0..MaxItems, NEW ok \in BOOLEAN, instance_returns(n, i, ok)
      PROVE  TypeOK'
  <2> DEFINE st == record_instance(fan_out_states[n], i, ok)
  <2>1. /\ i \in 1..MaxItems /\ running[n][i] > 0 /\ pc' = "check"
        /\ UNCHANGED <<graph, cancel, failed, status, notified, registered>>
    BY <1>9, InstanceCases
  <2>2. Take(n, i) \in Tasks
    BY <2>1, TakeFacts
  <2>3. fan_out_states[n] \in FanOutState /\ st \in FanOutState
    BY <2>1, RecordTypes DEF TypeOK
  <2>4. CASE /\ fan_out_states' \in {fan_out_states, [fan_out_states EXCEPT ![n] = st]}
             /\ running' = Take(n, i)
             /\ UNCHANGED <<completed, node_outputs, edge_traversal_counts, running_set>>
    <3>1. fan_out_states' \in [Nodes -> FanOutState]
      BY <2>3, <2>4 DEF TypeOK
    <3> QED BY <1>2, <2>1, <2>2, <2>4, <3>1 DEF TypeOK, Tasks
  <2>5. ASSUME NEW out \in Outputs(n),
               node_outputs' = [node_outputs EXCEPT ![n] = out],
               evaluate_downstream(n, out, TRUE, completed \cup {n}, Take(n, i), running_set,
                                   [fan_out_states EXCEPT ![n] = NoFanOut], node_outputs')
        PROVE  TypeOK'
    <3>1. SpreadTypes
      BY <2>1, <2>5, LastInstanceFacts
    <3>2. PICK S \in SUBSET Nodes : completed' = (completed \cup {n}) \ S
      BY <2>1, <2>5, LastInstanceFacts
    <3>3. /\ DOMAIN node_outputs' = Nodes
          /\ \A m \in Nodes : node_outputs'[m] \in Outputs(m) \cup {NoOutput, TriggerInputs}
      BY <2>5 DEF TypeOK
    <3> QED BY <1>2, <2>1, <3>1, <3>2, <3>3 DEF TypeOK, Tasks, SpreadTypes
  <2> QED BY <1>9, <2>4, <2>5, InstanceCases
<1>10. ASSUME NEW n \in Nodes, NEW i \in 0..MaxItems, task_panics(n, i) \/ detached_task_ends(n, i)
       PROVE  TypeOK'
  <2>1. running' = Take(n, i) /\ running[n][i] > 0 /\ pc' \in {"check", pc} /\ failed' \in {failed, failed \cup {"unknown"}}
        /\ UNCHANGED <<graph, cancel, completed, node_outputs, edge_traversal_counts,
                       fan_out_states, running_set, status, notified, registered>>
    BY <1>10 DEF task_panics, detached_task_ends
  <2>2. Take(n, i) \in Tasks
    BY <2>1, TakeFacts
  <2> QED BY <1>2, <2>1, <2>2 DEF TypeOK, Tasks
<1> QED BY <1>3, <1>4, <1>5, <1>6, <1>7, <1>8, <1>9, <1>10 DEF Next, LoopStep, TaskReturns, Terminated

\* Every reachable state of every run is well typed; in particular no edge is counted as
\* traversed more than max_traversals times.
THEOREM TypeCorrect == Spec => []TypeOK
BY InitTypeOK, NextTypeOK, PTL DEF Spec

-----------------------------------------------------------------------------
(* The final status, for every graph *)

\* Why the status is sound: it is set where the loop is left, and as long as nothing failed
\* every node the loop believes to run has a plain task in flight, so an empty JoinSet
\* means an empty running_set (only a panic breaks the two apart, and a panic fails the run).
StatusInv ==
    /\ status = "none" <=> pc \in {"start", "check", "await"}
    /\ status = "none" /\ failed = {} => \A n \in running_set : running[n][0] > 0
    /\ StatusSound

\* A node set that is as large as all nodes is all of them (done_count against nodes.len()).
LEMMA AllCounted ==
    ASSUME NEW S \in SUBSET Nodes, Cardinality(S) >= Cardinality(Nodes)
    PROVE  S = Nodes
<1>1. /\ IsFiniteSet(S) /\ Cardinality(S) \in Nat /\ Cardinality(Nodes) \in Nat
      /\ Cardinality(S) <= Cardinality(Nodes)
      /\ Cardinality(S) = Cardinality(Nodes) => S = Nodes
  BY NodesAssumption, FS_Subset, FS_CardinalityType
<1> QED BY <1>1

\* The status the loop computes on its way out.
LEMMA FinalStatusSound ==
    ASSUME TypeOK, failed = {} => \A n \in running_set : running[n][0] > 0,
           ~cancel => InFlight = {}
    PROVE  /\ final_status = "Completed" => completed = Nodes /\ failed = {} /\ InFlight = {}
           /\ final_status = "Failed" => InFlight = {} /\ (failed # {} \/ completed # Nodes)
           /\ final_status # "none"
<1>1. 0 \in 0..MaxItems /\ running_set \subseteq Nodes /\ completed \in SUBSET Nodes
  BY ParameterAssumption DEF TypeOK
<1>2. CASE cancel
  BY <1>2 DEF final_status
<1>3. CASE ~cancel /\ DoneCount < Cardinality(Nodes) /\ running_set = {} /\ ~all_reachable_done
  <2>1. final_status = "Failed" /\ InFlight = {} /\ completed # Nodes
    BY <1>3 DEF final_status, all_reachable_done
  <2> QED BY <2>1
<1>4. CASE ~cancel /\ ~(DoneCount < Cardinality(Nodes) /\ running_set = {} /\ ~all_reachable_done)
  <2>1. final_status = IF failed = {} THEN "Completed" ELSE "Failed"
    BY <1>4 DEF final_status
  <2>2. CASE failed # {}
    BY <1>4, <2>1, <2>2
  <2>3. CASE failed = {}
    <3>1. running_set = {}
      BY <1>1, <1>4, <2>3 DEF InFlight
    <3>2. DoneCount = Cardinality(completed) /\ Cardinality(completed) \in Nat /\ Cardinality(Nodes) \in Nat
      <4>1. Cardinality(failed) = 0 /\ Cardinality(completed) \in Nat /\ Cardinality(Nodes) \in Nat
        BY <1>1, <2>3, NodesAssumption, FS_Subset, FS_CardinalityType, FS_EmptySet
      <4> QED BY <4>1 DEF DoneCount
    <3>3. CASE all_reachable_done
      BY <1>1, <1>4, <2>1, <2>3, <3>3 DEF all_reachable_done
    <3>4. CASE ~(DoneCount < Cardinality(Nodes))
      <4>1. completed = Nodes
        BY <1>1, <3>2, <3>4, AllCounted
      <4> QED BY <1>4, <2>1, <2>3, <4>1
    <3> QED BY <1>4, <3>1, <3>3, <3>4
  <2> QED BY <2>2, <2>3
<1> QED BY <1>2, <1>3, <1>4

\* What the return of one task leaves of the tasks at index 0.
LEMMA SpreadKeepsPlain ==
    ASSUME NEW S \in SUBSET Nodes, NEW tasks \in Tasks, NEW rset \in SUBSET Nodes, NEW fos,
           Spread(S, tasks, rset, fos), running_set' \subseteq Nodes,
           \A t \in rset : tasks[t][0] > 0
    PROVE  \A t \in running_set' : running'[t][0] > 0
<1> SUFFICES ASSUME NEW t \in running_set' PROVE running'[t][0] > 0
  OBVIOUS
<1>1. t \in Nodes /\ tasks[t][0] \in Nat
  BY ParameterAssumption DEF Tasks
<1>2. CASE t \notin S
  BY <1>1, <1>2 DEF Spread, Kept
<1>3. CASE t \in S
  <2>1. Plain(t, tasks, fos) \/ Fanned(t, tasks, rset)
    BY <1>3 DEF Spread
  <2>2. CASE Plain(t, tasks, fos)
    BY <1>1, <2>2 DEF Plain
  <2>3. CASE Fanned(t, tasks, rset)
    BY <1>1, <2>3 DEF Fanned
  <2> QED BY <2>1, <2>2, <2>3
<1> QED BY <1>2, <1>3

\* No step breaks it.
LEMMA NextStatusInv == TypeOK /\ StatusInv /\ [Next]_vars => StatusInv'
<1> SUFFICES ASSUME TypeOK, StatusInv, [Next]_vars PROVE StatusInv'
  OBVIOUS
<1> USE DEF loopVars
<1>0. /\ 0 \in 0..MaxItems /\ MaxItems \in Nat /\ running \in Tasks
      /\ running_set \in SUBSET Nodes /\ fan_out_states \in [Nodes -> FanOutState]
      /\ \A n \in Nodes, i \in 0..MaxItems : running[n][i] \in Nat
  <2>1. MaxItems \in Nat /\ running \in Tasks
        /\ running_set \in SUBSET Nodes /\ fan_out_states \in [Nodes -> FanOutState]
    BY ParameterAssumption DEF TypeOK, Tasks
  <2> QED BY <2>1 DEF Tasks
<1>3. CASE UNCHANGED vars
  BY <1>3 DEF vars, StatusInv, StatusSound, InFlight
<1>4. CASE start_run
  <2>1. status' = "none" /\ pc' = "check"
    BY <1>4 DEF start_run, StatusInv
  <2>2. ASSUME NEW n \in running_set' PROVE running'[n][0] > 0
    <3>1. n \in Nodes /\ running'[n] = [NoTasks EXCEPT ![0] = 1]
      BY <1>4 DEF start_run, find_entry_nodes
    <3>2. [NoTasks EXCEPT ![0] = 1][0] = 1
      BY <1>0 DEF NoTasks
    <3> QED BY <3>1, <3>2
  <2> QED BY <2>1, <2>2 DEF StatusInv, StatusSound
<1>5. CASE check_loop
  <2>1. /\ UNCHANGED <<graph, cancel, completed, failed, running, running_set>> /\ status = "none" /\ InFlight' = InFlight
    BY <1>5 DEF check_loop, StatusInv, InFlight
  <2>2. CASE cancel \/ InFlight = {}
    <3>1. pc' = "notify" /\ status' = final_status
      BY <1>5, <2>2 DEF check_loop
    <3>2. /\ final_status = "Completed" => completed = Nodes /\ failed = {} /\ InFlight = {}
          /\ final_status = "Failed" => InFlight = {} /\ (failed # {} \/ completed # Nodes)
          /\ final_status # "none"
      BY <2>1, <2>2, FinalStatusSound DEF StatusInv
    <3> QED BY <2>1, <3>1, <3>2 DEF StatusInv, StatusSound
  <2>3. CASE ~(cancel \/ InFlight = {})
    BY <1>5, <2>1, <2>3 DEF check_loop, StatusInv, StatusSound
  <2> QED BY <2>2, <2>3
<1>6. CASE broadcast_completed \/ cleanup \/ request_cancel
  BY <1>6 DEF broadcast_completed, cleanup, request_cancel, StatusInv, StatusSound, InFlight
<1>7. ASSUME NEW n \in Nodes, node_succeeds(n) PROVE StatusInv'
  <2>1. /\ running[n][0] > 0 /\ pc = "await" /\ pc' = "check" /\ status' = status /\ failed' = failed
    BY <1>7 DEF node_succeeds
  <2>2. PICK S \in SUBSET Nodes : Spread(S, Take(n, 0), running_set \ {n}, fan_out_states)
    BY <1>7, SucceedsFacts
  <2>3. running_set' \subseteq Nodes
    BY <1>7, SucceedsFacts DEF SpreadTypes
  <2>4. ASSUME failed = {} PROVE \A t \in running_set' : running'[t][0] > 0
    <3>1. Take(n, 0) \in Tasks
      BY <1>0, <2>1, TakeFacts
    <3>2. \A t \in running_set \ {n} : Take(n, 0)[t][0] > 0
      <4>1. \A t \in running_set \ {n} : running[t][0] > 0
        BY <2>1, <2>4 DEF StatusInv
      <4>2. \A t \in running_set \ {n} : Take(n, 0)[t][0] = running[t][0]
        BY <1>0, <2>1, TakeFacts
      <4> QED BY <4>1, <4>2
    <3> QED BY <1>0, <2>2, <2>3, <3>1, <3>2, SpreadKeepsPlain
  <2> QED BY <2>1, <2>4 DEF StatusInv, StatusSound
<1>8. ASSUME NEW n \in Nodes, node_fails(n) PROVE StatusInv'
  <2>1. failed' # {} /\ pc = "await" /\ pc' = "check" /\ status' = status
    BY <1>8 DEF node_fails
  <2> QED BY <2>1 DEF StatusInv, StatusSound
<1>9. ASSUME NEW n \in Nodes, NEW i \in 0..MaxItems, NEW ok \in BOOLEAN, instance_returns(n, i, ok)
      PROVE  StatusInv'
  <2>1. /\ i \in 1..MaxItems /\ running[n][i] > 0 /\ pc = "await" /\ pc' = "check"
        /\ status' = status /\ failed' = failed
    BY <1>9, InstanceCases
  <2>2. Take(n, i) \in Tasks /\ \A t \in Nodes : Take(n, i)[t][0] = running[t][0]
    BY <1>0, <2>1, TakeFacts
  <2>3. ASSUME failed = {} PROVE \A t \in running_set' : running'[t][0] > 0
    <3>1. \A t \in running_set : Take(n, i)[t][0] > 0
      BY <1>0, <2>1, <2>2, <2>3 DEF StatusInv
    <3>2. CASE running' = Take(n, i) /\ running_set' = running_set
      BY <3>1, <3>2
    <3>3. ASSUME NEW out \in Outputs(n),
                 node_outputs' = [node_outputs EXCEPT ![n] = out],
                 evaluate_downstream(n, out, TRUE, completed \cup {n}, Take(n, i), running_set,
                                     [fan_out_states EXCEPT ![n] = NoFanOut], node_outputs')
          PROVE  \A t \in running_set' : running'[t][0] > 0
      <4>1. PICK S \in SUBSET Nodes :
              Spread(S, Take(n, i), running_set, [fan_out_states EXCEPT ![n] = NoFanOut])
        BY <2>1, <3>3, LastInstanceFacts
      <4>2. running_set' \subseteq Nodes
        BY <2>1, <3>3, LastInstanceFacts DEF SpreadTypes
      <4> QED BY <1>0, <2>2, <3>1, <4>1, <4>2, SpreadKeepsPlain
    <3> QED BY <1>9, <3>2, <3>3, InstanceCases
  <2> QED BY <2>1, <2>3 DEF StatusInv, StatusSound
<1>10. ASSUME NEW n \in Nodes, NEW i \in 0..MaxItems, task_panics(n, i) PROVE StatusInv'
  <2>1. failed' # {} /\ pc = "await" /\ pc' = "check" /\ status' = status
    BY <1>10 DEF task_panics
  <2> QED BY <2>1 DEF StatusInv, StatusSound
<1>11. ASSUME NEW n \in Nodes, NEW i \in 0..MaxItems, detached_task_ends(n, i) PROVE StatusInv'
  <2>1. /\ pc \in {"notify", "cleanup", "done"} /\ running[n][i] > 0
        /\ UNCHANGED <<pc, completed, failed, status>>
    BY <1>11 DEF detached_task_ends
  <2>2. InFlight # {} /\ status # "none"
    BY <2>1 DEF InFlight, StatusInv
  <2> QED BY <2>1, <2>2 DEF StatusInv, StatusSound
<1> QED BY <1>3, <1>4, <1>5, <1>6, <1>7, <1>8, <1>9, <1>10, <1>11 DEF Next, LoopStep, TaskReturns, Terminated

\* The final status of a run tells the truth whatever the graph, the order of the results,
\* the panics and the moment of the cancellation (run.rs, the status after the loop).
THEOREM FinalStatusCorrect == Spec => []StatusSound
<1>1. Init => StatusInv
  BY DEF Init, StatusInv, StatusSound
<1>2. StatusInv => StatusSound
  BY DEF StatusInv
<1> QED BY <1>1, <1>2, InitTypeOK, NextTypeOK, NextStatusInv, PTL DEF Spec

-----------------------------------------------------------------------------
(* The books of the loop *)

\* The graphs for which the books agree with what is in flight: no two edges join the same
\* two nodes (spawn_after_failure would start the target once per edge), and in a graph with
\* a cycle the target of an edge that may carry an array has no other incoming edge (after a
\* failure of another, re-executed source a fanned-out target would be started again).
Simple(g) ==
    /\ \A e, f \in DOMAIN g.edges : g.edges[e] = g.edges[f] => e = f
    /\ \/ g.back = {}
       \/ \A e \in g.fan, f \in DOMAIN g.edges : g.edges[f].to = g.edges[e].to => f = e

\* What the loop's books say of node n agrees with itself and with the tasks of n in flight.
Book(n) ==
    LET st == fan_out_states[n] IN
    /\ \A i \in 0..MaxItems : running[n][i] <= 1
    /\ running[n][0] > 0 => n \in running_set
    /\ n \in running_set => n \notin completed /\ n \notin failed
    /\ n \in completed => n \notin failed
    /\ st.expected > 0 => /\ n \notin completed /\ n \notin failed /\ n \notin running_set
                          /\ \E e \in graph.fan : To(e) = n
    /\ st.results \subseteq 1..st.expected /\ st.completed = Cardinality(st.results)
    /\ \A i \in 1..MaxItems : running[n][i] > 0 => i <= st.expected /\ i \notin st.results

\* n has been started at least once.
HasStarted(n) == n \in completed \cup failed \cup running_set \/ fan_out_states[n].expected > 0

\* Without back-edges nothing has started before everything it depends on has settled.
Settled ==
    graph.back = {} =>
        \A t \in Nodes : HasStarted(t) => \A e \in Incoming(t) : From(e) \in completed \cup failed

\* Before its first step the loop has recorded nothing.
Fresh ==
    pc = "start" => /\ completed = {} /\ failed = {} /\ running_set = {}
                    /\ \A n \in Nodes : fan_out_states[n] = NoFanOut

BooksInv == (\A n \in Nodes : Book(n)) /\ Settled /\ Fresh

\* The books are right before anything has happened.
LEMMA InitBooks == Init => BooksInv
<1> SUFFICES ASSUME Init PROVE BooksInv
  OBVIOUS
<1>1. ASSUME NEW n \in Nodes PROVE Book(n)
  <2>1. /\ fan_out_states[n] = NoFanOut /\ running[n] = NoTasks
        /\ completed = {} /\ failed = {} /\ running_set = {}
    BY DEF Init
  <2>2. NoFanOut.expected = 0 /\ NoFanOut.results = {} /\ NoFanOut.completed = Cardinality({})
    BY FS_EmptySet DEF NoFanOut
  <2>3. \A i \in 0..MaxItems : NoTasks[i] = 0
    BY DEF NoTasks
  <2>4. 0 \in 0..MaxItems /\ 1..MaxItems \subseteq 0..MaxItems
    BY ParameterAssumption
  <2> QED BY <2>1, <2>2, <2>3, <2>4 DEF Book
<1>2. Settled /\ Fresh
  <2>1. NoFanOut.expected = 0
    BY DEF NoFanOut
  <2> QED BY <2>1 DEF Settled, Fresh, HasStarted, Init
<1> QED BY <1>1, <1>2 DEF BooksInv

\* A book in terms of its entries, so that they need not all be looked up again.
LEMMA BookFacts ==
    ASSUME TypeOK, BooksInv, NEW n \in Nodes
    PROVE  /\ \A i \in 0..MaxItems : running[n][i] \in Nat /\ running[n][i] <= 1
           /\ running[n][0] > 0 => n \in running_set
           /\ n \in running_set => n \notin completed /\ n \notin failed
           /\ n \in completed => n \notin failed
           /\ fan_out_states[n].expected \in 0..MaxItems
           /\ fan_out_states[n].expected > 0 =>
                 /\ n \notin completed /\ n \notin failed /\ n \notin running_set
                 /\ \E e \in graph.fan : To(e) = n
           /\ fan_out_states[n].results \subseteq 1..fan_out_states[n].expected
           /\ fan_out_states[n].completed = Cardinality(fan_out_states[n].results)
           /\ \A i \in 1..MaxItems : running[n][i] > 0 =>
                 i <= fan_out_states[n].expected /\ i \notin fan_out_states[n].results
<1>1. Book(n) /\ fan_out_states[n] \in FanOutState /\ running[n] \in [0..MaxItems -> Nat]
  BY DEF BooksInv, TypeOK
<1>2. fan_out_states[n].expected \in 0..MaxItems /\ \A i \in 0..MaxItems : running[n][i] \in Nat
  BY <1>1 DEF FanOutState
<1> QED BY <1>1, <1>2 DEF Book

\* The tasks, the running set and the entries after the task of n at index i returned: what
\* spawning then finds of a node t it starts.
LEMMA SpreadBooks ==
    ASSUME TypeOK, TypeOK', BooksInv, NEW n \in Nodes, NEW tasks \in Tasks, NEW rset \in SUBSET Nodes,
           NEW fos \in [Nodes -> FanOutState], NEW S \in SUBSET Nodes, NEW t \in Nodes,
           Spread(S, tasks, rset, fos), UNCHANGED <<graph, failed>>,
           completed' = (completed \cup {n}) \ S, n \notin failed, n \notin rset,
           t \in S => t \notin failed /\ t \notin rset /\ fos[t].expected = 0,
           \A i \in 0..MaxItems : tasks[t][i] <= 1,
           tasks[t][0] > 0 => t \in rset,
           t \in rset => t \notin completed /\ t \notin failed,
           fos[t].expected > 0 => /\ t \notin completed /\ t # n /\ t \notin failed /\ t \notin rset
                                  /\ \E e \in graph.fan : To(e) = t,
           fos[t].results \subseteq 1..fos[t].expected, fos[t].completed = Cardinality(fos[t].results),
           \A i \in 1..MaxItems : tasks[t][i] > 0 => i <= fos[t].expected /\ i \notin fos[t].results
    PROVE  Book(t)'
<1>1. /\ \A i \in 0..MaxItems : tasks[t][i] \in Nat
      /\ 0 \in 0..MaxItems /\ MaxItems \in Nat /\ 1..MaxItems \subseteq 0..MaxItems
      /\ \A i \in 0..MaxItems : i = 0 \/ i \in 1..MaxItems
      /\ graph' = graph /\ \A e : To(e)' = To(e)
  BY ParameterAssumption DEF Tasks, To
<1>2. t \in completed => t \notin failed
  BY BookFacts
<1>3. t \in completed' => t \notin failed'
  BY <1>2
<1>4. CASE t \notin S
  <2>1. running'[t] = tasks[t] /\ fan_out_states'[t] = fos[t] /\ (t \in running_set' <=> t \in rset)
    BY <1>4 DEF Spread, Kept
  <2> QED BY <1>1, <1>3, <1>4, <2>1 DEF Book
<1>5. CASE t \in S
  <2>0. t \notin completed' /\ t \notin failed' /\ tasks[t][0] = 0 /\ fos[t].expected = 0 /\ t \notin rset
    BY <1>1, <1>5
  <2>2. CASE Plain(t, tasks, fos)
    <3>1. /\ t \in running_set' /\ fan_out_states'[t] = fos[t]
          /\ running'[t][0] = 1 /\ \A i \in 1..MaxItems : running'[t][i] = tasks[t][i]
      BY <2>0, <2>2 DEF Plain
    <3> QED BY <1>1, <2>0, <3>1 DEF Book
  <2>3. CASE Fanned(t, tasks, rset)
    <3>1. PICK k \in 1..MaxItems :
            /\ fan_out_states'[t] = [expected |-> k, results |-> {}, completed |-> 0]
            /\ running'[t][0] = tasks[t][0]
            /\ \A i \in 1..MaxItems : running'[t][i] = tasks[t][i] + (IF i <= k THEN 1 ELSE 0)
      BY <2>3 DEF Fanned
    <3>2. t \notin running_set' /\ \E e \in graph'.fan : To(e)' = t
      BY <1>1, <2>0, <2>3 DEF Fanned
    <3>3. \A i \in 1..MaxItems : tasks[t][i] = 0
      BY <1>1, <2>0
    <3>4. \A i \in 1..MaxItems : running'[t][i] = IF i <= k THEN 1 ELSE 0
      BY <3>1, <3>3
    <3>5. Cardinality({}) = 0
      BY FS_EmptySet
    <3>6. /\ fan_out_states'[t].expected = k /\ fan_out_states'[t].results = {}
          /\ fan_out_states'[t].completed = 0
      BY <3>1
    <3> QED BY <1>1, <2>0, <3>1, <3>2, <3>4, <3>5, <3>6 DEF Book
  <2> QED BY <1>5, <2>2, <2>3 DEF Spread
<1> QED BY <1>4, <1>5

\* The guards a target passed before it starts (edges.rs).
LEMMA ReadyGuards ==
    ASSUME NEW n, NEW out, NEW done, NEW outs, NEW rset, NEW fos, NEW S,
           S = ReadyNodes(n, out, done, outs, rset, fos), NEW t \in S
    PROVE  /\ fos[t].expected = 0 /\ t \notin rset
           /\ t \in done \/ (t \notin failed /\ is_node_ready(t, done, outs))
           /\ \E e \in Outgoing(n) : To(e) = t
BY DEF ReadyNodes, Passed

\* Without back-edges a target of n that becomes ready by n's result never started before,
\* and all it depends on has settled by now: it is never re-executed.
LEMMA ReadyIsNew ==
    ASSUME TypeOK, Settled, graph.back = {}, NEW n \in Nodes, n \notin completed \cup failed, HasStarted(n),
           NEW out, NEW done, done = completed \cup {n}, NEW outs, NEW rset, NEW fos, NEW S,
           S = ReadyNodes(n, out, done, outs, rset, fos), NEW t \in S
    PROVE  /\ t \in Nodes /\ ~HasStarted(t) /\ t # n /\ t \notin completed
           /\ \A e \in Incoming(t) : From(e) \in completed \cup {n} \cup failed
<1>1. PICK e \in Outgoing(n) : To(e) = t
  BY ReadyGuards
<1>2. e \in Incoming(t) /\ From(e) = n /\ t \in Nodes
  BY <1>1, GraphFacts DEF Outgoing, Incoming
<1>3. ~HasStarted(t)
  BY <1>2 DEF Settled
<1>4. t # n /\ t \notin completed
  BY <1>3 DEF HasStarted
<1>5. is_node_ready(t, done, outs)
  BY <1>4, ReadyGuards
<1> QED BY <1>2, <1>3, <1>4, <1>5 DEF is_node_ready

\* ... and so nothing that completed is taken back, and what it depends on stays settled.
LEMMA SpreadSettled ==
    ASSUME TypeOK, Settled, UNCHANGED <<graph, failed>>, graph.back = {},
           NEW n \in Nodes, n \notin completed \cup failed, HasStarted(n),
           NEW out, NEW done, done = completed \cup {n}, NEW outs, NEW tasks, NEW rset, NEW fos, NEW S \in SUBSET Nodes,
           S = ReadyNodes(n, out, done, outs, rset, fos),
           Spread(S, tasks, rset, fos), completed' = done \ S,
           rset \subseteq running_set, \A t \in Nodes : fos[t].expected > 0 => fan_out_states[t].expected > 0
    PROVE  completed' = completed \cup {n} /\ Settled'
<1>1. \A t \in S : t # n /\ t \notin completed
  BY ReadyIsNew
<1>2. completed' = completed \cup {n}
  BY <1>1
<1>3. \A t, e : Incoming(t)' = Incoming(t) /\ From(e)' = From(e)
  BY DEF Incoming, Edges, From, To
<1>4. ASSUME NEW t \in Nodes, HasStarted(t)', NEW e \in Incoming(t)'
      PROVE  (From(e) \in completed \cup failed)'
  <2>0. e \in Incoming(t) /\ From(e)' = From(e)
    BY <1>3
  <2>1. CASE t \in S
    BY <1>2, <2>0, <2>1, ReadyIsNew
  <2>2. CASE t \notin S
    <3>1. HasStarted(t)
      BY <1>2, <1>4, <2>2 DEF HasStarted, Spread, Kept
    <3> QED BY <1>2, <2>0, <3>1 DEF Settled
  <2> QED BY <2>1, <2>2
<1> QED BY <1>2, <1>4 DEF Settled

\* A successful result keeps the books.
LEMMA SucceedsBooks ==
    ASSUME TypeOK, TypeOK', BooksInv, NEW n \in Nodes, node_succeeds(n)
    PROVE  (\A t \in Nodes : Book(t)') /\ Settled'
<1>1. /\ running[n][0] > 0 /\ UNCHANGED <<graph, failed>>
      /\ 0 \in 0..MaxItems /\ MaxItems \in Nat /\ 1..MaxItems \subseteq 0..MaxItems
      /\ \A j \in 1..MaxItems : j # 0
  BY ParameterAssumption DEF node_succeeds
<1>2. n \in running_set /\ n \notin completed /\ n \notin failed /\ fan_out_states[n].expected = 0 /\ HasStarted(n)
  BY <1>1, BookFacts DEF HasStarted
<1>3. PICK out \in Outputs(n), S \in SUBSET Nodes :
        /\ S = ReadyNodes(n, out, completed \cup {n}, node_outputs', running_set \ {n}, fan_out_states)
        /\ completed' = (completed \cup {n}) \ S
        /\ Spread(S, Take(n, 0), running_set \ {n}, fan_out_states)
  BY SucceedsFacts
<1>4. PICK done, tasks, rset, fos, outs :
        /\ done = completed \cup {n} /\ tasks = Take(n, 0) /\ rset = running_set \ {n}
        /\ fos = fan_out_states /\ outs = node_outputs'
  OBVIOUS
<1>5. S = ReadyNodes(n, out, done, outs, rset, fos) /\ completed' = done \ S /\ Spread(S, tasks, rset, fos)
  BY <1>3, <1>4
<1>6. tasks \in Tasks /\ rset \in SUBSET Nodes /\ fos \in [Nodes -> FanOutState]
  <2>1. Take(n, 0) \in Tasks
    BY <1>1, TakeFacts
  <2> QED BY <1>4, <2>1 DEF TypeOK
<1>7. /\ tasks[n][0] = 0
      /\ \A t \in Nodes, j \in 0..MaxItems : t # n \/ j # 0 => tasks[t][j] = running[t][j]
  <2>1. tasks[n][0] = running[n][0] - 1
        /\ \A t \in Nodes, j \in 0..MaxItems : t # n \/ j # 0 => tasks[t][j] = running[t][j]
    BY <1>1, <1>4, TakeFacts
  <2>2. running[n][0] \in Nat /\ running[n][0] <= 1
    BY <1>1, BookFacts
  <2> QED BY <1>1, <2>1, <2>2
<1>8. ASSUME NEW t \in Nodes PROVE Book(t)'
  <2>1. t \in S => t \notin failed /\ t \notin rset /\ fos[t].expected = 0
    <3>1. t \in done => t \notin failed
      BY <1>2, <1>4, BookFacts
    <3> QED BY <1>5, <3>1, ReadyGuards
  <2>2. \A i \in 0..MaxItems : tasks[t][i] <= 1
    BY <1>7, BookFacts
  <2>3. /\ tasks[t][0] > 0 => t \in rset
        /\ t \in rset => t \notin completed /\ t \notin failed
    BY <1>1, <1>4, <1>7, BookFacts
  <2>4. /\ fos[t].expected > 0 => /\ t \notin completed /\ t # n /\ t \notin failed /\ t \notin rset
                                  /\ \E e \in graph.fan : To(e) = t
        /\ fos[t].results \subseteq 1..fos[t].expected /\ fos[t].completed = Cardinality(fos[t].results)
    BY <1>2, <1>4, BookFacts
  <2>5. \A i \in 1..MaxItems : tasks[t][i] > 0 => i <= fos[t].expected /\ i \notin fos[t].results
    BY <1>1, <1>4, <1>7, BookFacts
  <2>6. completed' = (completed \cup {n}) \ S /\ n \notin rset /\ n \notin failed
    BY <1>2, <1>3, <1>4
  <2> QED BY <1>1, <1>5, <1>6, <2>1, <2>2, <2>3, <2>4, <2>5, <2>6, SpreadBooks
<1>9. Settled'
  <2>1. CASE graph.back = {}
    <3>1. Settled /\ n \notin completed \cup failed /\ rset \subseteq running_set
          /\ \A t \in Nodes : fos[t].expected > 0 => fan_out_states[t].expected > 0
      BY <1>2, <1>4 DEF BooksInv
    <3> QED BY <1>1, <1>2, <1>4, <1>5, <2>1, <3>1, SpreadSettled
  <2>2. CASE graph.back # {}
    BY <1>1, <2>2 DEF Settled
  <2> QED BY <2>1, <2>2
<1> QED BY <1>8, <1>9

\* A failed result keeps them on simple graphs: what it starts is started once, and not while
\* its instances are in flight.
LEMMA FailsBooks ==
    ASSUME TypeOK, TypeOK', BooksInv, Simple(graph), NEW n \in Nodes, node_fails(n)
    PROVE  (\A t \in Nodes : Book(t)') /\ Settled'
<1> DEFINE rset == running_set \ {n}
           S == find_ready_after_failure(n, rset, failed \cup {n})
<1>1. /\ running[n][0] > 0 /\ UNCHANGED <<graph, completed, fan_out_states>> /\ failed' = failed \cup {n}
      /\ running_set' = rset \cup S
      /\ running' = [t \in Nodes |->
               IF t \in S
               THEN [Take(n, 0)[t] EXCEPT ![0] = @ + Cardinality(Outgoing(n) \cap Incoming(t))]
               ELSE Take(n, 0)[t]]
  BY DEF node_fails
<1>2. /\ 0 \in 0..MaxItems /\ MaxItems \in Nat /\ 1..MaxItems \subseteq 0..MaxItems
      /\ \A j \in 1..MaxItems : j # 0
  BY ParameterAssumption
<1>3. n \in running_set /\ n \notin completed /\ n \notin failed /\ fan_out_states[n].expected = 0 /\ HasStarted(n)
  BY <1>1, <1>2, BookFacts DEF HasStarted
<1>4. PICK tasks : tasks = Take(n, 0)
  OBVIOUS
<1>5. /\ tasks \in Tasks /\ tasks[n][0] = 0
      /\ \A t \in Nodes, j \in 0..MaxItems : t # n \/ j # 0 => tasks[t][j] = running[t][j]
  <2>1. tasks \in Tasks /\ tasks[n][0] = running[n][0] - 1
        /\ \A t \in Nodes, j \in 0..MaxItems : t # n \/ j # 0 => tasks[t][j] = running[t][j]
    BY <1>1, <1>2, <1>4, TakeFacts
  <2>2. running[n][0] \in Nat /\ running[n][0] <= 1
    BY <1>2, BookFacts
  <2> QED BY <1>1, <2>1, <2>2
<1>6. ASSUME NEW t \in S
      PROVE  /\ t \in Nodes /\ t # n /\ t \notin completed \cup failed \cup running_set
             /\ \A e \in Incoming(t) : From(e) \in completed \cup failed \cup {n}
             /\ \E e \in Outgoing(n) : To(e) = t
             /\ \E e \in Incoming(t) : From(e) \in completed
  BY GraphFacts DEF find_ready_after_failure
<1>7. ASSUME NEW t \in S PROVE Cardinality(Outgoing(n) \cap Incoming(t)) = 1
  <2>1. PICK e \in Outgoing(n) : To(e) = t
    BY <1>6
  <2>2. e \in Edges /\ From(e) = n /\ graph.edges \in [Edges -> [from : Nodes, to : Nodes]]
    BY <2>1 DEF Outgoing, TypeOK, IsGraph, Edges
  <2>3. ASSUME NEW f \in Outgoing(n) \cap Incoming(t) PROVE f = e
    <3>1. f \in Edges /\ graph.edges[f].from = n /\ graph.edges[f].to = t
      BY DEF Outgoing, Incoming, From, To
    <3>2. graph.edges[e].from = n /\ graph.edges[e].to = t
      BY <2>1, <2>2 DEF From, To
    <3>3. graph.edges[e] \in [from : Nodes, to : Nodes] /\ graph.edges[f] \in [from : Nodes, to : Nodes]
      BY <2>2, <3>1
    <3>4. graph.edges[e] = graph.edges[f]
      BY <3>1, <3>2, <3>3
    <3> QED BY <2>2, <3>1, <3>4 DEF Simple, Edges
  <2>4. Outgoing(n) \cap Incoming(t) = {e}
    BY <2>1, <2>2, <2>3 DEF Incoming
  <2> QED BY <2>4, FS_Singleton
<1>8. ASSUME NEW t \in S PROVE fan_out_states[t].expected = 0
  <2>1. PICK e \in Outgoing(n) : To(e) = t
    BY <1>6
  <2>2. e \in Incoming(t) /\ From(e) = n /\ e \in Edges /\ t \in Nodes
    BY <1>6, <2>1 DEF Outgoing, Incoming
  <2>3. CASE graph.back = {}
    <3>1. ~HasStarted(t)
      BY <1>3, <2>2, <2>3 DEF BooksInv, Settled
    <3>2. fan_out_states[t].expected \in Nat
      BY <1>2, <2>2, BookFacts
    <3> QED BY <3>1, <3>2 DEF HasStarted
  <2>4. CASE graph.back # {} /\ fan_out_states[t].expected > 0
    <3>1. PICK f \in graph.fan : To(f) = t
      BY <2>2, <2>4, BookFacts
    <3>2. \A g \in Incoming(t) : g = f
      BY <2>2, <2>4, <3>1 DEF Simple, Incoming, Edges, To
    <3>3. PICK g \in Incoming(t) : From(g) \in completed
      BY <1>6
    <3> QED BY <1>3, <2>2, <3>2, <3>3
  <2>5. fan_out_states[t].expected \in 0..MaxItems
    BY <2>2, BookFacts
  <2> QED BY <1>2, <2>3, <2>4, <2>5
<1> HIDE DEF S
<1>9. ASSUME NEW t \in Nodes
      PROVE  /\ t \in S => running'[t][0] = 1 /\ \A j \in 1..MaxItems : running'[t][j] = running[t][j]
             /\ t \notin S => running'[t] = tasks[t]
  <2>1. CASE t \in S
    <3>1. running'[t] = [tasks[t] EXCEPT ![0] = @ + 1]
      BY <1>1, <1>4, <1>7, <2>1
    <3>2. tasks[t] \in [0..MaxItems -> Nat] /\ tasks[t][0] = 0 /\ \A j \in 1..MaxItems : tasks[t][j] = running[t][j]
      <4>1. running[t][0] \in Nat /\ ~(running[t][0] > 0)
        BY <1>2, <1>6, <2>1, BookFacts
      <4> QED BY <1>2, <1>5, <1>6, <2>1, <4>1 DEF Tasks
    <3> QED BY <1>2, <2>1, <3>1, <3>2
  <2>2. CASE t \notin S
    BY <1>1, <1>4, <2>2
  <2> QED BY <2>1, <2>2
<1>10. ASSUME NEW t \in Nodes PROVE Book(t)'
  <2>1. graph' = graph /\ (\A e : To(e)' = To(e)) /\ fan_out_states' = fan_out_states
    BY <1>1 DEF To
  <2>2. \A i \in 0..MaxItems : i = 0 \/ i \in 1..MaxItems
    BY <1>2
  <2>3. CASE t \in S
    <3>1. running'[t][0] = 1 /\ \A j \in 1..MaxItems : running'[t][j] = running[t][j]
      BY <1>9, <2>3
    <3>2. t \in running_set' /\ t \notin completed' /\ t \notin failed' /\ fan_out_states'[t].expected = 0
      BY <1>1, <1>6, <1>8, <2>3
    <3> QED BY <1>2, <2>1, <2>2, <3>1, <3>2, BookFacts DEF Book
  <2>4. CASE t \notin S
    <3>1. running'[t] = tasks[t]
      BY <1>9, <2>4
    <3>2. (t \in running_set' <=> t \in running_set /\ t # n) /\ (t \in failed' <=> t \in failed \/ t = n)
      BY <1>1, <2>4
    <3>3. CASE t = n
      <4>1. running'[t][0] = 0 /\ \A j \in 1..MaxItems : running'[t][j] = running[t][j]
        BY <1>2, <1>5, <3>1, <3>3
      <4> QED BY <1>1, <1>2, <1>3, <2>1, <2>2, <3>2, <3>3, <4>1, BookFacts DEF Book
    <3>4. CASE t # n
      <4>1. \A j \in 0..MaxItems : running'[t][j] = running[t][j]
        BY <1>5, <3>1, <3>4
      <4> QED BY <1>1, <1>2, <2>1, <3>2, <3>4, <4>1, BookFacts DEF Book
    <3> QED BY <3>3, <3>4
  <2> QED BY <2>3, <2>4
<1>11. Settled'
  <2>1. \A t, e : Incoming(t)' = Incoming(t) /\ From(e)' = From(e)
    BY <1>1 DEF Incoming, Edges, From, To
  <2>2. ASSUME graph.back = {}, NEW t \in Nodes, HasStarted(t)', NEW e \in Incoming(t)'
        PROVE  (From(e) \in completed \cup failed)'
    <3>0. e \in Incoming(t) /\ From(e)' = From(e)
      BY <2>1
    <3>1. CASE t \in S
      BY <1>1, <1>6, <3>0, <3>1
    <3>2. CASE t \notin S
      <4>1. HasStarted(t)
        BY <1>1, <1>3, <2>2, <3>2 DEF HasStarted
      <4> QED BY <1>1, <2>2, <3>0, <4>1 DEF BooksInv, Settled
    <3> QED BY <3>1, <3>2
  <2> QED BY <1>1, <2>2 DEF Settled
<1> QED BY <1>10, <1>11

\* A task that merely leaves the books: it panicked, was detached, or nothing waits for it.
LEMMA TakeBooks ==
    ASSUME TypeOK, TypeOK', BooksInv, NEW n \in Nodes, NEW i \in 0..MaxItems, running[n][i] > 0,
           running' = Take(n, i), UNCHANGED <<graph, completed, fan_out_states, running_set>>,
           failed' \in {failed, failed \cup {"unknown"}}
    PROVE  (\A t \in Nodes : Book(t)') /\ Settled'
<1>1. /\ 0 \in 0..MaxItems /\ MaxItems \in Nat /\ 1..MaxItems \subseteq 0..MaxItems
      /\ \A t \in Nodes : t \in failed' <=> t \in failed
      /\ graph' = graph /\ \A e : To(e)' = To(e)
  BY ParameterAssumption, NodesAssumption DEF To
<1>2. ASSUME NEW t \in Nodes PROVE Book(t)'
  <2>1. \A j \in 0..MaxItems : running'[t][j] \in Nat /\ running'[t][j] <= running[t][j]
    <3>1. Take(n, i) \in Tasks /\ \A j \in 0..MaxItems : Take(n, i)[t][j] <= running[t][j]
      BY TakeFacts
    <3> QED BY <3>1 DEF Tasks
  <2>2. \A j \in 0..MaxItems : running[t][j] \in Nat /\ running[t][j] <= 1
    BY BookFacts
  <2>3. /\ \A j \in 0..MaxItems : running'[t][j] <= 1
        /\ \A j \in 0..MaxItems : running'[t][j] > 0 => running[t][j] > 0
    BY <2>1, <2>2
  <2> QED BY <1>1, <2>3, BookFacts DEF Book
<1>3. Settled'
  <2>1. \A t, e : Incoming(t)' = Incoming(t) /\ From(e)' = From(e)
    BY <1>1 DEF Incoming, Edges, From, To
  <2>2. ASSUME graph.back = {}, NEW t \in Nodes, HasStarted(t)', NEW e \in Incoming(t)'
        PROVE  (From(e) \in completed \cup failed)'
    <3>1. e \in Incoming(t) /\ From(e)' = From(e) /\ HasStarted(t)
      BY <1>1, <2>1, <2>2 DEF HasStarted
    <3>2. From(e) \in completed \cup failed
      BY <2>2, <3>1 DEF BooksInv, Settled
    <3> QED BY <3>1, <3>2
  <2> QED BY <1>1, <2>2 DEF Settled
<1> QED BY <1>2, <1>3

\* Counting one more result of an entry that is not full.
LEMMA RecordCounts ==
    ASSUME NEW k \in Nat, NEW R \in SUBSET (1..k), NEW i \in 1..k, i \notin R
    PROVE  /\ R \cup {i} \subseteq 1..k
           /\ Cardinality(R \cup {i}) = Cardinality(R) + 1 /\ Cardinality(R) \in Nat
           /\ Cardinality(R) + 1 = k => R \cup {i} = 1..k
<1>1. IsFiniteSet(1..k) /\ Cardinality(1..k) = k
  BY FS_Interval
<1>2. IsFiniteSet(R) /\ Cardinality(R) \in Nat
  BY <1>1, FS_Subset, FS_CardinalityType
<1>3. Cardinality(R \cup {i}) = Cardinality(R) + 1
  BY <1>2, FS_AddElement
<1>4. R \cup {i} \subseteq 1..k
  OBVIOUS
<1>5. Cardinality(R \cup {i}) = Cardinality(1..k) => R \cup {i} = 1..k
  BY <1>1, <1>4, FS_Subset
<1> QED BY <1>1, <1>2, <1>3, <1>4, <1>5

\* The result of an instance that is not the last one is stored and counted.
LEMMA RecordBooks ==
    ASSUME TypeOK, TypeOK', BooksInv, NEW n \in Nodes, NEW i \in 1..MaxItems, NEW ok \in BOOLEAN,
           running[n][i] > 0, running' = Take(n, i),
           fan_out_states' = [fan_out_states EXCEPT ![n] = record_instance(@, i, ok)],
           UNCHANGED <<graph, completed, failed, running_set>>
    PROVE  (\A t \in Nodes : Book(t)') /\ Settled'
<1>1. /\ 0 \in 0..MaxItems /\ MaxItems \in Nat /\ 1..MaxItems \subseteq 0..MaxItems /\ i # 0
      /\ graph' = graph /\ \A e : To(e)' = To(e)
  BY ParameterAssumption DEF To
<1>2. PICK k, R : k = fan_out_states[n].expected /\ R = fan_out_states[n].results
  OBVIOUS
<1>3. /\ k \in Nat /\ R \in SUBSET (1..k) /\ i \in 1..k /\ i \notin R
      /\ fan_out_states[n].completed = Cardinality(R)
  BY <1>1, <1>2, BookFacts
<1>4. /\ R \cup {i} \subseteq 1..k
      /\ Cardinality(R \cup {i}) = Cardinality(R) + 1
  BY <1>3, RecordCounts
<1>5. /\ fan_out_states'[n].expected = k /\ fan_out_states'[n].results = R \cup {i}
      /\ fan_out_states'[n].completed = Cardinality(R) + 1
      /\ \A t \in Nodes \ {n} : fan_out_states'[t] = fan_out_states[t]
  <2>1. fan_out_states[n] \in FanOutState /\ fan_out_states \in [Nodes -> FanOutState]
    BY DEF TypeOK
  <2>2. fan_out_states'[n] = record_instance(fan_out_states[n], i, ok)
        /\ \A t \in Nodes \ {n} : fan_out_states'[t] = fan_out_states[t]
    BY <2>1
  <2> QED BY <1>2, <1>3, <2>1, <2>2, RecordTypes
<1>6. /\ running'[n][i] = 0
      /\ \A t \in Nodes, j \in 0..MaxItems : t # n \/ j # i => running'[t][j] = running[t][j]
  <2>1. /\ running'[n][i] = running[n][i] - 1
        /\ \A t \in Nodes, j \in 0..MaxItems : t # n \/ j # i => running'[t][j] = running[t][j]
    BY <1>1, TakeFacts
  <2>2. running[n][i] \in Nat /\ running[n][i] <= 1
    BY <1>1, BookFacts
  <2> QED BY <2>1, <2>2
<1>7. ASSUME NEW t \in Nodes PROVE Book(t)'
  <2>1. CASE t # n
    <3>1. fan_out_states'[t] = fan_out_states[t] /\ \A j \in 0..MaxItems : running'[t][j] = running[t][j]
      BY <1>5, <1>6, <2>1
    <3> QED BY <1>1, <3>1, BookFacts DEF Book
  <2>2. CASE t = n
    <3>1. \A j \in 0..MaxItems : j # i => running'[n][j] = running[n][j]
      BY <1>6
    <3>2. /\ \A j \in 0..MaxItems : running'[n][j] <= 1
          /\ running'[n][0] > 0 => n \in running_set'
          /\ n \in running_set' => n \notin completed' /\ n \notin failed'
          /\ n \in completed' => n \notin failed'
          /\ k > 0 => /\ n \notin completed' /\ n \notin failed' /\ n \notin running_set'
                      /\ \E e \in graph'.fan : To(e)' = n
      <4>1. running'[n][0] = running[n][0]
        BY <1>1, <3>1
      <4> QED BY <1>1, <1>2, <1>6, <3>1, <4>1, BookFacts
    <3>3. \A j \in 1..MaxItems : running'[n][j] > 0 => j <= k /\ j \notin R \cup {i}
      BY <1>1, <1>2, <1>6, <3>1, BookFacts
    <3> QED BY <1>4, <1>5, <2>2, <3>2, <3>3 DEF Book
  <2> QED BY <2>1, <2>2
<1>8. Settled'
  <2>1. \A t, e : Incoming(t)' = Incoming(t) /\ From(e)' = From(e)
    BY <1>1 DEF Incoming, Edges, From, To
  <2>2. ASSUME graph.back = {}, NEW t \in Nodes, HasStarted(t)', NEW e \in Incoming(t)'
        PROVE  (From(e) \in completed \cup failed)'
    <3>1. fan_out_states'[t].expected > 0 => fan_out_states[t].expected > 0
      BY <1>2, <1>5
    <3>2. e \in Incoming(t) /\ From(e)' = From(e) /\ HasStarted(t)
      BY <2>1, <2>2, <3>1 DEF HasStarted
    <3>3. From(e) \in completed \cup failed
      BY <2>2, <3>2 DEF BooksInv, Settled
    <3> QED BY <3>2, <3>3
  <2> QED BY <1>1, <2>2 DEF Settled
<1> QED BY <1>7, <1>8

\* The last instance: every result is in, so none of the node's instances is in flight.
LEMMA LastInstanceBooks ==
    ASSUME TypeOK, TypeOK', BooksInv, NEW n \in Nodes, NEW i \in 1..MaxItems, NEW ok \in BOOLEAN,
           running[n][i] > 0, UNCHANGED <<graph, failed>>, NEW out \in Outputs(n),
           fan_out_states[n].expected > 0,
           record_instance(fan_out_states[n], i, ok).completed = fan_out_states[n].expected,
           node_outputs' = [node_outputs EXCEPT ![n] = out],
           evaluate_downstream(n, out, TRUE, completed \cup {n}, Take(n, i), running_set,
                               [fan_out_states EXCEPT ![n] = NoFanOut], node_outputs')
    PROVE  (\A t \in Nodes : Book(t)') /\ Settled'
<1>1. /\ 0 \in 0..MaxItems /\ MaxItems \in Nat /\ 1..MaxItems \subseteq 0..MaxItems /\ i # 0
      /\ \A j \in 1..MaxItems : j # 0
  BY ParameterAssumption
<1>2. n \notin running_set /\ n \notin completed /\ n \notin failed /\ HasStarted(n)
  BY BookFacts DEF HasStarted
<1>3. PICK S \in SUBSET Nodes :
        /\ S = ReadyNodes(n, out, completed \cup {n}, node_outputs', running_set,
                          [fan_out_states EXCEPT ![n] = NoFanOut])
        /\ completed' = (completed \cup {n}) \ S
        /\ Spread(S, Take(n, i), running_set, [fan_out_states EXCEPT ![n] = NoFanOut])
  BY LastInstanceFacts
<1>4. PICK done, tasks, rset, fos, outs :
        /\ done = completed \cup {n} /\ tasks = Take(n, i) /\ rset = running_set
        /\ fos = [fan_out_states EXCEPT ![n] = NoFanOut] /\ outs = node_outputs'
  OBVIOUS
<1>5. S = ReadyNodes(n, out, done, outs, rset, fos) /\ completed' = done \ S /\ Spread(S, tasks, rset, fos)
  BY <1>3, <1>4
<1>6. /\ tasks \in Tasks /\ rset \in SUBSET Nodes /\ fos \in [Nodes -> FanOutState]
      /\ fos[n] = NoFanOut /\ \A t \in Nodes \ {n} : fos[t] = fan_out_states[t]
  <2>1. Take(n, i) \in Tasks
    BY <1>1, TakeFacts
  <2>2. NoFanOut \in FanOutState
    BY <1>1 DEF NoFanOut, FanOutState
  <2> QED BY <1>4, <2>1, <2>2 DEF TypeOK
<1>7. /\ \A j \in 0..MaxItems : tasks[n][j] = 0
      /\ \A t \in Nodes, j \in 0..MaxItems : t # n => tasks[t][j] = running[t][j]
  <2>1. /\ tasks[n][i] = running[n][i] - 1
        /\ \A t \in Nodes, j \in 0..MaxItems : t # n \/ j # i => tasks[t][j] = running[t][j]
    BY <1>1, <1>4, TakeFacts
  <2>2. PICK k, R : k = fan_out_states[n].expected /\ R = fan_out_states[n].results
    OBVIOUS
  <2>3. /\ k \in Nat /\ R \in SUBSET (1..k) /\ i \in 1..k /\ i \notin R
        /\ fan_out_states[n].completed = Cardinality(R)
    BY <1>1, <2>2, BookFacts
  <2>4. Cardinality(R) + 1 = k
    <3>1. fan_out_states[n] \in FanOutState
      BY DEF TypeOK
    <3>2. record_instance(fan_out_states[n], i, ok).completed = fan_out_states[n].completed + 1
      BY <3>1, RecordTypes
    <3> QED BY <2>2, <2>3, <3>2
  <2>5. R \cup {i} = 1..k
    BY <2>3, <2>4, RecordCounts
  <2>6. ASSUME NEW j \in 0..MaxItems PROVE tasks[n][j] = 0
    <3>0. running[n][j] \in Nat /\ running[n][j] <= 1 /\ (j = 0 \/ j \in 1..MaxItems)
      BY <1>1, BookFacts
    <3>1. CASE j = i
      BY <2>1, <3>0, <3>1
    <3>2. CASE j = 0
      BY <1>1, <1>2, <2>1, <3>0, <3>2, BookFacts
    <3>3. CASE j \in 1..MaxItems /\ j # i
      <4>1. running[n][j] > 0 => j <= k /\ j \notin R
        BY <2>2, <3>3, BookFacts
      <4>2. j <= k => j \in R \cup {i}
        BY <2>3, <2>5, <3>3
      <4> QED BY <2>1, <3>0, <3>3, <4>1, <4>2
    <3> QED BY <3>0, <3>1, <3>2, <3>3
  <2> QED BY <2>1, <2>6
<1>8. ASSUME NEW t \in Nodes PROVE Book(t)'
  <2>1. t \in S => t \notin failed /\ t \notin rset /\ fos[t].expected = 0
    <3>1. t \in done => t \notin failed
      BY <1>2, <1>4, BookFacts
    <3> QED BY <1>5, <3>1, ReadyGuards
  <2>2. \A j \in 0..MaxItems : tasks[t][j] <= 1
    BY <1>7, BookFacts
  <2>3. /\ tasks[t][0] > 0 => t \in rset
        /\ t \in rset => t \notin completed /\ t \notin failed
    BY <1>1, <1>4, <1>7, BookFacts
  <2>4. /\ fos[t].expected > 0 => /\ t \notin completed /\ t # n /\ t \notin failed /\ t \notin rset
                                  /\ \E e \in graph.fan : To(e) = t
        /\ fos[t].results \subseteq 1..fos[t].expected /\ fos[t].completed = Cardinality(fos[t].results)
        /\ \A j \in 1..MaxItems : tasks[t][j] > 0 => j <= fos[t].expected /\ j \notin fos[t].results
    <3>1. CASE t = n
      <4>1. NoFanOut.expected = 0 /\ NoFanOut.results = {} /\ NoFanOut.completed = Cardinality({})
        BY FS_EmptySet DEF NoFanOut
      <4>2. fos[t].expected = 0 /\ fos[t].results = {} /\ fos[t].completed = Cardinality({})
        BY <1>6, <3>1, <4>1
      <4>3. \A j \in 1..MaxItems : ~(tasks[t][j] > 0)
        BY <1>1, <1>7, <3>1
      <4> QED BY <4>2, <4>3
    <3>2. CASE t # n
      <4>1. fos[t] = fan_out_states[t] /\ \A j \in 0..MaxItems : tasks[t][j] = running[t][j]
        BY <1>6, <1>7, <3>2
      <4> QED BY <1>1, <1>4, <3>2, <4>1, BookFacts
    <3> QED BY <3>1, <3>2
  <2>5. completed' = (completed \cup {n}) \ S /\ n \notin rset /\ n \notin failed
    BY <1>2, <1>3, <1>4
  <2> QED BY <1>5, <1>6, <2>1, <2>2, <2>3, <2>4, <2>5, SpreadBooks
<1>9. Settled'
  <2>1. CASE graph.back = {}
    <3>1. Settled /\ n \notin completed \cup failed /\ rset \subseteq running_set
      BY <1>2, <1>4 DEF BooksInv
    <3>2. \A t \in Nodes : fos[t].expected > 0 => fan_out_states[t].expected > 0
      BY <1>6
    <3> QED BY <1>2, <1>4, <1>5, <2>1, <3>1, <3>2, SpreadSettled
  <2>2. CASE graph.back # {}
    BY <2>2 DEF Settled
  <2> QED BY <2>1, <2>2
<1> QED BY <1>8, <1>9

\* No step of a run of a simple graph breaks the books.
LEMMA NextBooks == TypeOK /\ TypeOK' /\ Simple(graph) /\ BooksInv /\ [Next]_vars => BooksInv'
<1> SUFFICES ASSUME TypeOK, TypeOK', Simple(graph), BooksInv, [Next]_vars PROVE BooksInv'
  OBVIOUS
<1> USE DEF loopVars
<1>1. /\ 0 \in 0..MaxItems /\ MaxItems \in Nat /\ 1..MaxItems \subseteq 0..MaxItems
      /\ \A j \in 1..MaxItems : j # 0
  BY ParameterAssumption
<1>2. CASE UNCHANGED <<graph, completed, failed, fan_out_states, running, running_set>> /\ pc' # "start"
  <2>1. \A t, e : Incoming(t)' = Incoming(t) /\ From(e)' = From(e) /\ To(e)' = To(e)
    BY <1>2 DEF Incoming, Edges, From, To
  <2>2. ASSUME NEW t \in Nodes PROVE Book(t)'
    BY <1>2, <2>1 DEF BooksInv, Book
  <2>3. Settled'
    BY <1>2, <2>1 DEF BooksInv, Settled, HasStarted
  <2> QED BY <1>2, <2>2, <2>3 DEF BooksInv, Fresh
<1>3. CASE UNCHANGED <<graph, completed, failed, fan_out_states, running, running_set, pc>>
  <2>1. \A t, e : Incoming(t)' = Incoming(t) /\ From(e)' = From(e) /\ To(e)' = To(e)
    BY <1>3 DEF Incoming, Edges, From, To
  <2>2. ASSUME NEW t \in Nodes PROVE Book(t)'
    BY <1>3, <2>1 DEF BooksInv, Book
  <2>3. Settled' /\ Fresh'
    BY <1>3, <2>1 DEF BooksInv, Settled, HasStarted, Fresh
  <2> QED BY <2>2, <2>3 DEF BooksInv
<1>4. CASE start_run
  <2>1. /\ UNCHANGED <<graph, completed, failed, fan_out_states>> /\ pc' = "check"
        /\ completed = {} /\ failed = {} /\ running_set' = find_entry_nodes
        /\ \A n \in Nodes : fan_out_states[n] = NoFanOut
    BY <1>4 DEF start_run, BooksInv, Fresh
  <2>2. NoFanOut.expected = 0 /\ NoFanOut.results = {} /\ NoFanOut.completed = Cardinality({})
    BY FS_EmptySet DEF NoFanOut
  <2>3. ASSUME NEW t \in Nodes PROVE Book(t)'
    <3>1. /\ running'[t][0] = IF t \in find_entry_nodes THEN 1 ELSE 0
          /\ \A j \in 1..MaxItems : running'[t][j] = 0
      <4>1. running'[t] = IF t \in find_entry_nodes THEN [NoTasks EXCEPT ![0] = 1] ELSE NoTasks
        BY <1>4 DEF start_run
      <4>2. /\ NoTasks[0] = 0 /\ [NoTasks EXCEPT ![0] = 1][0] = 1
            /\ \A j \in 1..MaxItems : NoTasks[j] = 0 /\ [NoTasks EXCEPT ![0] = 1][j] = 0
        BY <1>1 DEF NoTasks
      <4> QED BY <4>1, <4>2
    <3>2. \A j \in 0..MaxItems : j = 0 \/ j \in 1..MaxItems
      BY <1>1
    <3>3. fan_out_states'[t].expected = 0 /\ fan_out_states'[t].results = {}
          /\ fan_out_states'[t].completed = Cardinality({})
      BY <2>1, <2>2
    <3> QED BY <2>1, <3>1, <3>2, <3>3 DEF Book
  <2>4. Settled'
    <3>1. ASSUME graph.back = {}, NEW t \in Nodes, HasStarted(t)', NEW e \in Incoming(t)' PROVE FALSE
      <4>1. Incoming(t)' = Incoming(t)
        BY <2>1 DEF Incoming, Edges, To
      <4>2. fan_out_states'[t].expected = 0
        BY <2>1, <2>2
      <4>3. t \in find_entry_nodes
        BY <2>1, <3>1, <4>2 DEF HasStarted
      <4> QED BY <3>1, <4>1, <4>3 DEF find_entry_nodes
    <3> QED BY <2>1, <3>1 DEF Settled
  <2> QED BY <2>1, <2>3, <2>4 DEF BooksInv, Fresh
<1>5. CASE check_loop \/ broadcast_completed \/ cleanup
  BY <1>2, <1>5 DEF check_loop, broadcast_completed, cleanup
<1>6. CASE request_cancel \/ UNCHANGED vars
  BY <1>3, <1>6 DEF request_cancel, vars
<1>7. ASSUME NEW n \in Nodes, node_succeeds(n) PROVE BooksInv'
  BY <1>7, SucceedsBooks DEF BooksInv, Fresh, node_succeeds
<1>8. ASSUME NEW n \in Nodes, node_fails(n) PROVE BooksInv'
  BY <1>8, FailsBooks DEF BooksInv, Fresh, node_fails
<1>9. ASSUME NEW n \in Nodes, NEW i \in 0..MaxItems, NEW ok \in BOOLEAN, instance_returns(n, i, ok)
      PROVE  BooksInv'
  <2>1. /\ i \in 1..MaxItems /\ running[n][i] > 0 /\ pc' = "check"
        /\ UNCHANGED <<graph, failed>>
    BY <1>9, InstanceCases
  <2>2. CASE /\ fan_out_states' = fan_out_states /\ running' = Take(n, i)
             /\ UNCHANGED <<completed, running_set>>
    BY <1>9, <2>1, <2>2, TakeBooks DEF BooksInv, Fresh
  <2>3. CASE /\ fan_out_states' = [fan_out_states EXCEPT ![n] = record_instance(@, i, ok)]
             /\ running' = Take(n, i) /\ UNCHANGED <<completed, running_set>>
    BY <2>1, <2>3, RecordBooks DEF BooksInv, Fresh
  <2>4. ASSUME fan_out_states[n].expected > 0,
               record_instance(fan_out_states[n], i, ok).completed = fan_out_states[n].expected,
               NEW out \in Outputs(n),
               node_outputs' = [node_outputs EXCEPT ![n] = out],
               evaluate_downstream(n, out, TRUE, completed \cup {n}, Take(n, i), running_set,
                                   [fan_out_states EXCEPT ![n] = NoFanOut], node_outputs')
        PROVE  BooksInv'
    <3>1. (\A t \in Nodes : Book(t)') /\ Settled'
      BY <2>1, <2>4, LastInstanceBooks
    <3> QED BY <2>1, <3>1 DEF BooksInv, Fresh
  <2>5. \/ /\ fan_out_states' = fan_out_states /\ running' = Take(n, i)
           /\ UNCHANGED <<completed, running_set>>
        \/ /\ fan_out_states' = [fan_out_states EXCEPT ![n] = record_instance(@, i, ok)]
           /\ running' = Take(n, i) /\ UNCHANGED <<completed, running_set>>
        \/ /\ fan_out_states[n].expected > 0
           /\ record_instance(fan_out_states[n], i, ok).completed = fan_out_states[n].expected
           /\ \E out \in Outputs(n) :
                 /\ node_outputs' = [node_outputs EXCEPT ![n] = out]
                 /\ evaluate_downstream(n, out, TRUE, completed \cup {n}, Take(n, i), running_set,
                                   [fan_out_states EXCEPT ![n] = NoFanOut], node_outputs')
    BY <1>9, InstanceCases, Zenon
  <2> QED BY <2>2, <2>3, <2>4, <2>5, Zenon
<1>10. ASSUME NEW n \in Nodes, NEW i \in 0..MaxItems, task_panics(n, i) \/ detached_task_ends(n, i)
       PROVE  BooksInv'
  <2>1. /\ running[n][i] > 0 /\ running' = Take(n, i)
        /\ UNCHANGED <<graph, completed, fan_out_states, running_set>>
        /\ failed' \in {failed, failed \cup {"unknown"}} /\ pc' # "start"
    BY <1>10 DEF task_panics, detached_task_ends
  <2>2. (\A t \in Nodes : Book(t)') /\ Settled'
    BY <2>1, TakeBooks
  <2> QED BY <2>1, <2>2 DEF BooksInv, Fresh
<1> QED BY <1>4, <1>5, <1>6, <1>7, <1>8, <1>9, <1>10 DEF Next, LoopStep, TaskReturns, Terminated

\* On simple graphs no order of results, failures, panics and cancellation makes the loop run
\* a node twice at once, count a result of a fan-out twice or lose one, or count a node as
\* completed and failed (edges.rs, fanout.rs, run.rs: running_set, fan_out_states, done_count).
THEOREM BooksBalance == Spec => [](Simple(graph) => TasksAccounted)
<1> DEFINE I == TypeOK /\ (Simple(graph) => BooksInv)
<1>1. Init => I
  BY InitTypeOK, InitBooks
<1>2. I /\ [Next]_vars => I'
  <2>1. [Next]_vars => (Simple(graph)' <=> Simple(graph))
    BY GraphStays DEF Simple
  <2> QED BY <2>1, NextTypeOK, NextBooks
<1>3. I => (Simple(graph) => TasksAccounted)
  <2> SUFFICES ASSUME TypeOK, BooksInv PROVE TasksAccounted
    OBVIOUS
  <2>1. NoDuplicateTask
    BY BookFacts DEF NoDuplicateTask
  <2>2. FanInComplete
    BY BookFacts DEF FanInComplete
  <2>3. CompletedNotFailed
    BY BookFacts DEF CompletedNotFailed, TypeOK
  <2> QED BY <2>1, <2>2, <2>3 DEF TasksAccounted
<1> HIDE DEF I
<1> QED BY <1>1, <1>2, <1>3, PTL DEF Spec

-----------------------------------------------------------------------------
(* No wake-up is lost, where no edge carries a condition *)

\* Graphs whose edges never run a node again.
Dag(g) == Simple(g) /\ g.back = {}

\* Only edges out of completed nodes have been traversed.
Counted == \A e \in Edges : edge_traversal_counts[e] > 0 => From(e) \in completed

\* A node that has not started waits for something, or nothing it depends on completed.
Waits(t) ==
    /\ Incoming(t) # {}
    /\ \/ \E e \in Incoming(t) : From(e) \notin completed \cup failed
       \/ \A e \in Incoming(t) : From(e) \notin completed

WakeInv == Counted /\ (pc # "start" => \A t \in Nodes : HasStarted(t) \/ Waits(t))

\* The graphs and the limit the invariant is about.
Unconditional == Dag(graph) /\ graph.cond = {} /\ MaxTraversals > 0

\* A result of n counts edges out of n only.
LEMMA CountsGrow ==
    ASSUME TypeOK, NEW n, NEW out,
           edge_traversal_counts' =
              [e \in Edges |-> edge_traversal_counts[e] + (IF e \in Passed(n, out) THEN 1 ELSE 0)]
    PROVE  \A e \in Edges : edge_traversal_counts'[e] > 0 => edge_traversal_counts[e] > 0 \/ From(e) = n
<1> SUFFICES ASSUME NEW e \in Edges, edge_traversal_counts'[e] > 0, From(e) # n
             PROVE  edge_traversal_counts[e] > 0
  OBVIOUS
<1>1. e \notin Passed(n, out)
  BY DEF Passed, Outgoing
<1>2. edge_traversal_counts'[e] = edge_traversal_counts[e] + 0
  BY <1>1
<1>3. edge_traversal_counts[e] \in Nat
  BY ParameterAssumption DEF TypeOK
<1> QED BY <1>2, <1>3

\* A result that completes n wakes every target of n that waited for n alone.
LEMMA SpreadWakes ==
    ASSUME TypeOK, BooksInv, Unconditional, WakeInv, pc # "start",
           NEW n \in Nodes, n \notin completed \cup failed, HasStarted(n),
           UNCHANGED <<graph, failed>>,
           NEW out \in Outputs(n), NEW done, done = completed \cup {n},
           NEW outs, outs[n] = out,
           NEW tasks, NEW rset, NEW fos, NEW S \in SUBSET Nodes,
           S = ReadyNodes(n, out, done, outs, rset, fos),
           Spread(S, tasks, rset, fos), completed' = done \ S,
           rset = running_set \ {n},
           \A t \in Nodes : fos[t].expected > 0 => fan_out_states[t].expected > 0,
           \A t \in Nodes \ {n} : fos[t] = fan_out_states[t],
           \A e \in Edges : edge_traversal_counts'[e] > 0 => edge_traversal_counts[e] > 0 \/ From(e) = n
    PROVE  WakeInv'
<1>1. graph.back = {} /\ graph.cond = {} /\ MaxTraversals > 0 /\ Settled
  BY DEF Unconditional, Dag, BooksInv
<1>2. completed' = completed \cup {n}
  <2>1. \A t \in S : t # n /\ t \notin completed
    BY <1>1, ReadyIsNew
  <2> QED BY <2>1
<1>3. \A t, e : Incoming(t)' = Incoming(t) /\ From(e)' = From(e) /\ Edges' = Edges
  BY DEF Incoming, Edges, From, To
<1>4. Counted'
  <2>1. ASSUME NEW e \in Edges, edge_traversal_counts'[e] > 0 PROVE From(e) \in completed'
    BY <1>2, <2>1 DEF WakeInv, Counted
  <2> QED BY <1>3, <2>1 DEF Counted
<1>5. ASSUME NEW t \in Nodes, ~HasStarted(t)' PROVE Waits(t)'
  <2>1. t \notin S
    <3>1. ASSUME t \in S PROVE FALSE
      <4>1. CASE Plain(t, tasks, fos)
        BY <1>5, <4>1 DEF Plain, HasStarted
      <4>2. CASE Fanned(t, tasks, rset)
        <5>1. PICK k \in 1..MaxItems : fan_out_states'[t] = [expected |-> k, results |-> {}, completed |-> 0]
          BY <4>2 DEF Fanned
        <5>2. fan_out_states'[t].expected > 0
          BY <5>1
        <5> QED BY <1>5, <5>2 DEF HasStarted
      <4> QED BY <3>1, <4>1, <4>2 DEF Spread
    <3> QED BY <3>1
  <2>2. ~HasStarted(t) /\ t # n
    <3>1. t # n
      BY <1>2, <1>5 DEF HasStarted
    <3>2. (t \in running_set' <=> t \in running_set) /\ fan_out_states'[t] = fan_out_states[t]
      BY <2>1, <3>1 DEF Spread, Kept
    <3> QED BY <1>2, <1>5, <3>1, <3>2 DEF HasStarted
  <2>3. Waits(t)
    BY <2>2 DEF WakeInv
  <2>4. CASE \A e \in Incoming(t) : From(e) # n
    BY <1>2, <1>3, <2>3, <2>4 DEF Waits
  <2>5. CASE \E e \in Incoming(t) : From(e) = n
    <3>1. PICK e \in Incoming(t) : From(e) = n
      BY <2>5
    <3>2. e \in Passed(n, out)
      <4>1. e \in Edges /\ e \in Outgoing(n)
        BY <3>1 DEF Incoming, Outgoing
      <4>2. edge_traversal_counts[e] \in Nat /\ ~(edge_traversal_counts[e] > 0)
        BY <3>1, <4>1, ParameterAssumption DEF TypeOK, WakeInv, Counted
      <4>3. edge_traversal_counts[e] < MaxTraversals
        BY <1>1, <4>2, ParameterAssumption
      <4> QED BY <1>1, <4>1, <4>3 DEF Passed, evaluate_edge_condition
    <3>3. fos[t].expected = 0 /\ t \notin rset /\ t \notin failed
      <4>1. fan_out_states[t].expected \in 0..MaxItems
        BY BookFacts
      <4> QED BY <2>2, <4>1, ParameterAssumption DEF HasStarted
    <3>4. To(e) = t
      BY <3>1 DEF Incoming
    <3>5. ~is_node_ready(t, done, outs)
      BY <2>1, <3>2, <3>3, <3>4 DEF ReadyNodes
    <3>6. out.tag # "none"
      BY DEF Outputs
    <3>7. \E f \in Incoming(t) : From(f) \notin done \cup failed
      BY <1>1, <3>1, <3>5, <3>6 DEF is_node_ready, evaluate_edge_condition
    <3> QED BY <1>2, <1>3, <2>3, <3>7 DEF Waits
  <2> QED BY <2>4, <2>5
<1> QED BY <1>4, <1>5 DEF WakeInv

\* No step loses a wake-up.
LEMMA NextWakes == TypeOK /\ BooksInv /\ Unconditional /\ WakeInv /\ [Next]_vars => WakeInv'
<1> SUFFICES ASSUME TypeOK, BooksInv, Unconditional, WakeInv, [Next]_vars PROVE WakeInv'
  OBVIOUS
<1> USE DEF loopVars
<1>0. /\ 0 \in 0..MaxItems /\ MaxItems \in Nat
  BY ParameterAssumption
<1>1. UNCHANGED graph
  BY GraphStays
<1>2. \A t, e : Incoming(t)' = Incoming(t) /\ Outgoing(t)' = Outgoing(t) /\ From(e)' = From(e) /\ Edges' = Edges
  BY <1>1 DEF Incoming, Outgoing, Edges, From, To
<1>3. CASE /\ UNCHANGED <<completed, edge_traversal_counts, running_set>>
           /\ \A t \in Nodes : t \in failed' <=> t \in failed
           /\ \A t \in Nodes : fan_out_states'[t].expected = fan_out_states[t].expected
           /\ pc' = "start" => pc = "start"
           /\ pc # "start"
  <2>1. \A t \in Nodes : HasStarted(t)' <=> HasStarted(t)
    BY <1>3 DEF HasStarted
  <2>2. Counted'
    BY <1>2, <1>3 DEF WakeInv, Counted
  <2>3. ASSUME NEW t \in Nodes, Waits(t) PROVE Waits(t)'
    <3>1. \A e \in Incoming(t) : From(e) \in Nodes
      BY GraphFacts
    <3> QED BY <1>2, <1>3, <2>3, <3>1 DEF Waits
  <2> QED BY <1>3, <2>1, <2>2, <2>3 DEF WakeInv
<1>4. CASE start_run
  <2>1. /\ running_set' = find_entry_nodes /\ UNCHANGED <<completed, failed, edge_traversal_counts>>
        /\ completed = {} /\ failed = {}
    BY <1>4 DEF start_run, BooksInv, Fresh
  <2>2. Counted'
    BY <1>2, <2>1 DEF WakeInv, Counted
  <2>3. ASSUME NEW t \in Nodes, t \notin find_entry_nodes PROVE Waits(t)'
    <3>1. Incoming(t) # {}
      BY <2>3 DEF find_entry_nodes
    <3> QED BY <1>2, <2>1, <3>1 DEF Waits
  <2> QED BY <2>1, <2>2, <2>3 DEF WakeInv, HasStarted
<1>5. CASE check_loop \/ broadcast_completed \/ cleanup
  BY <1>3, <1>5 DEF check_loop, broadcast_completed, cleanup
<1>6. CASE request_cancel \/ UNCHANGED vars
  <2>1. UNCHANGED <<completed, failed, edge_traversal_counts, running_set, fan_out_states, pc>>
    BY <1>6 DEF request_cancel, vars
  <2>2. CASE pc # "start"
    BY <1>3, <2>1, <2>2
  <2>3. CASE pc = "start"
    BY <1>2, <2>1, <2>3 DEF WakeInv, Counted
  <2> QED BY <2>2, <2>3
<1>7. ASSUME NEW n \in Nodes, node_succeeds(n) PROVE WakeInv'
  <2>1. running[n][0] > 0 /\ pc = "await" /\ UNCHANGED failed
    BY <1>7 DEF node_succeeds
  <2>2. n \in running_set /\ n \notin completed \cup failed /\ HasStarted(n)
    BY <2>1, BookFacts DEF HasStarted
  <2>3. PICK out \in Outputs(n), S \in SUBSET Nodes :
          /\ node_outputs' = [node_outputs EXCEPT ![n] = out]
          /\ S = ReadyNodes(n, out, completed \cup {n}, node_outputs', running_set \ {n}, fan_out_states)
          /\ completed' = (completed \cup {n}) \ S
          /\ edge_traversal_counts' =
                [e \in Edges |-> edge_traversal_counts[e] + (IF e \in Passed(n, out) THEN 1 ELSE 0)]
          /\ Spread(S, Take(n, 0), running_set \ {n}, fan_out_states)
    BY <1>7, SucceedsFacts
  <2>4. PICK done, tasks, rset, fos, outs :
          /\ done = completed \cup {n} /\ tasks = Take(n, 0) /\ rset = running_set \ {n}
          /\ fos = fan_out_states /\ outs = node_outputs'
    OBVIOUS
  <2>5. S = ReadyNodes(n, out, done, outs, rset, fos) /\ completed' = done \ S /\ Spread(S, tasks, rset, fos)
    BY <2>3, <2>4
  <2>6. outs[n] = out
    BY <2>3, <2>4 DEF TypeOK
  <2>7. /\ \A t \in Nodes : fos[t].expected > 0 => fan_out_states[t].expected > 0
        /\ \A t \in Nodes \ {n} : fos[t] = fan_out_states[t]
    BY <2>4
  <2>8. \A e \in Edges : edge_traversal_counts'[e] > 0 => edge_traversal_counts[e] > 0 \/ From(e) = n
    BY <2>3, CountsGrow
  <2> QED BY <1>1, <2>1, <2>2, <2>4, <2>5, <2>6, <2>7, <2>8, SpreadWakes
<1>8. ASSUME NEW n \in Nodes, node_fails(n) PROVE WakeInv'
  <2> DEFINE S == find_ready_after_failure(n, running_set \ {n}, failed \cup {n})
  <2>1. /\ running[n][0] > 0 /\ pc = "await" /\ failed' = failed \cup {n}
        /\ running_set' = (running_set \ {n}) \cup S
        /\ UNCHANGED <<completed, edge_traversal_counts, fan_out_states>>
    BY <1>8 DEF node_fails
  <2>2. Counted'
    BY <1>2, <2>1 DEF WakeInv, Counted
  <2>3. ASSUME NEW t \in Nodes, ~HasStarted(t)' PROVE Waits(t)'
    <3>1. t \notin S /\ t # n /\ ~HasStarted(t)
      BY <2>1, <2>3 DEF HasStarted
    <3>2. Waits(t)
      BY <2>1, <3>1 DEF WakeInv
    <3>3. CASE \A e \in Incoming(t) : From(e) # n
      BY <1>2, <2>1, <3>2, <3>3 DEF Waits
    <3>4. CASE \E e \in Incoming(t) : From(e) = n
      <4>1. PICK e \in Incoming(t) : From(e) = n
        BY <3>4
      <4>2. e \in Outgoing(n) /\ To(e) = t
        BY <4>1 DEF Incoming, Outgoing
      <4>3. t \notin completed \cup (failed \cup {n}) \cup (running_set \ {n})
        BY <3>1 DEF HasStarted
      <4>4. \/ \E f \in Incoming(t) : From(f) \notin completed \cup (failed \cup {n})
            \/ \A f \in Incoming(t) : From(f) \notin completed
        BY <3>1, <4>2, <4>3 DEF find_ready_after_failure
      <4> QED BY <1>2, <2>1, <3>2, <4>4 DEF Waits
    <3> QED BY <3>3, <3>4
  <2> QED BY <2>2, <2>3 DEF WakeInv
<1>9. ASSUME NEW n \in Nodes, NEW i \in 0..MaxItems, NEW ok \in BOOLEAN, instance_returns(n, i, ok)
      PROVE  WakeInv'
  <2>1. /\ i \in 1..MaxItems /\ running[n][i] > 0 /\ pc = "await" /\ pc' = "check" /\ failed' = failed
    BY <1>9, InstanceCases
  <2>4. CASE /\ fan_out_states' = fan_out_states
             /\ UNCHANGED <<completed, node_outputs, edge_traversal_counts, running_set>>
    BY <1>3, <2>1, <2>4
  <2>2. CASE /\ UNCHANGED <<completed, node_outputs, edge_traversal_counts, running_set>>
             /\ fan_out_states' = [fan_out_states EXCEPT ![n] = record_instance(@, i, ok)]
    <3>1. \A t \in Nodes : fan_out_states'[t].expected = fan_out_states[t].expected
      <4>1. /\ fan_out_states \in [Nodes -> FanOutState] /\ fan_out_states[n] \in FanOutState
            /\ record_instance(fan_out_states[n], i, ok).expected = fan_out_states[n].expected
        BY <2>1, RecordTypes DEF TypeOK
      <4> QED BY <2>2, <4>1
    <3> QED BY <1>3, <2>1, <2>2, <3>1
  <2>3. ASSUME fan_out_states[n].expected > 0, NEW out \in Outputs(n),
               node_outputs' = [node_outputs EXCEPT ![n] = out],
               evaluate_downstream(n, out, TRUE, completed \cup {n}, Take(n, i), running_set,
                                   [fan_out_states EXCEPT ![n] = NoFanOut], node_outputs')
        PROVE  WakeInv'
    <3>1. n \notin running_set /\ n \notin completed \cup failed /\ HasStarted(n)
      BY <2>3, BookFacts DEF HasStarted
    <3>2. PICK S \in SUBSET Nodes :
            /\ S = ReadyNodes(n, out, completed \cup {n}, node_outputs', running_set,
                              [fan_out_states EXCEPT ![n] = NoFanOut])
            /\ completed' = (completed \cup {n}) \ S
            /\ edge_traversal_counts' =
                  [e \in Edges |-> edge_traversal_counts[e] + (IF e \in Passed(n, out) THEN 1 ELSE 0)]
            /\ Spread(S, Take(n, i), running_set, [fan_out_states EXCEPT ![n] = NoFanOut])
      BY <2>1, <2>3, LastInstanceFacts
    <3>3. PICK done, tasks, rset, fos, outs :
            /\ done = completed \cup {n} /\ tasks = Take(n, i) /\ rset = running_set
            /\ fos = [fan_out_states EXCEPT ![n] = NoFanOut] /\ outs = node_outputs'
      OBVIOUS
    <3>4. S = ReadyNodes(n, out, done, outs, rset, fos) /\ completed' = done \ S /\ Spread(S, tasks, rset, fos)
      BY <3>2, <3>3
    <3>5. outs[n] = out /\ rset = running_set \ {n}
      BY <2>3, <3>1, <3>3 DEF TypeOK
    <3>6. /\ \A t \in Nodes : fos[t].expected > 0 => fan_out_states[t].expected > 0
          /\ \A t \in Nodes \ {n} : fos[t] = fan_out_states[t]
      BY <2>3, <3>3 DEF TypeOK
    <3>7. \A e \in Edges : edge_traversal_counts'[e] > 0 => edge_traversal_counts[e] > 0 \/ From(e) = n
      BY <3>2, CountsGrow
    <3>8. done = completed \cup {n} /\ pc # "start" /\ UNCHANGED <<graph, failed>>
      BY <1>1, <2>1, <3>3
    <3> QED BY <3>1, <3>4, <3>5, <3>6, <3>7, <3>8, SpreadWakes
  <2>5. \/ /\ fan_out_states[n].expected = 0 /\ fan_out_states' = fan_out_states
           /\ running' = Take(n, i)
           /\ UNCHANGED <<completed, node_outputs, edge_traversal_counts, running_set>>
        \/ /\ fan_out_states[n].expected > 0
           /\ record_instance(fan_out_states[n], i, ok).completed # fan_out_states[n].expected
           /\ fan_out_states' = [fan_out_states EXCEPT ![n] = record_instance(@, i, ok)]
           /\ running' = Take(n, i)
           /\ UNCHANGED <<completed, node_outputs, edge_traversal_counts, running_set>>
        \/ /\ fan_out_states[n].expected > 0
           /\ record_instance(fan_out_states[n], i, ok).completed = fan_out_states[n].expected
           /\ \E out \in Outputs(n) :
                 /\ node_outputs' = [node_outputs EXCEPT ![n] = out]
                 /\ evaluate_downstream(n, out, TRUE, completed \cup {n}, Take(n, i), running_set,
                                   [fan_out_states EXCEPT ![n] = NoFanOut], node_outputs')
    BY <1>9, InstanceCases, Zenon
  <2> QED BY <2>2, <2>3, <2>4, <2>5, Zenon
<1>10. ASSUME NEW n \in Nodes, NEW i \in 0..MaxItems, task_panics(n, i) \/ detached_task_ends(n, i)
       PROVE  WakeInv'
  <2>1. /\ UNCHANGED <<completed, edge_traversal_counts, fan_out_states, running_set>>
        /\ failed' \in {failed, failed \cup {"unknown"}} /\ pc' # "start" /\ pc # "start"
    BY <1>10 DEF task_panics, detached_task_ends
  <2>2. \A t \in Nodes : t \in failed' <=> t \in failed
    BY <2>1, NodesAssumption
  <2> QED BY <1>3, <2>1, <2>2
<1> QED BY <1>4, <1>5, <1>6, <1>7, <1>8, <1>9, <1>10 DEF Next, LoopStep, TaskReturns, Terminated

\* On graphs without back-edges and without conditions, in which an edge may be traversed at
\* all, no order of completions, failures and panics ends a run with a node left behind that
\* was ready by the rule of is_node_ready (edges.rs: a target is looked at only when one of
\* its sources returns).
THEOREM NoLostWakeup ==
    Spec => [](Dag(graph) /\ MaxTraversals > 0 => NoReadyNodeLeftUnconditional)
<1> DEFINE J == TypeOK /\ (Simple(graph) => BooksInv) /\ StatusInv /\ (Unconditional => WakeInv)
<1>1. Init => J
  <2>1. Init => StatusInv
    BY DEF Init, StatusInv, StatusSound
  <2>2. ASSUME Init PROVE WakeInv
    <3>1. \A e \in Edges : edge_traversal_counts[e] = 0
      BY <2>2 DEF Init
    <3> QED BY <2>2, <3>1 DEF Init, WakeInv, Counted
  <2> QED BY <2>1, <2>2, InitTypeOK, InitBooks
<1>2. J /\ [Next]_vars => J'
  <2>1. [Next]_vars => (Simple(graph)' <=> Simple(graph)) /\ (Unconditional' <=> Unconditional)
    BY GraphStays DEF Simple, Unconditional, Dag
  <2>2. Unconditional => Simple(graph)
    BY DEF Unconditional, Dag
  <2> QED BY <2>1, <2>2, NextTypeOK, NextBooks, NextStatusInv, NextWakes
<1>3. J => (Dag(graph) /\ MaxTraversals > 0 => NoReadyNodeLeftUnconditional)
  <2> SUFFICES ASSUME TypeOK, BooksInv, StatusInv, WakeInv, Unconditional, status \in {"Completed", "Failed"},
                      NEW t \in Nodes \ (completed \cup failed \cup running_set),
                      fan_out_states[t].expected = 0
               PROVE  ~is_node_ready(t, completed, node_outputs)
    BY DEF NoReadyNodeLeftUnconditional, NoReadyNodeLeft, Unconditional, Dag
  <2>1. ~HasStarted(t)
    BY DEF HasStarted
  <2>2. pc # "start"
    BY DEF StatusInv
  <2>3. Waits(t)
    BY <2>1, <2>2 DEF WakeInv
  <2> QED BY <2>3 DEF Waits, is_node_ready, Unconditional, Dag
<1> HIDE DEF J
<1> QED BY <1>1, <1>2, <1>3, PTL DEF Spec

-----------------------------------------------------------------------------
(* Nothing starts too early *)

\* A target of n that starts because of n's result, on a graph without back-edges.
LEMMA ReadyJustified ==
    ASSUME TypeOK, Settled, graph.back = {}, UNCHANGED <<graph, failed>>,
           NEW n \in Nodes, n \notin completed \cup failed, HasStarted(n),
           NEW out, NEW done, done = completed \cup {n}, NEW outs, NEW rset, NEW fos, NEW S,
           S = ReadyNodes(n, out, done, outs, rset, fos), completed' = done \ S, NEW t \in S
    PROVE  Joined(t) /\ (graph.cond = {} => Justified(t))
<1>1. ASSUME NEW u \in S PROVE u # n /\ u \notin completed
  BY ReadyIsNew, SMTT(30)
<1>2. completed' = completed \cup {n}
  BY <1>1
<1>3. \A e \in Incoming(t) : From(e) \in completed \cup {n} \cup failed
  BY ReadyIsNew
<1>4. Joined(t)
  BY <1>2, <1>3 DEF Joined
<1>5. PICK e \in Outgoing(n) : To(e) = t
  BY ReadyGuards
<1>6. e \in Incoming(t) /\ From(e) \in completed'
  BY <1>2, <1>5 DEF Outgoing, Incoming
<1>7. graph.cond = {} => Justified(t)
  BY <1>6 DEF Justified, evaluate_edge_condition
<1> QED BY <1>4, <1>7

\* A node whose tasks did not grow in number was not started.
LEMMA NotSpawned ==
    ASSUME NEW t \in Nodes, running \in Tasks, running' \in Tasks,
           \A i \in 0..MaxItems : running'[t][i] <= running[t][i]
    PROVE  ~Spawned(t)
<1>1. \A i \in 0..MaxItems : running'[t][i] \in Nat /\ running[t][i] \in Nat
  BY DEF Tasks
<1> QED BY <1>1 DEF Spawned

\* What a step starts, it starts when everything it depends on has settled, and for a reason.
LEMMA NextStartsJustified ==
    ASSUME TypeOK, TypeOK', BooksInv, Dag(graph), [Next]_vars, NEW t \in Nodes, Spawned(t)
    PROVE  Joined(t) /\ (graph.cond = {} => Justified(t))
<1> USE DEF loopVars
<1>0. /\ 0 \in 0..MaxItems /\ MaxItems \in Nat /\ 1..MaxItems \subseteq 0..MaxItems
      /\ running \in Tasks /\ running' \in Tasks
      /\ \A i \in 0..MaxItems : running[t][i] \in Nat
  <2>1. MaxItems \in Nat /\ running \in Tasks /\ running' \in Tasks
    BY ParameterAssumption DEF TypeOK, Tasks
  <2> QED BY <2>1 DEF Tasks
<1>1. graph.back = {} /\ Simple(graph) /\ Settled
  BY DEF Dag, BooksInv
<1>2. UNCHANGED graph
  BY GraphStays
<1>3. CASE UNCHANGED running
  BY <1>0, <1>3, NotSpawned
<1>4. CASE start_run
  <2>1. t \in find_entry_nodes
    <3>1. ASSUME t \notin find_entry_nodes PROVE FALSE
      <4>1. running'[t] = NoTasks
        BY <1>4, <3>1 DEF start_run
      <4>2. \A i \in 0..MaxItems : running'[t][i] = 0
        BY <4>1 DEF NoTasks
      <4>3. \A i \in 0..MaxItems : running'[t][i] <= running[t][i]
        BY <1>0, <4>2
      <4> QED BY <1>0, <4>3, NotSpawned
    <3> QED BY <3>1
  <2> QED BY <2>1 DEF find_entry_nodes, Joined, Justified
<1>5. CASE check_loop \/ broadcast_completed \/ cleanup \/ request_cancel \/ UNCHANGED vars
  BY <1>3, <1>5 DEF check_loop, broadcast_completed, cleanup, request_cancel, vars
<1>6. ASSUME NEW n \in Nodes, NEW i \in 0..MaxItems, running[n][i] > 0, running' = Take(n, i)
      PROVE  FALSE
  <2>1. \A j \in 0..MaxItems : running'[t][j] <= running[t][j]
    BY <1>6, TakeFacts
  <2> QED BY <1>0, <2>1, NotSpawned
<1>7. ASSUME NEW n \in Nodes, node_succeeds(n) PROVE Joined(t) /\ (graph.cond = {} => Justified(t))
  <2>1. running[n][0] > 0 /\ UNCHANGED <<graph, failed>>
    BY <1>2, <1>7 DEF node_succeeds
  <2>2. n \in running_set /\ n \notin completed \cup failed /\ HasStarted(n)
    BY <2>1, BookFacts DEF HasStarted
  <2>3. PICK out \in Outputs(n), S \in SUBSET Nodes :
          /\ S = ReadyNodes(n, out, completed \cup {n}, node_outputs', running_set \ {n}, fan_out_states)
          /\ completed' = (completed \cup {n}) \ S
          /\ Spread(S, Take(n, 0), running_set \ {n}, fan_out_states)
    BY <1>7, SucceedsFacts
  <2>4. t \in S
    <3>1. ASSUME t \notin S PROVE FALSE
      <4>1. running'[t] = Take(n, 0)[t]
        BY <2>3, <3>1 DEF Spread, Kept
      <4>2. \A j \in 0..MaxItems : running'[t][j] <= running[t][j]
        BY <1>0, <2>1, <4>1, TakeFacts
      <4> QED BY <1>0, <4>2, NotSpawned
    <3> QED BY <3>1
  <2>5. PICK done, rset, outs : done = completed \cup {n} /\ rset = running_set \ {n} /\ outs = node_outputs'
    OBVIOUS
  <2>6. S = ReadyNodes(n, out, done, outs, rset, fan_out_states) /\ completed' = done \ S
    BY <2>3, <2>5
  <2> QED BY <1>1, <2>1, <2>2, <2>4, <2>5, <2>6, ReadyJustified
<1>8. ASSUME NEW n \in Nodes, node_fails(n) PROVE Joined(t) /\ (graph.cond = {} => Justified(t))
  <2> DEFINE S == find_ready_after_failure(n, running_set \ {n}, failed \cup {n})
  <2>1. /\ running[n][0] > 0 /\ failed' = failed \cup {n} /\ UNCHANGED completed
        /\ running' = [u \in Nodes |->
               IF u \in S
               THEN [Take(n, 0)[u] EXCEPT ![0] = @ + Cardinality(Outgoing(n) \cap Incoming(u))]
               ELSE Take(n, 0)[u]]
    BY <1>8 DEF node_fails
  <2>2. t \in S
    <3>1. ASSUME t \notin S PROVE FALSE
      <4>1. running'[t] = Take(n, 0)[t]
        BY <2>1, <3>1
      <4>2. \A j \in 0..MaxItems : running'[t][j] <= running[t][j]
        BY <1>0, <2>1, <4>1, TakeFacts
      <4> QED BY <1>0, <4>2, NotSpawned
    <3> QED BY <3>1
  <2>3. /\ \A e \in Incoming(t) : From(e) \in completed \cup (failed \cup {n})
        /\ \E e \in Incoming(t) : From(e) \in completed
    BY <2>2 DEF find_ready_after_failure
  <2> QED BY <2>1, <2>3 DEF Joined, Justified, evaluate_edge_condition
<1>9. ASSUME NEW n \in Nodes, NEW i \in 0..MaxItems, NEW ok \in BOOLEAN, instance_returns(n, i, ok)
      PROVE  Joined(t) /\ (graph.cond = {} => Justified(t))
  <2>1. /\ i \in 1..MaxItems /\ running[n][i] > 0 /\ UNCHANGED <<graph, failed>>
    BY <1>9, InstanceCases
  <2>2. CASE running' = Take(n, i)
    BY <1>6, <2>1, <2>2
  <2>3. ASSUME fan_out_states[n].expected > 0, NEW out \in Outputs(n),
               node_outputs' = [node_outputs EXCEPT ![n] = out],
               evaluate_downstream(n, out, TRUE, completed \cup {n}, Take(n, i), running_set,
                                   [fan_out_states EXCEPT ![n] = NoFanOut], node_outputs')
        PROVE  Joined(t) /\ (graph.cond = {} => Justified(t))
    <3>1. n \notin completed \cup failed /\ HasStarted(n)
      BY <2>3, BookFacts DEF HasStarted
    <3>2. PICK S \in SUBSET Nodes :
            /\ S = ReadyNodes(n, out, completed \cup {n}, node_outputs', running_set,
                              [fan_out_states EXCEPT ![n] = NoFanOut])
            /\ completed' = (completed \cup {n}) \ S
            /\ Spread(S, Take(n, i), running_set, [fan_out_states EXCEPT ![n] = NoFanOut])
      BY <2>1, <2>3, LastInstanceFacts
    <3>3. t \in S
      <4>1. ASSUME t \notin S PROVE FALSE
        <5>1. running'[t] = Take(n, i)[t]
          BY <3>2, <4>1 DEF Spread, Kept
        <5>2. \A j \in 0..MaxItems : running'[t][j] <= running[t][j]
          BY <1>0, <2>1, <5>1, TakeFacts
        <5> QED BY <1>0, <5>2, NotSpawned
      <4> QED BY <4>1
    <3>4. PICK done, fos, outs : /\ done = completed \cup {n} /\ outs = node_outputs'
                                 /\ fos = [fan_out_states EXCEPT ![n] = NoFanOut]
      OBVIOUS
    <3>5. S = ReadyNodes(n, out, done, outs, running_set, fos) /\ completed' = done \ S /\ done = completed \cup {n}
      BY <3>2, <3>4
    <3> QED BY <1>1, <2>1, <3>1, <3>3, <3>5, ReadyJustified
  <2> QED BY <1>9, <2>2, <2>3, InstanceCases
<1>10. ASSUME NEW n \in Nodes, NEW i \in 0..MaxItems, task_panics(n, i) \/ detached_task_ends(n, i)
       PROVE  FALSE
  BY <1>6, <1>10 DEF task_panics, detached_task_ends
<1> QED BY <1>4, <1>5, <1>7, <1>8, <1>9, <1>10 DEF Next, LoopStep, TaskReturns, Terminated

\* Where no graph has a back-edge, no order of results and failures starts a node before all
\* its sources have completed or failed, nor (without conditions) one none of whose sources
\* completed (is_node_ready and find_ready_after_failure).
THEOREM StartsAreJustified ==
    ASSUME \A g \in Graphs : Dag(g)
    PROVE  Spec => StartsJustified
<1> DEFINE I == TypeOK /\ BooksInv /\ Dag(graph)
<1>1. Init => I
  BY InitTypeOK, InitBooks DEF Init
<1>2. I /\ [Next]_vars => I'
  <2>1. [Next]_vars => (Dag(graph)' <=> Dag(graph))
    BY GraphStays DEF Dag, Simple
  <2>2. Dag(graph) => Simple(graph)
    BY DEF Dag
  <2> QED BY <2>1, <2>2, NextTypeOK, NextBooks
<1>3. I /\ I' /\ [Next]_vars =>
        [\A t \in Nodes : Spawned(t) => /\ t \notin completed => Joined(t)
                                        /\ graph.cond = {} => Justified(t)]_vars
  BY NextStartsJustified
<1> HIDE DEF I
<1> QED BY <1>1, <1>2, <1>3, PTL DEF Spec, StartsJustified

-----------------------------------------------------------------------------
(* The loop implements FlowRun *)

\* What FlowRun sees of the state.
Deps == [n \in Nodes |-> {From(e) : e \in Incoming(n)}]
States == [n \in Nodes |-> NodeState(n)]
Over == status # "none"

\* The state of a node on a graph without back-edges, from the loop's books.
LEMMA StateFacts ==
    ASSUME TypeOK, BooksInv, graph.back = {}, NEW n \in Nodes
    PROVE  /\ running[n][0] > 0 <=> NodeState(n) = "running"
           /\ n \in completed => NodeState(n) = "completed"
           /\ n \in failed => NodeState(n) = "failed"
           /\ n \in running_set /\ ~(running[n][0] > 0) => NodeState(n) = "lost"
           /\ n \notin completed \cup failed \cup running_set => NodeState(n) = "idle"
<1>1. running[n][0] \in Nat
  BY ParameterAssumption, BookFacts
<1>2. /\ running[n][0] > 0 => n \in running_set
      /\ n \in running_set => n \notin completed /\ n \notin failed
      /\ n \in completed => n \notin failed
  BY BookFacts
<1>3. running[n][0] = 0 \/ running[n][0] > 0
  BY <1>1
<1>4. CASE running[n][0] > 0
  <2>1. running[n][0] # 0
    BY <1>1, <1>4
  <2> QED BY <1>2, <1>4, <2>1 DEF NodeState
<1>5. CASE running[n][0] = 0
  BY <1>2, <1>5 DEF NodeState
<1> QED BY <1>3, <1>4, <1>5

\* One task returns: n settles or is lost and the nodes of S start.
LEMMA MapReturn ==
    ASSUME NEW n \in Nodes, NEW S \in SUBSET Nodes, NEW r \in {"completed", "failed", "lost"}, n \notin S,
           status = "none", status' = "none", cancel' = cancel, Deps' = Deps,
           NodeState(n) = "running", NodeState(n)' = r,
           \A t \in S : NodeState(t) = "idle" /\ NodeState(t)' = "running",
           \A t \in Nodes \ S : t # n => NodeState(t)' = NodeState(t),
           \A t \in S : \A m \in Deps[t] :
               m \in Nodes /\ (NodeState(m) \in {"completed", "failed"} \/ (m = n /\ r # "lost"))
    PROVE  Promise!Next
<1> DEFINE now == [States EXCEPT ![n] = r]
<1>1. \A t \in Nodes : States[t] = NodeState(t) /\ States'[t] = NodeState(t)'
  BY DEF States
<1>2. now[n] = r /\ \A t \in Nodes : t # n => now[t] = NodeState(t)
  BY <1>1 DEF States
<1>3. States' = [t \in Nodes |-> IF t \in S THEN "running" ELSE now[t]]
  <2>1. ASSUME NEW t \in Nodes PROVE NodeState(t)' = IF t \in S THEN "running" ELSE now[t]
    BY <1>2
  <2> QED BY <2>1 DEF States
<1>4. \A t \in S : States[t] = "idle" /\ \A m \in Deps[t] : now[m] \in {"completed", "failed"}
  BY <1>1, <1>2
<1> HIDE DEF now
<1>5. Promise!Started(S, now)
  BY <1>3, <1>4 DEF Promise!Started, States, Deps
<1>6. Promise!Return(n)
  BY <1>1, <1>5 DEF Promise!Return, States, now
<1> QED BY <1>6 DEF Promise!Next

\* What the refinement rests on; a task is detached only by a cancelled run.
RunInv ==
    /\ TypeOK /\ BooksInv /\ StatusInv /\ Simple(graph)
    /\ graph.back = {} => graph.fan = {}
    /\ status = "Cancelled" => cancel

\* Without arrays no instance is in flight.
LEMMA NoInstances ==
    ASSUME RunInv, graph.back = {}, NEW n \in Nodes, NEW i \in 0..MaxItems, running[n][i] > 0
    PROVE  i = 0
<1>1. graph.fan = {} /\ TypeOK /\ BooksInv
  BY DEF RunInv
<1>2. ASSUME i \in 1..MaxItems PROVE FALSE
  <2>1. fan_out_states[n].expected > 0
    BY <1>1, <1>2, BookFacts, ParameterAssumption
  <2> QED BY <1>1, <2>1, BookFacts
<1>3. i = 0 \/ i \in 1..MaxItems
  BY ParameterAssumption
<1> QED BY <1>2, <1>3

\* A step that leaves the tasks and the sets of the loop alone is one that FlowRun allows.
LEMMA MapQuiet ==
    ASSUME RunInv, RunInv', [Next]_vars,
           UNCHANGED <<graph, completed, failed, running, running_set>>
    PROVE  [Promise!Next /\ UNCHANGED Deps]_<<Deps, States, Over, cancel>>
<1> USE DEF loopVars
<1>1. Deps' = Deps /\ (\A n \in Nodes : NodeState(n)' = NodeState(n)) /\ States' = States
  BY DEF Deps, States, NodeState, Incoming, Edges, From, To
<1>2. CASE UNCHANGED <<status, cancel>>
  BY <1>1, <1>2 DEF Over
<1>3. CASE request_cancel
  <2>1. ~cancel /\ cancel' = TRUE /\ Over' = Over
    BY <1>3 DEF request_cancel, Over
  <2>2. Promise!Next
    BY <1>1, <2>1 DEF Promise!Next, States, Over
  <2> QED BY <1>1, <2>2
<1>4. CASE check_loop /\ (cancel \/ InFlight = {})
  <2>1. ~Over /\ Over' /\ cancel' = cancel
    BY <1>4 DEF check_loop, Over, RunInv, StatusInv
  <2>2. cancel \/ \A n \in Nodes : NodeState(n) # "running"
    <3>1. ASSUME InFlight = {}, NEW n \in Nodes PROVE NodeState(n) # "running"
      <4>1. ~(running[n][0] > 0)
        BY <3>1, ParameterAssumption DEF InFlight
      <4>2. CASE graph.back = {}
        BY <4>1, <4>2, StateFacts DEF RunInv
      <4>3. CASE graph.back # {}
        BY <4>3 DEF NodeState
      <4> QED BY <4>2, <4>3
    <3> QED BY <1>4, <3>1
  <2>3. cancel \/ Promise!Running = {}
    BY <2>2 DEF Promise!Running
  <2>4. Promise!Next
    BY <1>1, <2>1, <2>3 DEF Promise!Next, States, Over
  <2> QED BY <1>1, <2>4
<1>5. CASE check_loop /\ ~(cancel \/ InFlight = {})
  BY <1>2, <1>5 DEF check_loop
<1>6. CASE start_run \/ broadcast_completed \/ cleanup \/ UNCHANGED vars
  BY <1>2, <1>6 DEF start_run, broadcast_completed, cleanup, vars
<1>7. ASSUME NEW n \in Nodes, NEW i \in 0..MaxItems, TaskReturns(n, i) \/ detached_task_ends(n, i)
      PROVE  UNCHANGED <<status, cancel>>
  BY <1>7 DEF TaskReturns, node_succeeds, node_fails, instance_returns, task_panics, detached_task_ends
<1> QED BY <1>2, <1>3, <1>4, <1>5, <1>6, <1>7 DEF Next, LoopStep, Terminated

\* The run begins: the entry nodes start.
LEMMA MapStart ==
    ASSUME RunInv, RunInv', graph.back = {}, start_run
    PROVE  Promise!Next
<1> USE DEF loopVars
<1>1. /\ UNCHANGED <<graph, cancel, completed, failed, status>> /\ status = "none"
      /\ completed = {} /\ failed = {} /\ running_set = {} /\ running_set' = find_entry_nodes
      /\ TypeOK /\ BooksInv /\ TypeOK' /\ BooksInv'
  BY DEF start_run, RunInv, StatusInv, BooksInv, Fresh
<1>2. \A n \in Nodes : NodeState(n) = "idle"
  BY <1>1, StateFacts
<1>3. ASSUME NEW n \in Nodes
      PROVE  NodeState(n)' = IF n \in find_entry_nodes THEN "running" ELSE "idle"
  <2>1. running'[n] = IF n \in find_entry_nodes THEN [NoTasks EXCEPT ![0] = 1] ELSE NoTasks
    BY DEF start_run
  <2>2. NoTasks[0] = 0 /\ [NoTasks EXCEPT ![0] = 1][0] = 1
    BY ParameterAssumption DEF NoTasks
  <2>3. running'[n][0] = IF n \in find_entry_nodes THEN 1 ELSE 0
    BY <2>1, <2>2
  <2> QED BY <1>1, <2>3 DEF NodeState
<1>4. \A n \in find_entry_nodes : n \in Nodes /\ Deps[n] = {}
  BY DEF find_entry_nodes, Deps
<1>5. find_entry_nodes \in SUBSET Nodes
  BY DEF find_entry_nodes
<1>6. States' = [n \in Nodes |-> IF n \in find_entry_nodes THEN "running" ELSE States[n]]
  BY <1>2, <1>3 DEF States
<1>7. Promise!Started(find_entry_nodes, States)
  BY <1>2, <1>4, <1>6 DEF Promise!Started, States, Deps
<1>8. Promise!Running = {}
  BY <1>2 DEF Promise!Running
<1>9. Promise!Begin
  BY <1>1, <1>5, <1>7, <1>8 DEF Promise!Begin, States
<1> QED BY <1>1, <1>9 DEF Promise!Next

\* A plain task returns Success: its node completes and what became ready starts.
LEMMA MapSucceeds ==
    ASSUME RunInv, RunInv', graph.back = {}, UNCHANGED graph, NEW n \in Nodes, node_succeeds(n)
    PROVE  Promise!Next
<1>1. /\ running[n][0] > 0 /\ UNCHANGED <<graph, failed, cancel, status>> /\ status = "none"
      /\ graph.fan = {} /\ TypeOK /\ BooksInv /\ TypeOK' /\ BooksInv' /\ Settled
      /\ 0 \in 0..MaxItems
  BY ParameterAssumption DEF node_succeeds, RunInv, StatusInv, BooksInv
<1>2. n \in running_set /\ n \notin completed \cup failed /\ HasStarted(n)
  BY <1>1, BookFacts DEF HasStarted
<1>3. PICK out \in Outputs(n), S \in SUBSET Nodes :
        /\ S = ReadyNodes(n, out, completed \cup {n}, node_outputs', running_set \ {n}, fan_out_states)
        /\ completed' = (completed \cup {n}) \ S
        /\ Spread(S, Take(n, 0), running_set \ {n}, fan_out_states)
  BY <1>1, SucceedsFacts
<1>4. PICK done, outs, rset :
        done = completed \cup {n} /\ outs = node_outputs' /\ rset = running_set \ {n}
  OBVIOUS
<1>5. S = ReadyNodes(n, out, done, outs, rset, fan_out_states)
  BY <1>3, <1>4
<1>6. ASSUME NEW t \in S
      PROVE  /\ t \in Nodes /\ ~HasStarted(t) /\ t # n /\ t \notin completed
             /\ \A e \in Incoming(t) : From(e) \in completed \cup {n} \cup failed
  BY <1>1, <1>2, <1>4, <1>5, ReadyIsNew
<1>7. completed' = completed \cup {n} /\ n \notin S
  BY <1>3, <1>6
<1>8. Deps' = Deps
  BY <1>1 DEF Deps, Incoming, Edges, From, To
<1>9. NodeState(n) = "running" /\ NodeState(n)' = "completed"
  <2>1. n \in completed' /\ n \notin failed' /\ graph'.back = {}
    BY <1>1, <1>2, <1>7
  <2>2. running'[n][0] = 0
    <3>1. running'[n] = Take(n, 0)[n]
      BY <1>3, <1>7 DEF Spread, Kept
    <3>2. Take(n, 0)[n][0] = running[n][0] - 1
      BY <1>1, TakeFacts
    <3>3. running[n][0] \in Nat /\ running[n][0] <= 1
      BY <1>1, BookFacts
    <3> QED BY <1>1, <3>1, <3>2, <3>3
  <2>3. NodeState(n)' = "completed"
    BY <2>1, <2>2 DEF NodeState
  <2> QED BY <1>1, <2>3, StateFacts
<1>10. ASSUME NEW t \in S PROVE NodeState(t) = "idle" /\ NodeState(t)' = "running"
  <2>1. NodeState(t) = "idle"
    BY <1>1, <1>6, StateFacts DEF HasStarted
  <2>2. Plain(t, Take(n, 0), fan_out_states)
    BY <1>1, <1>3 DEF Spread, Fanned
  <2>3. running'[t][0] > 0
    <3>1. Take(n, 0) \in Tasks
      BY <1>1, TakeFacts
    <3>2. Take(n, 0)[t][0] \in Nat
      BY <1>1, <1>6, <3>1 DEF Tasks
    <3> QED BY <2>2, <3>2 DEF Plain
  <2>4. running'[t][0] # 0 /\ graph'.back = {} => NodeState(t)' = "running"
    BY <2>3 DEF NodeState
  <2>5. running'[t][0] # 0 /\ graph'.back = {}
    BY <1>1, <2>3
  <2> QED BY <2>1, <2>4, <2>5
<1>11. ASSUME NEW t \in Nodes \ S, t # n PROVE NodeState(t)' = NodeState(t)
  <2>1. running'[t] = Take(n, 0)[t] /\ (t \in running_set' <=> t \in running_set)
    BY <1>3, <1>11 DEF Spread, Kept
  <2>2. running'[t][0] = running[t][0]
    BY <1>1, <1>11, <2>1, TakeFacts
  <2> QED BY <1>1, <1>7, <1>11, <2>1, <2>2 DEF NodeState
<1>12. ASSUME NEW t \in S, NEW m \in Deps[t]
       PROVE  m \in Nodes /\ (NodeState(m) \in {"completed", "failed"} \/ m = n)
  <2>1. PICK e \in Incoming(t) : m = From(e)
    BY <1>6 DEF Deps
  <2>2. m \in Nodes /\ m \in completed \cup {n} \cup failed
    BY <1>1, <1>6, <2>1, GraphFacts
  <2> QED BY <1>1, <2>2, StateFacts
<1>13. PICK r : r = "completed"
  OBVIOUS
<1> QED BY <1>1, <1>7, <1>8, <1>9, <1>10, <1>11, <1>12, <1>13, MapReturn

\* A plain task returns Failed: its node fails and what may still proceed starts.
LEMMA MapFails ==
    ASSUME RunInv, RunInv', graph.back = {}, UNCHANGED graph, NEW n \in Nodes, node_fails(n)
    PROVE  Promise!Next
<1>0. PICK S : S = find_ready_after_failure(n, running_set \ {n}, failed \cup {n})
  OBVIOUS
<1>1. /\ running[n][0] > 0 /\ UNCHANGED <<graph, completed, cancel, status>> /\ status = "none"
      /\ failed' = failed \cup {n} /\ running_set' = (running_set \ {n}) \cup S
      /\ running' = [t \in Nodes |->
               IF t \in S
               THEN [Take(n, 0)[t] EXCEPT ![0] = @ + Cardinality(Outgoing(n) \cap Incoming(t))]
               ELSE Take(n, 0)[t]]
  BY <1>0 DEF node_fails, RunInv, StatusInv
<1>2. TypeOK /\ BooksInv /\ TypeOK' /\ BooksInv' /\ graph'.back = {} /\ Settled /\ 0 \in 0..MaxItems
  BY ParameterAssumption DEF RunInv, BooksInv
<1>3. n \in running_set /\ n \notin completed \cup failed
  BY <1>1, <1>2, BookFacts
<1>4. ASSUME NEW t \in S
      PROVE  /\ t \in Nodes /\ t # n /\ t \notin completed \cup failed \cup running_set
             /\ \A e \in Incoming(t) : From(e) \in completed \cup failed \cup {n}
             /\ \E e \in Outgoing(n) : To(e) = t
  BY <1>0, <1>2, GraphFacts DEF find_ready_after_failure
<1>5. S \in SUBSET Nodes /\ n \notin S
  BY <1>4
<1>6. Deps' = Deps
  BY <1>1 DEF Deps, Incoming, Edges, From, To
<1>7. NodeState(n) = "running" /\ NodeState(n)' = "failed"
  <2>1. running'[n][0] = 0
    <3>1. running'[n] = Take(n, 0)[n]
      BY <1>1, <1>5
    <3>2. Take(n, 0)[n][0] = running[n][0] - 1
      BY <1>1, <1>2, TakeFacts
    <3>3. running[n][0] \in Nat /\ running[n][0] <= 1
      BY <1>2, BookFacts
    <3> QED BY <1>1, <3>1, <3>2, <3>3
  <2>2. n \in failed' /\ n \notin completed'
    BY <1>1, <1>3
  <2>3. NodeState(n)' = "failed"
    BY <1>2, <2>1, <2>2 DEF NodeState
  <2> QED BY <1>1, <1>2, <2>3, StateFacts
<1>8. ASSUME NEW t \in S PROVE NodeState(t) = "idle" /\ NodeState(t)' = "running"
  <2>1. NodeState(t) = "idle"
    BY <1>2, <1>4, StateFacts
  <2>2. running'[t][0] > 0
    <3>1. PICK k : k = Cardinality(Outgoing(n) \cap Incoming(t))
      OBVIOUS
    <3>2. k \in Nat /\ k > 0
      <4>1. PICK e \in Outgoing(n) : To(e) = t
        BY <1>4
      <4>2. e \in Outgoing(n) \cap Incoming(t) /\ IsFiniteSet(Outgoing(n) \cap Incoming(t))
        BY <1>2, <4>1, GraphFacts, FS_Subset DEF Outgoing, Incoming
      <4>3. k \in Nat /\ k # 0
        BY <3>1, <4>2, FS_CardinalityType, FS_EmptySet
      <4> QED BY <4>3
    <3>3. running'[t] = [Take(n, 0)[t] EXCEPT ![0] = @ + k]
      BY <1>1, <1>4, <3>1
    <3>4. Take(n, 0) \in Tasks
      BY <1>1, <1>2, TakeFacts
    <3>5. PICK f : f = Take(n, 0)[t]
      OBVIOUS
    <3>6. f \in [0..MaxItems -> Nat]
      BY <1>4, <3>4, <3>5 DEF Tasks
    <3>7. running'[t][0] = f[0] + k /\ f[0] \in Nat
      BY <1>2, <3>3, <3>5, <3>6
    <3> QED BY <3>2, <3>7
  <2>3. running'[t][0] # 0
    BY <2>2
  <2>4. NodeState(t)' = "running"
    BY <1>2, <2>2, <2>3 DEF NodeState
  <2> QED BY <2>1, <2>4
<1>9. ASSUME NEW t \in Nodes \ S, t # n PROVE NodeState(t)' = NodeState(t)
  <2>1. running'[t] = Take(n, 0)[t] /\ (t \in running_set' <=> t \in running_set) /\ (t \in failed' <=> t \in failed)
    BY <1>1, <1>9
  <2>2. running'[t][0] = running[t][0]
    BY <1>1, <1>2, <1>9, <2>1, TakeFacts
  <2> QED BY <1>1, <2>1, <2>2 DEF NodeState
<1>10. ASSUME NEW t \in S, NEW m \in Deps[t]
       PROVE  m \in Nodes /\ (NodeState(m) \in {"completed", "failed"} \/ m = n)
  <2>1. PICK e \in Incoming(t) : m = From(e)
    BY <1>4 DEF Deps
  <2>2. m \in Nodes /\ m \in completed \cup {n} \cup failed
    BY <1>2, <1>4, <2>1, GraphFacts
  <2> QED BY <1>2, <2>2, StateFacts
<1>11. PICK r : r = "failed"
  OBVIOUS
<1> QED BY <1>1, <1>5, <1>6, <1>7, <1>8, <1>9, <1>10, <1>11, MapReturn

\* A task panics, or ends after its cancelled run: its node is lost.
LEMMA MapLost ==
    ASSUME RunInv, RunInv', graph.back = {}, UNCHANGED graph, NEW n \in Nodes, running[n][0] > 0,
           running' = Take(n, 0), UNCHANGED <<completed, running_set, cancel, status>>,
           failed' \in {failed, failed \cup {"unknown"}}
    PROVE  Promise!Next
<1>1. /\ TypeOK /\ BooksInv /\ TypeOK' /\ BooksInv' /\ graph'.back = {} /\ 0 \in 0..MaxItems
      /\ \A t \in Nodes : t \in failed' <=> t \in failed
  BY ParameterAssumption, NodesAssumption DEF RunInv
<1>2. /\ running'[n][0] = 0 /\ \A t \in Nodes : t # n => running'[t][0] = running[t][0]
  <2>1. running'[n][0] = running[n][0] - 1 /\ \A t \in Nodes : t # n => running'[t][0] = running[t][0]
    BY <1>1, TakeFacts
  <2>2. running[n][0] \in Nat /\ running[n][0] <= 1
    BY <1>1, BookFacts
  <2> QED BY <2>1, <2>2
<1>3. NodeState(n) = "running" /\ NodeState(n)' = "lost"
  <2>1. n \in running_set' /\ n \notin completed' /\ n \notin failed'
    BY <1>1, BookFacts
  <2>2. NodeState(n)' = "lost"
    BY <1>1, <1>2, <2>1 DEF NodeState
  <2> QED BY <1>1, <2>2, StateFacts
<1>4. ASSUME NEW t \in Nodes, t # n PROVE NodeState(t)' = NodeState(t)
  BY <1>1, <1>2, <1>4 DEF NodeState
<1>5. Deps' = Deps
  BY DEF Deps, Incoming, Edges, From, To
<1>6. CASE status = "none"
  <2>1. PICK r, S : r = "lost" /\ S = {}
    OBVIOUS
  <2>2. S \in SUBSET Nodes /\ n \notin S /\ \A t : t \notin S
    BY <2>1
  <2> QED BY <1>3, <1>4, <1>5, <1>6, <2>1, <2>2, MapReturn
<1>7. CASE status # "none"
  <2>1. InFlight # {}
    BY <1>1 DEF InFlight
  <2>2. cancel
    BY <1>7, <2>1 DEF RunInv, TypeOK, StatusInv, StatusSound
  <2>3. States' = [States EXCEPT ![n] = "lost"] /\ States[n] = "running"
    BY <1>3, <1>4 DEF States
  <2>4. Promise!Detach(n)
    BY <1>7, <2>2, <2>3 DEF Promise!Detach, States
  <2> QED BY <2>4 DEF Promise!Next
<1> QED BY <1>6, <1>7

\* Every step of the loop is a step of FlowRun or none.
LEMMA MapNext ==
    ASSUME RunInv, RunInv', [Next]_vars
    PROVE  [Promise!Next /\ UNCHANGED Deps]_<<Deps, States, Over, cancel>>
<1> USE DEF loopVars
<1>0. /\ UNCHANGED graph /\ Deps' = Deps
  BY GraphStays DEF Deps, Incoming, Edges, From, To
<1>1. CASE UNCHANGED <<graph, completed, failed, running, running_set>>
  BY <1>1, MapQuiet
<1>2. CASE graph.back # {} /\ UNCHANGED <<status, cancel>>
  <2>1. States' = States /\ Over' = Over
    BY <1>0, <1>2 DEF States, NodeState, Over
  <2> QED BY <1>0, <1>2, <2>1
<1>3. CASE check_loop \/ broadcast_completed \/ cleanup \/ request_cancel \/ UNCHANGED vars
  BY <1>1, <1>3 DEF check_loop, broadcast_completed, cleanup, request_cancel, vars
<1>4. CASE start_run
  <2>1. UNCHANGED <<status, cancel>>
    BY <1>4 DEF start_run
  <2> QED BY <1>0, <1>2, <1>4, <2>1, MapStart
<1>5. ASSUME NEW n \in Nodes, NEW i \in 0..MaxItems, TaskReturns(n, i) \/ detached_task_ends(n, i)
      PROVE  [Promise!Next /\ UNCHANGED Deps]_<<Deps, States, Over, cancel>>
  <2>1. UNCHANGED <<status, cancel>>
    BY <1>5 DEF TaskReturns, node_succeeds, node_fails, instance_returns, task_panics, detached_task_ends
  <2>2. CASE graph.back = {}
    <3>1. CASE node_succeeds(n)
      BY <1>0, <2>2, <3>1, MapSucceeds
    <3>2. CASE node_fails(n)
      BY <1>0, <2>2, <3>2, MapFails
    <3>3. ASSUME NEW ok \in BOOLEAN, instance_returns(n, i, ok) PROVE FALSE
      <4>1. running[n][i] > 0 /\ i > 0
        BY <3>3 DEF instance_returns
      <4>2. i = 0
        BY <2>2, <4>1, NoInstances
      <4> QED BY <4>1, <4>2
    <3>4. CASE task_panics(n, i) \/ detached_task_ends(n, i)
      <4>1. /\ running[n][i] > 0 /\ running' = Take(n, i)
            /\ UNCHANGED <<completed, running_set, cancel, status>>
            /\ failed' \in {failed, failed \cup {"unknown"}}
        BY <3>4 DEF task_panics, detached_task_ends
      <4>2. i = 0
        BY <2>2, <4>1, NoInstances
      <4> QED BY <1>0, <2>2, <4>1, <4>2, MapLost
    <3> QED BY <1>5, <3>1, <3>2, <3>3, <3>4 DEF TaskReturns
  <2> QED BY <1>2, <2>1, <2>2
<1> QED BY <1>3, <1>4, <1>5 DEF Next, LoopStep, Terminated

\* The run loop implements FlowRun for every acyclic graph whose edges carry no arrays, and
\* maps every graph with a back-edge to a run that begins, may be cancelled and ends: no order
\* of completions, failures, panics and cancellation starts a node twice, too early or after
\* the end of the run (execute_run).
THEOREM LoopImplementsFlowRun ==
    ASSUME \A g \in Graphs : Simple(g) /\ (g.back = {} => g.fan = {})
    PROVE  Spec => ImplementsFlowRun
<1>1. Init => RunInv
  <2>1. Init => StatusInv /\ Simple(graph) /\ (graph.back = {} => graph.fan = {}) /\ status # "Cancelled"
    BY DEF Init, StatusInv, StatusSound
  <2> QED BY <2>1, InitTypeOK, InitBooks DEF RunInv
<1>2. RunInv /\ [Next]_vars => RunInv'
  <2> SUFFICES ASSUME RunInv, [Next]_vars PROVE RunInv'
    OBVIOUS
  <2>1. Simple(graph)' /\ (graph.back = {} => graph.fan = {})'
    BY GraphStays DEF RunInv, Simple
  <2>2. TypeOK' /\ BooksInv' /\ StatusInv'
    BY NextTypeOK, NextBooks, NextStatusInv DEF RunInv
  <2>3. (status = "Cancelled" => cancel)'
    <3>1. CASE check_loop
      BY <3>1 DEF check_loop, final_status, RunInv
    <3>2. CASE UNCHANGED status /\ (cancel => cancel')
      BY <3>2 DEF RunInv
    <3>3. CASE start_run \/ request_cancel \/ broadcast_completed \/ cleanup \/ UNCHANGED vars
      BY <3>2, <3>3 DEF start_run, request_cancel, broadcast_completed, cleanup, vars
    <3>4. ASSUME NEW n \in Nodes, NEW i \in 0..MaxItems, TaskReturns(n, i) \/ detached_task_ends(n, i)
          PROVE  UNCHANGED <<status, cancel>>
      BY <3>4 DEF TaskReturns, node_succeeds, node_fails, instance_returns, task_panics, detached_task_ends
    <3> QED BY <3>1, <3>2, <3>3, <3>4 DEF Next, LoopStep, Terminated
  <2> QED BY <2>1, <2>2, <2>3 DEF RunInv
<1>3. Init => Promise!Init
  <2> SUFFICES ASSUME Init PROVE Promise!Init
    OBVIOUS
  <2>1. ASSUME NEW n \in Nodes PROVE NodeState(n) = "idle"
    <3>1. running[n][0] = 0
      BY ParameterAssumption DEF Init, NoTasks
    <3> QED BY <3>1 DEF Init, NodeState
  <2> QED BY <2>1 DEF Init, Promise!Init
<1>4. RunInv /\ RunInv' /\ [Next]_vars => [Promise!Next /\ UNCHANGED Deps]_<<Deps, States, Over, cancel>>
  BY MapNext
<1> QED BY <1>1, <1>2, <1>3, <1>4, PTL DEF Spec, ImplementsFlowRun, Promise!Spec, Deps, States, Over
=============================================================================
