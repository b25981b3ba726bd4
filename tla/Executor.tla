------------------------------- MODULE Executor -------------------------------
(***************************************************************************)
(* The run loop of the graph executor: one run of one flow graph.           *)
(*                                                                          *)
(* Every node runs in a tokio task of its own; the loop awaits the next     *)
(* task to return, records its result, evaluates the outgoing edges, and    *)
(* spawns what became ready, with fan-out over arrays, re-execution along   *)
(* cycles, continuation after a failure, and cancellation.  Tasks return in *)
(* any order and the cancel request arrives at any time; the state below is *)
(* touched by the loop alone, so the processing of one result is one step.  *)
(*                                                                          *)
(* A node's output is abstracted to what scheduling reads of it: which of   *)
(* the conditions on the outgoing edges hold on it, and how long an array   *)
(* the edge's port carries (0: not an array, or an empty one).              *)
(*                                                                          *)
(* A definition commented "Defect:" is a plausible bug, used to show that a *)
(* property can fail; no action of Next uses it.                            *)
(***************************************************************************)
EXTENDS Naturals, FiniteSets, FiniteSetsExt

CONSTANTS
    Nodes,          \* node instance ids
    Graphs,         \* the flow graphs a run may be started with
    MaxTraversals,  \* ExecutorConfig.max_traversals
    MaxItems,       \* bound: longest array a port carries
    Panics          \* whether node tasks may panic

(* A graph: edges (a function from edge ids, in declaration order, to their *)
(* ends), which of them carry a condition, which start at a port that may   *)
(* hold an array, and the back-edges find_back_edges finds.  The ids are    *)
(* distinct, as validate_graph demands; the executor does not check it, and *)
(* keeps its back-edges and traversal counts by id.                         *)
IsGraph(g) ==
    /\ DOMAIN g = {"edges", "cond", "fan", "back"}
    /\ DOMAIN g.edges \subseteq Nat /\ IsFiniteSet(DOMAIN g.edges)
    /\ g.edges \in [DOMAIN g.edges -> [from : Nodes, to : Nodes]]
    /\ g.cond \subseteq DOMAIN g.edges
    /\ g.fan \subseteq DOMAIN g.edges
    /\ g.back \subseteq DOMAIN g.edges

ASSUME GraphAssumption == \A g \in Graphs : IsGraph(g)
ASSUME NodesAssumption == IsFiniteSet(Nodes) /\ "unknown" \notin Nodes
ASSUME ParameterAssumption ==
    MaxTraversals \in Nat /\ MaxItems \in Nat /\ Panics \in BOOLEAN

VARIABLES
    graph,                  \* the graph of this run
    pc,                     \* where the loop is
    cancel,                 \* the handle's cancel sender was used or dropped
    completed, failed,      \* node ids
    node_outputs,           \* latest output of each node
    edge_traversal_counts,
    fan_out_states,         \* per node; expected = 0 stands for no entry
    running,                \* tasks in flight: per node and fan-out index (0: none)
    running_set,
    status,                 \* the run's final status
    notified,               \* RunCompletedEvent broadcasts for this run
    registered              \* the run's sender is in run_event_senders

loopVars == <<completed, failed, node_outputs, edge_traversal_counts,
              fan_out_states, running, running_set>>
vars == <<graph, pc, cancel, loopVars, status, notified, registered>>

-----------------------------------------------------------------------------
(* Graph accessors *)

Edges == DOMAIN graph.edges
From(e) == graph.edges[e].from
To(e) == graph.edges[e].to
Outgoing(n) == {e \in Edges : From(e) = n}
Incoming(n) == {e \in Edges : To(e) = n}

\* Nodes without an incoming edge that is not a back-edge.
find_entry_nodes == {n \in Nodes : Incoming(n) \subseteq graph.back}

\* What n may return: the outgoing conditions that hold and the arrays at its ports.
Outputs(n) == [tag : {"node"},
               pass : SUBSET (graph.cond \cap Outgoing(n)),
               items : [graph.fan \cap Outgoing(n) -> 0..MaxItems]]

NoOutput == [tag |-> "none", pass |-> {}, items |-> <<>>]
TriggerInputs == [tag |-> "trigger", pass |-> {}, items |-> <<>>]

NoFanOut == [expected |-> 0, results |-> {}, completed |-> 0]
NoTasks == [i \in 0..MaxItems |-> 0]

-----------------------------------------------------------------------------
(* Edge evaluation *)

\* A condition that fails to evaluate counts as false.
evaluate_edge_condition(e, out) == e \in graph.cond => e \in out.pass

\* Edges out of n that pass: condition true and traversed fewer times than the limit.
Passed(n, out) ==
    {e \in Outgoing(n) : /\ evaluate_edge_condition(e, out)
                         /\ edge_traversal_counts[e] < MaxTraversals}

\* Defect: a join runs as soon as one of its sources has completed.
is_node_ready_any(t, done, outs) ==
    \E e \in Incoming(t) \ graph.back :
        From(e) \in done /\ evaluate_edge_condition(e, outs[From(e)])

\* All sources but those of back-edges are done and some edge from a completed one
\* has its condition true.  (count <= max_traversals always holds and is left out.)
is_node_ready(t, done, outs) ==
    \/ Incoming(t) = {}
    \/ /\ \A e \in Incoming(t) \ graph.back : From(e) \in done \cup failed
       /\ \E e \in Incoming(t) \ graph.back :
              /\ From(e) \in done
              /\ outs[From(e)].tag # "none"
              /\ evaluate_edge_condition(e, outs[From(e)])

\* Defect: a target that is in flight is spawned again.
ReadyNodesInFlight(n, out, done, outs, rset, fos) ==
    {t \in {To(e) : e \in Passed(n, out)} :
        /\ fos[t].expected = 0
        /\ t \in done \/ (t \notin failed /\ is_node_ready(t, done, outs))}

\* Targets of passing edges that may start: not in flight, and either re-executed
\* because they have completed before, or ready for the first time.
ReadyNodes(n, out, done, outs, rset, fos) ==
    {t \in {To(e) : e \in Passed(n, out)} :
        /\ fos[t].expected = 0
        /\ t \notin rset
        /\ \/ t \in done
           \/ (t \notin failed /\ is_node_ready(t, done, outs))}

\* Array items the first passing edge to t carries; a merged fan-in output never fans out.
FanOutItems(n, out, t, from_fan_in) ==
    LET e == Min({x \in Passed(n, out) : To(x) = t})
    IN  IF from_fan_in \/ e \notin graph.fan THEN 0 ELSE out.items[e]

-----------------------------------------------------------------------------
(* Spawning *)

\* Fan-out indices of the tasks spawned for k items; index 0 is a plain task.
Instances(k) == IF k = 0 THEN {0} ELSE 1..k

\* Spawn the nodes of S: items[t] > 0 asks for that many instances of t.
spawn_nodes(S, items, tasks, rset, fos) ==
    /\ running_set' = rset \cup {t \in S : items[t] = 0}
    /\ fan_out_states' = [t \in Nodes |->
           IF t \in S /\ items[t] > 0
           THEN [expected |-> items[t], results |-> {}, completed |-> 0] ELSE fos[t]]
    /\ running' = [t \in Nodes |->
           IF t \notin S THEN tasks[t]
           ELSE [i \in 0..MaxItems |->
                    tasks[t][i] + (IF i \in Instances(items[t]) THEN 1 ELSE 0)]]

\* evaluate_edges_and_find_ready, then spawn_ready_nodes: n has just produced out.
evaluate_downstream(n, out, from_fan_in, done, tasks, rset, fos, outs) ==
    LET S == ReadyNodes(n, out, done, outs, rset, fos)
        items == [t \in S |-> FanOutItems(n, out, t, from_fan_in)]
    IN  /\ edge_traversal_counts' =
               [e \in Edges |-> edge_traversal_counts[e] + (IF e \in Passed(n, out) THEN 1 ELSE 0)]
        /\ completed' = done \ S
        /\ spawn_nodes(S, items, tasks, rset, fos)

\* Defect: a failure never lets anything proceed.
find_ready_after_failure_none(n, rset, fl) == {}

\* Defect: a target none of whose sources completed proceeds as well.
find_ready_after_failure_all(n, rset, fl) ==
    {t \in {To(e) : e \in Outgoing(n)} :
        /\ t \notin completed \cup fl \cup rset
        /\ \A e \in Incoming(t) : From(e) \in completed \cup fl}

\* Targets that may still proceed although n failed (partial failure = continue).
find_ready_after_failure(n, rset, fl) ==
    {t \in {To(e) : e \in Outgoing(n)} :
        /\ t \notin completed \cup fl \cup rset
        /\ \A e \in Incoming(t) : From(e) \in completed \cup fl
        /\ \E e \in Incoming(t) : From(e) \in completed}

-----------------------------------------------------------------------------
(* execute and the loop of execute_run *)

Take(n, i) == [running EXCEPT ![n][i] = @ - 1]

\* execute registers the run; execute_run seeds and spawns the entry nodes.
start_run ==
    /\ pc = "start"
    /\ pc' = "check"
    /\ registered' = TRUE
    /\ node_outputs' = [n \in Nodes |-> IF n \in find_entry_nodes THEN TriggerInputs
                                                                ELSE node_outputs[n]]
    /\ running' = [n \in Nodes |-> IF n \in find_entry_nodes THEN [NoTasks EXCEPT ![0] = 1]
                                                           ELSE NoTasks]
    /\ running_set' = find_entry_nodes
    /\ UNCHANGED <<graph, cancel, completed, failed, edge_traversal_counts,
                   fan_out_states, status, notified>>

\* The holder of the ExecutionHandle sends on, or drops, the cancel sender.
request_cancel ==
    /\ ~cancel
    /\ cancel' = TRUE
    /\ UNCHANGED <<graph, pc, loopVars, status, notified, registered>>

InFlight == {n \in Nodes : \E i \in 0..MaxItems : running[n][i] > 0}

\* completed.len() + failed.len(), the panicked "unknown" included.
DoneCount == Cardinality(completed) + Cardinality(failed)

\* Defect: a run in which no node failed counts as completed, stuck or not.
final_status_no_deadlock ==
    IF cancel THEN "Cancelled" ELSE IF failed = {} THEN "Completed" ELSE "Failed"

all_reachable_done == Nodes \subseteq completed \cup failed

final_status ==
    CASE cancel -> "Cancelled"
      [] ~cancel /\ DoneCount < Cardinality(Nodes) /\ running_set = {} /\ ~all_reachable_done -> "Failed"
      [] OTHER -> IF failed = {} THEN "Completed" ELSE "Failed"

\* Top of the loop: leave on cancellation or when nothing is in flight, else await a task.
check_loop ==
    /\ pc = "check"
    /\ IF cancel \/ InFlight = {}
       THEN pc' = "notify" /\ status' = final_status
       ELSE pc' = "await" /\ UNCHANGED status
    /\ UNCHANGED <<graph, cancel, loopVars, notified, registered>>

\* A plain task returns Success(out).
node_succeeds(n) ==
    /\ pc = "await" /\ running[n][0] > 0
    /\ pc' = "check"
    /\ \E out \in Outputs(n) :
          /\ node_outputs' = [node_outputs EXCEPT ![n] = out]
          /\ evaluate_downstream(n, out, FALSE, completed \cup {n}, Take(n, 0),
                                 running_set \ {n}, fan_out_states, node_outputs')
    /\ UNCHANGED <<graph, cancel, failed, status, notified, registered>>

\* A plain task returns Failed: no edge is evaluated, and a target is spawned once per
\* edge from n.
node_fails(n) ==
    /\ pc = "await" /\ running[n][0] > 0
    /\ pc' = "check"
    /\ failed' = failed \cup {n}
    /\ LET rset == running_set \ {n}
           S == find_ready_after_failure(n, rset, failed')
       IN  /\ running_set' = rset \cup S
           /\ running' = [t \in Nodes |->
                  IF t \in S
                  THEN [Take(n, 0)[t] EXCEPT ![0] = @ + Cardinality(Outgoing(n) \cap Incoming(t))]
                  ELSE Take(n, 0)[t]]
    /\ UNCHANGED <<graph, cancel, completed, node_outputs, edge_traversal_counts,
                   fan_out_states, status, notified, registered>>

\* The instance's result, or its error object, is stored at its index and counted.
record_instance(st, i, ok) ==
    [st EXCEPT !.results = @ \cup {i}, !.completed = @ + 1]

fan_in_reached(st) == st.completed = st.expected

\* handle_fan_out_completion: the last instance completes the node with the merged array.
instance_returns(n, i, ok) ==
    /\ pc = "await" /\ i > 0 /\ running[n][i] > 0
    /\ pc' = "check"
    /\ LET st == record_instance(fan_out_states[n], i, ok) IN
       CASE fan_out_states[n].expected = 0 ->
              /\ running' = Take(n, i)
              /\ UNCHANGED <<completed, node_outputs, edge_traversal_counts,
                             fan_out_states, running_set>>
         [] fan_out_states[n].expected > 0 /\ ~fan_in_reached(st) ->
              /\ fan_out_states' = [fan_out_states EXCEPT ![n] = st]
              /\ running' = Take(n, i)
              /\ UNCHANGED <<completed, node_outputs, edge_traversal_counts, running_set>>
         [] OTHER ->
              \E out \in Outputs(n) :
                 /\ node_outputs' = [node_outputs EXCEPT ![n] = out]
                 /\ evaluate_downstream(n, out, TRUE, completed \cup {n}, Take(n, i), running_set,
                                        [fan_out_states EXCEPT ![n] = NoFanOut], node_outputs')
    /\ UNCHANGED <<graph, cancel, failed, status, notified, registered>>

\* The task panicked: its identity is lost, "unknown" is recorded as failed, and neither
\* running_set nor fan_out_states learns of it.
task_panics(n, i) ==
    /\ Panics
    /\ pc = "await" /\ running[n][i] > 0
    /\ pc' = "check"
    /\ failed' = failed \cup {"unknown"}
    /\ running' = Take(n, i)
    /\ UNCHANGED <<graph, cancel, completed, node_outputs, edge_traversal_counts,
                   fan_out_states, running_set, status, notified, registered>>

\* session.finish has recorded the status; the completion is broadcast ...
broadcast_completed ==
    /\ pc = "notify"
    /\ pc' = "cleanup"
    /\ notified' = notified + 1
    /\ UNCHANGED <<graph, cancel, loopVars, status, registered>>

\* Defect: the run's event sender is left behind.
cleanup_leaks ==
    /\ pc = "cleanup"
    /\ pc' = "done"
    /\ UNCHANGED <<graph, cancel, loopVars, status, notified, registered>>

\* ... and the run's event sender is removed.
cleanup ==
    /\ pc = "cleanup"
    /\ pc' = "done"
    /\ registered' = FALSE
    /\ UNCHANGED <<graph, cancel, loopVars, status, notified>>

\* A cancelled loop drops its join handles: the tasks run on, detached, until they end.
detached_task_ends(n, i) ==
    /\ pc \in {"notify", "cleanup", "done"} /\ running[n][i] > 0
    /\ running' = Take(n, i)
    /\ UNCHANGED <<graph, pc, cancel, completed, failed, node_outputs, edge_traversal_counts,
                   fan_out_states, running_set, status, notified, registered>>

Terminated == pc = "done" /\ InFlight = {} /\ UNCHANGED vars

-----------------------------------------------------------------------------

Init ==
    /\ graph \in Graphs
    /\ pc = "start" /\ cancel = FALSE
    /\ completed = {} /\ failed = {}
    /\ node_outputs = [n \in Nodes |-> NoOutput]
    /\ edge_traversal_counts = [e \in Edges |-> 0]
    /\ fan_out_states = [n \in Nodes |-> NoFanOut]
    /\ running = [n \in Nodes |-> NoTasks]
    /\ running_set = {}
    /\ status = "none" /\ notified = 0 /\ registered = FALSE

TaskReturns(n, i) ==
    \/ i = 0 /\ (node_succeeds(n) \/ node_fails(n))
    \/ \E ok \in BOOLEAN : instance_returns(n, i, ok)
    \/ task_panics(n, i)

LoopStep == start_run \/ check_loop \/ broadcast_completed \/ cleanup

Next ==
    \/ LoopStep
    \/ request_cancel
    \/ \E n \in Nodes, i \in 0..MaxItems : TaskReturns(n, i) \/ detached_task_ends(n, i)
    \/ Terminated

Spec == Init /\ [][Next]_vars

(* Fairness: the run's task is scheduled, and some awaited node task returns *)
(* because every attempt of a node runs under a timeout.                      *)
Fairness ==
    /\ WF_vars(LoopStep)
    /\ WF_vars(\E n \in Nodes, i \in 0..MaxItems : TaskReturns(n, i))

FairSpec == Spec /\ Fairness

-----------------------------------------------------------------------------
(* Properties *)

FanOutState == [expected : 0..MaxItems, results : SUBSET (1..MaxItems), completed : Nat]

\* Type invariant of the loop's state.
TypeOK ==
    /\ IsGraph(graph)
    /\ pc \in {"start", "check", "await", "notify", "cleanup", "done"}
    /\ cancel \in BOOLEAN /\ registered \in BOOLEAN /\ notified \in Nat
    /\ completed \subseteq Nodes /\ failed \subseteq Nodes \cup {"unknown"}
    /\ DOMAIN node_outputs = Nodes
    /\ \A n \in Nodes : node_outputs[n] \in Outputs(n) \cup {NoOutput, TriggerInputs}
    /\ edge_traversal_counts \in [Edges -> 0..MaxTraversals]
    /\ fan_out_states \in [Nodes -> FanOutState]
    /\ running \in [Nodes -> [0..MaxItems -> Nat]]
    /\ running_set \subseteq Nodes
    /\ status \in {"none", "Completed", "Failed", "Cancelled"}

\* At most one task of a node, or one per fan-out index, is in flight at any time
\* (edges.rs, the guards on running and fan_out_states before a spawn).
NoDuplicateTask == \A n \in Nodes, i \in 0..MaxItems : running[n][i] <= 1

\* Fan-in loses no result (fanout.rs): an instance in flight always has a live fan-out
\* entry waiting for exactly its index, and the entry counts the results it holds, so
\* the merged array has no gap when the count is reached.
FanInComplete ==
    \A n \in Nodes : LET st == fan_out_states[n] IN
        /\ st.completed = Cardinality(st.results)
        /\ \A i \in 1..MaxItems :
              running[n][i] > 0 /\ status = "none" => i <= st.expected /\ i \notin st.results

\* The final status tells the truth (run.rs, lines 265-287): Completed means every node
\* completed, none failed and nothing is in flight; Failed means nothing is in flight and
\* a task failed or panicked or a node never completed.
StatusSound ==
    /\ status = "Completed" => completed = Nodes /\ failed = {} /\ InFlight = {}
    /\ status = "Failed" => InFlight = {} /\ (failed # {} \/ completed # Nodes)

\* A node never counts as completed and failed at once (done_count adds the two sets).
CompletedNotFailed == completed \cap failed = {}

\* The books of execute_run agree with what is in flight: no node has two tasks, fan-in
\* counts an instance once and only when it has returned, and done_count counts no node twice.
TasksAccounted == TypeOK /\ NoDuplicateTask /\ FanInComplete /\ CompletedNotFailed

\* n gets a new task in this step.
Spawned(n) == \E i \in 0..MaxItems : running'[n][i] > running[n][i]

\* t is an entry node, or the condition of some edge from a completed source holds on
\* that source's latest output.
Justified(t) ==
    \/ t \in find_entry_nodes
    \/ \E e \in Incoming(t) : /\ From(e) \in completed' \cup {t}
                              /\ evaluate_edge_condition(e, node_outputs'[From(e)])

\* Every source of t but those of back-edges has completed or failed.
Joined(t) == \A e \in Incoming(t) \ graph.back : From(e) \in completed' \cup failed'

\* A node runs for the first time only when the sources it joins have completed or failed
\* (doc comment of is_node_ready), and where no edge carries a condition no order of
\* failures starts a node none of whose sources completed (find_ready_after_failure).
StartsJustified ==
    [][\A t \in Nodes : Spawned(t) => /\ t \notin completed => Joined(t)
                                      /\ graph.cond = {} => Justified(t)]_vars

\* When a run ends by itself no node is left behind that was ready by the documented
\* rule of is_node_ready and never started: no order of completions loses a wake-up.
NoReadyNodeLeft ==
    status \in {"Completed", "Failed"} =>
        \A t \in Nodes \ (completed \cup failed \cup running_set) :
            fan_out_states[t].expected = 0 => ~is_node_ready(t, completed, node_outputs)

\* The same where no edge carries a condition, under failures and panics.
NoReadyNodeLeftUnconditional == graph.cond = {} => NoReadyNodeLeft

\* A run ends: cycles are bounded by max_traversals, and every ending is notified once
\* and removes the run's sender.
RunEnds == <>[](pc = "done" /\ status # "none" /\ notified = 1 /\ ~registered)

\* Refinement of FlowRun; a graph with a cycle, where nodes run again, maps to a run that
\* only begins, is cancelled and ends.
NodeState(n) ==
    CASE graph.back # {} -> "idle"
      [] graph.back = {} /\ running[n][0] > 0 -> "running"
      [] graph.back = {} /\ running[n][0] = 0 /\ n \in completed -> "completed"
      [] graph.back = {} /\ running[n][0] = 0 /\ n \in failed -> "failed"
      [] OTHER -> IF n \in running_set THEN "lost" ELSE "idle"

Promise == INSTANCE FlowRun WITH
    deps <- [n \in Nodes |-> {From(e) : e \in Incoming(n)}],
    st <- [n \in Nodes |-> NodeState(n)],
    over <- (status # "none"),
    cancelled <- cancel

\* The run loop implements FlowRun on acyclic graphs: no order of completions, failures,
\* panics and cancellation starts a node twice, too early or after the end.
ImplementsFlowRun == Promise!Spec
=============================================================================
