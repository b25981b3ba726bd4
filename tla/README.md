# A TLA+ verification of the ClearGate flow engine

This directory specifies the flow engine (`crates/cleargate-flow-engine`) and the
crates around it (providers, adapters, language bindings, SQL storage) in TLA+,
checks them with TLC on small instances, and proves most of its safety properties
for all instances with TLAPS.

A definition commented `Defect:` is a plausible bug. No
action of any specification uses it; `PROJECT.json` says which definition it
would replace and which property then fails.

## 1. The system

A *flow* is a graph of nodes. A *run* executes a version of a flow: every node
runs in a tokio task of its own, its output is routed along edges with
conditions, arrays fan out, cycles are re-entered up to a limit. Everything that
happens is written as events to a log, through a pipeline that batches them into
a run store; all that is ever shown of a run is folded from that log. Triggers
start runs, and restarts repair what a crash left behind. A program that has its
own loop can use the log alone: an *observer session*, reached from Rust, Python,
Node or .NET, directly or through the callbacks of an agent framework.

| Part | State | Operations | Talks to | What is hard | What makes it correct |
|---|---|---|---|---|---|
| write handle, write pipeline (`write_handle.rs`, `write_pipeline.rs`) | sequence counter, two bounded channels, batch | `write`, `try_write`, flush loop | every node task, run store | interleaved writers, failing store, partial inserts, shutdown under backpressure | no accepted critical event lost while it runs, store always a prefix, shutdown ends |
| execution session (`runtime/session.rs`) | write handle, pipeline handle | start, record, finish, drop | pipeline | drop without finish, finish while writers are blocked | finish returns, drop ends the pipeline |
| graph analysis, validation (`executor/edges.rs`, `validate.rs`) | none | `find_back_edges`, `find_entry_nodes`, `validate_graph` | run loop | cycles, self-loops, unreachable parts, two copies of one search | what is left is acyclic, every back-edge closes a cycle, entries reach everything, the copies agree |
| expressions (`expression.rs`) | none | `evaluate` | run loop | precedence, missing fields, mixed types | the grammar, and the meaning of its precedence |
| run loop (`executor/run.rs`, `edges.rs`, `fanout.rs`) | completed, failed, outputs, traversal counts, fan-out states, running set | one step per task that returns | node tasks, session, completion broadcast | order of returns, failures, panics, cancel | joins wait, no duplicates, no lost wake-up, truthful status, it ends |
| node execution (`executor/node.rs`, `node_ctx.rs`) | attempt, LLM record channel, event channel | attempt loop, the calls of a handler's context | handler, log, state, queue | timeout against completion, retry of half-done work, a full channel | log agrees with what happened, records kept, every task ends |
| human input (`nodes/human_in_loop.rs`) | registry of oneshot senders | register, `provide_input` | run loop, API | overwritten registrations, late answers | a completion needs an answer |
| `llm_call` (`nodes/llm_call.rs`) | conversation in the state store | load, call, save, record | provider, state store | retry after a partial turn | no turn lost or doubled |
| data nodes (`nodes/csv_tool.rs`, `nodes/json_lookup.rs`) | none | list, count, query, aggregate; search, stock, prices | files | limits, bad records, missing members | answers are the ones asked for |
| shared libraries (`dylib.rs`) | loaded library, strings across the boundary | scan, load, run on a thread, callbacks | node context | a thread that outlives its attempt, who frees what | strings freed once, code not unloaded under a thread in time |
| queue, state (`in_memory_queue.rs`, `in_memory_state.rs`) | broadcast ring, bridges; a map | publish, subscribe; get, set | handlers | lag of a slow subscriber | in order, never twice |
| providers (`cleargate-providers`) | stream buffer, token totals, prices | `complete`, `stream`, `poll_next` | network | reads that cut or join lines, rewriting of roles | the request says what was asked, the stream what was served |
| reconstruction (`defaults/reconstruct.rs`) | none | record, node results, detail, edges, LLM calls | run stores | retries, re-execution, fan-out in one log | agrees with what happened |
| run stores (`file_run_store.rs`, `in_memory_run_store.rs`, `seaorm_run_store.rs`) | events per run | `write_batch`, the queries | pipeline, recovery | deduplication, order, partial batches, paging | one answer from all three |
| flow and tag stores (`file_flow_store.rs`, `file_tag_store.rs`, `seaorm_*`) | documents | put, get, list, delete | versioning | a crash between write and rename, a shared temporary name | a store of atomic documents |
| flow versioning (`versioning.rs`) | versions, head | save, get | flow store | partial failure of save | head resolves and moves |
| triggers and dispatch (`triggers/`, `engine/mod.rs`) | seen keys, event channel, task handles | cron, flow, custom triggers, dispatch, start, shutdown | versioning, executor, broadcast | duplicates, lag, abort in the middle | one run per key, exact chaining, quiet after shutdown |
| crash recovery (`engine/builder.rs`) | none | scan and mark | run store | crash during recovery | no orphan left, no outcome rewritten, heads resolve |
| observer, adapters, bindings (`observer/`, `cleargate-adapters`, `-python`, `-node`, `-dotnet`) | session slot, pending starts, seen nodes and edges | start, record or on_event, finish, destroy | session | threads, callbacks out of order, a pointer used after its lock | calls paired, recorded once, one end, session alive while used |

## 2. The modules

| Module | Role |
|---|---|
| `EventLog` | abstract: an append-only log, a store that holds a growing prefix of it |
| `WritePipeline` | handle, flush loop, session, store |
| `MCWritePipeline` | instances, and the refinement mapping to `EventLog` |
| `WritePipelineProofs` | theorems about `WritePipeline`, its refinement of `EventLog` included |
| `FlowRun` | abstract: what a run of an acyclic flow promises |
| `Executor` | the run loop, and the refinement mapping to `FlowRun` |
| `MCExecutor` | graphs (back-edges computed by `GraphAnalysis`) |
| `ExecutorProofs` | theorems about `Executor`, the refinement of `FlowRun` included |
| `GraphAnalysis`, `Validation`, `Expressions`, `DataNodes` | pure parts, as operators |
| `MCAlgorithms` | what the pure parts are to mean, on every input of a bounded size |
| `NodeExecution` | attempts, handlers, the node's log and what is reconstructed from it |
| `NodeExecutionProofs` | theorems about retries, records, human input and conversations |
| `NodeServices` | the handler's context, shared libraries, state and queue |
| `NodeServicesProofs` | theorems about records, strings and code of libraries, the queue |
| `ProviderWire`, `Providers` | what each provider writes and reads; a call, and the polling of a stream |
| `DocumentStore` | abstract: documents that change in one step |
| `FlowStores` | file and SQL flow and tag stores, system call by system call; implements `DocumentStore` |
| `RunStores` | the three run stores, fed the same batches |
| `StoresProofs` | theorems about `FlowStores`, the refinement of `DocumentStore` included, and `RunStores` |
| `FlowVersioning` | save and get_current against a store |
| `Triggers` | extends `FlowVersioning`: triggers, dispatch, runs as triggers see them |
| `TriggersProofs` | theorems about the head of a flow, also under triggers, and about starting runs once |
| `CrashRecovery` | runs that write, crashes, restart |
| `EngineRestart` | extends `CrashRecovery` and `FlowVersioning`: clients that save versions in a process that is killed and restarted |
| `CrashRecoveryProofs` | theorems about recovery, and about the head of a flow across kills |
| `FrameworkAdapters`, `Bindings` | translation of callbacks; a session behind each language's interface |
| `BindingsProofs` | theorems about borrowed sessions, paired calls and complete sessions |

How they fit together: `WritePipeline` shows that a crash leaves a prefix of the
critical log, and `CrashRecovery` starts from that; `RunStores` shows that what
the pipeline writes, in whatever batches and however often, reads back the same
from every store. `NodeExecution` shows that every task ends, which is the
fairness `Executor` assumes of tasks; `NodeServices` opens up the calls a handler
makes, of which `NodeExecution` keeps one. `Executor` shows that every run ends
with one completion notice, which is what `Triggers` keeps of a run, and takes
from `GraphAnalysis` the back-edges it runs with. `FlowVersioning` takes each
store call as atomic. `FlowStores` shows when that is so: always in the database,
and on files for a document whose saves do not overlap. Nothing in the code keeps
two saves of one document apart, so on files what is said of heads is said of
clients whose puts happen not to overlap (section 5). `Bindings` puts the languages'
wrappers and the adapters around the session of `WritePipeline`, of which it
keeps that critical events are delivered in order, that finish waits for the last
flush, that an advisory event may be dropped and that the last flush may fail
twice.

### WritePipeline

A write is two steps, as in `write_handle.rs`: `next_seq` takes the number,
`SendCritical` / `SendAdvisory` enqueues, blocks, drops or fails. The flush loop
follows the biased `select!`: `poll_shutdown`, `poll_channel` for the critical
and then the advisory channel, `tick_fires`. Each `try_recv` of a drain
(`drain_channel`), each insert of a batch (`insert_event`) and each event put
back (`rebuffer`) is a step of its own, since writers run in between. A store
call may fail after any prefix (`write_batch_err`); the file and memory stores,
which are all-or-nothing per run, are the special case of failing before the
first insert. The session is `start`, `BeginRecord`, `finish`, `SignalShutdown`,
`finish_returns`, `drop`, and then `DropWriteHandle` and `DropPipelineHandle` in
the order in which Rust drops the fields. `sent`, `promised` and `refused` are history
variables: the accepted events, those accepted before the shutdown signal, and
those for which both store calls of the last flush failed.

### Executor

Its state is the set of local variables of `execute_run`, under their own names,
and `running`, the tasks in flight per node and fan-out index. Processing one
result is one step because nothing else touches these variables.
`node_succeeds`, `node_fails`, `instance_returns` and `task_panics` are the
results a task can return; `evaluate_downstream` is
`evaluate_edges_and_find_ready` followed by `spawn_ready_nodes`. A node's output
is reduced to the conditions that hold on it and the lengths of the arrays at its
ports. `request_cancel` covers using and dropping the sender.
`detached_task_ends` is what becomes of tasks that a cancelled loop leaves.

### GraphAnalysis, Validation, Expressions, DataNodes

Pure functions, under the names of the code. The searches visit nodes and edges
in the code's order and carry its `visited` and stack sets. A back-edge is an edge
id, as in the code: two edges with one id are both back-edges if one is. The expression
evaluator works on tokens (the tokenizer is left out) and evaluates while it
parses, as the code does: both sides of `&&` and `||` are always parsed, and an
error on either side is an error. A CSV field is a number or a text that is none;
a row may be one the reader rejects. `MCAlgorithms` builds every graph, expression,
table and catalogue of a bounded size one element at a time and evaluates the
operators in every state.

### NodeExecution, NodeServices

`pc` follows a task through `execute_node`: start, inside the handler (run,
wait, call, save, record), returned, checkpoint, backoff, done. The timeout may
fire at every await of the handler; a panic at every point of it. The handler is
`human_in_loop` (`register_human_input`, `human_returns`), `llm_call`
(`llm_load`, `llm_complete`, `llm_save`, `llm_record`, `llm_fails`; an execution
adds any number of messages to the conversation, none when a back-edge brings it
scalars) or any other
(`record_llm_call`, `other_returns`). `execute_again` is the run loop
re-executing the node on a cycle, possibly with a fan-out. `NodeStatus`,
`NodeAttempts` and `NodeDetail` are `extract_node_results` and
`extract_node_detail`, evaluated on the log in every state.

`NodeServices` models what lies behind the context: each call of a native handler
and each trampoline a shared library calls back through, the two channels of an
attempt and their draining (`drain_llm`, `drain_events`), the timeout, which ends
a native handler and leaves a library's thread running, the strings a library
allocates and `parse_run_result` frees, and `unload`, which happens when the last
user of the library is gone. The queue is a broadcast ring with a bridge task per
subscriber (`bridge_recv`, `bridge_send`).

### ProviderWire, Providers

`ProviderWire` has, for each provider, the request it builds from a
`CompletionRequest`, the response it accepts, and the meaning of one line of a
stream. `Providers` is one call against a server and a network that may cut an
answer anywhere, join lines in one read, fail, or end. Bytes are counted in half
lines, so a read can stop inside a line. `poll_next` is shared by the five
adapters: one poll reads once (`PollBytes`, `PollError`, `PollEnd`) and hands out
at most one item (`Scan`). A read that cuts a line may cut a character, which
`from_utf8_lossy` then replaces (`Intact`).

### FlowVersioning, FlowStores, Triggers

`save` is three store calls that may fail or be abandoned in between; a version
is its graph, because its id is a hash of it. `FlowStores` models the calls
themselves: a file store opens (and truncates) the temporary name, writes,
renames; descriptors name inodes, so a rename takes along what another descriptor
still writes. Any two clients may save one document at the same time. A crash
forgets the clients and keeps the files. The reader looks for a file and reads it
in two steps, a listing document by document, while the clients go on; what the
calls return is folded from what was read. `since` (history) keeps the states each
document had during the call, `raced` the documents left by saves that overlapped
on files. A sorted list has at place `k` the element with `k - 1` before it
(`Sorted`, and `InOrder` for the stable sort of events). In `Triggers`, a trigger task is in its
`select!`, or sending (when the channel is full it waits there). The dispatch
loop is `dispatch_recv`, `dispatch_resolve`, `dispatch_execute`,
`dispatch_drops_handle`. `run_ends` is the end of a run as the run loop decides
it: a dropped cancel sender is a cancel request, unless the loop looked for the
last time before the drop. `TriggerDispatcher::run` is the same loop without the
execution.

### RunStores, CrashRecovery

In `RunStores` a run writes its events as the executor does, a batch is any set
of events not yet stored, and the three `write_batch` take it in their own ways;
the SQL one may fail after any row, and the batch is then written again.
`mark_interrupted` writes its one event with the number `u64::MAX`; a row keeps
the number as a signed integer (`Signed`). Every query of every store is an
operator. In `CrashRecovery`, `persist` makes the next
event of a run durable, `crash` ends the process at any point, `build_scan`,
`mark_interrupted`, `build_done` are step 10 of `EngineBuilder::build`. `Key` is
what a store does to a sequence number: the file and memory stores keep it, the
SQL store casts it to a signed integer of the same width (`Bits`, 64 in the
code). `Status` folds the events in key order. `EngineRestart` adds the clients that
save versions: a kill takes their calls with it between any two puts, a run starts
only where a head resolves (`execute`), and the memory stores lose everything.

### FrameworkAdapters, Bindings

A callback is its name, the identifier the framework put into it and the number
of the call it is about. `LangChain`, `LangGraph` and `SemanticKernel` translate
it; `handle_event` parks starts and pairs ends. In `Bindings` every exported
function of the four interfaces is an action or two: take the pointer under the
lock, use it after. Using a session that was moved out sets `ub`, and nothing is
said of what follows. `lost` says what the session had to give up: `"hint"`, a
TopologyHint that a full advisory channel refused (`adapter.rs:352`: "may or may
not arrive"), and `"tail"`, the last events when both store calls of the last
flush failed. Node's exported calls are synchronous (`block_on` on the one
JavaScript thread), so there only one caller is ever inside (`Idle`).

## 3. What the runs check

| Run | Result | Shows |
|---|---|---|
| `pipeline` | pass | `CriticalConserved`, `GracefulShutdown`, the refinement of `EventLog`; finish returns, drop ends the loop, writers are released (`EveryoneReturns`), re-buffered events reach the store (`EventuallyDurable`) |
| `executor` | pass | on all acyclic graphs of 4 nodes, without conditions and with one on each edge, on the agent loop and on a loop with a join: no duplicate task and fan-in without gaps (`TasksAccounted`), truthful status, joins wait and starts have a reason (`StartsJustified`), no ready node left where no edge has a condition, refinement of `FlowRun`, every run ends |
| `executor_lost_wakeup` | violation | with a condition, a join can be left behind depending on the order of returns |
| `algorithms` | pass | back-edges and entry nodes mean what a run needs and `validate_graph` agrees; an expression means what its grammar says; CSV and JSON tools answer what was asked |
| `node_execution` | pass | retries and log agree, records are kept, reconstruction is faithful (`LogFaithful`), the saved conversation tells each execution once, human nodes need answers, tasks end |
| `node_services` | pass | acknowledged LLM records are kept, a blocked record is released, strings and code of a library outlive their use but for the named cases, the queue delivers in order |
| `providers` | pass | requests say what was asked, streams what was served however the network cuts them, prices are the most specific |
| `flow_stores` | pass | file and SQL stores implement `DocumentStore` with crashes anywhere and saves that overlap (which on files may lose the document they save, and no other); reads and listings are faithful to what was stored while they ran; versions stay |
| `run_stores` | pass | memory, files and SQL hold the same events and give one answer (SQL: about runs not marked interrupted); pages put together are the runs that match |
| `triggers` | pass | one run per key, exact chaining, quiet after shutdown (`StartsOnce`), no event blocks the others |
| `recovery` | pass | with the file and memory stores, clients that race and a process killed anywhere: no orphan is left, no outcome rewritten, the head of a flow names a stored version |
| `bindings` | pass | calls are paired, recorded once, the session ends once, has its topology and is readable but for what `lost` names; Rust's and Node's callers never use a taken session |

Some properties are conjunctions (`TasksAccounted`, `LogFaithful`, `StartsOnce`,
`SessionComplete`, `StreamFaithful`, `DataAnswersRight`, `EveryoneReturns`): their
parts are defined and commented next to them.

Some cases are exempt from a property, and the comment at the property says so:
overlapping starts of one key (`Paired`), a library's thread after its timeout
(`CallsKept`, `StringsAndCode`), the in-memory store's filters by version and
parent and its detail of retried or repeated nodes (`BackendsAgree`), runs marked
interrupted in the database (`BackendsAgree`), Gemini's system messages behind the
first user message (`RequestFaithful`), Python's and .NET's threads (`BorrowSafe`).

Thirteen more configurations show a disagreement of section 5 and are run by hand,
for example `tlc -config Triggers_cancelled.cfg Triggers`; TLC reports a
violation in each: `MCWritePipeline_dropped.cfg`, `Triggers_cancelled.cfg`,
`FlowVersioning.cfg`, `CrashRecovery_sql.cfg`, `Bindings_python.cfg`,
`Providers_stream.cfg`, `Providers_system.cfg`, `RunStores_batch.cfg`,
`RunStores_interrupted.cfg`, `FlowStores_overlap.cfg`, `MCAlgorithms_cycles.cfg`,
`MCAlgorithms_precedence.cfg`, `MCAlgorithms_missing.cfg`.

### Bounds, and why they are enough

A bound matters only for what section 4 does not prove: the invariants of the
pipeline, the run loop, the node's task, the handler's services, the stores, the
triggers, recovery, and pairing in the bindings hold for every value of these
constants.

* Pipeline: one writer besides the session, capacities 1, batches of 2, one
  record, three failing store calls. Capacity 1 makes every channel full; the
  record between RunStarted and RunCompleted makes numbers and channel order
  differ; three failures are a flush that fails both its calls and one more.
* Executor: 4 nodes hold every pattern of fork, join and chain of two joins;
  `MaxTraversals` 2 has a first, a second and a refused traversal; arrays of up
  to 2 items give fan-in with a partial count.
* Algorithms: 4 nodes and 4 edges, or 3 and 5, are a cycle with a chord and a
  part that hangs off it or is not reachable; also a node the graph lacks, a node
  id and an edge id used twice, no nodes. 7 tokens are two comparisons joined, or
  four operands with both connectives; 4 rows are two groups of two; 3 products
  are a tie and a missing price.
* Node execution: 2 attempts, 2 tasks (two executions, or one fan-out of two), a
  record channel of capacity 1 so that it is full, 2 human inputs; an execution of
  `llm_call` makes up to 2 messages of its inputs, and may make none.
* Node services: a native attempt and one in a library, 2 calls each against
  channels of 1; a broadcast ring of 1 and 2 messages, so that a subscriber lags.
* Providers: prompts of 3 messages (system, user and assistant in every order),
  streams of 3 lines, so that a read can bring two and leave one.
* Flow stores: 2 clients, 3 changing calls, of which two, or one and a read, are in
  progress at a time (`MaxBusy`), 2 versions, one flow and one tag: a document is
  written, overwritten by a save that overlaps, crash-cut and saved again, and one
  is saved or deleted under a listing. Listings of several flows are covered by
  the proof.
* Run stores: 2 runs, 5 events, 2 attempts, a plain and a fanned-out node, of which
  the plain one talks; the second run is there for listings and pages. Numbers
  have 4 bits, so that the events' numbers are positive and `u64::MAX` is not.
* Providers, by hand: 2 messages, a user's and a system's.
* Triggers: two cron triggers that share a second, two trigger events and two
  runs (a source and its chained run), channels of capacity 1. A second run
  chained to one source would be a third run: that half of `StartsOnce` rests on
  the proof. One second (`MaxSeconds`) gives each cron trigger one tick and one
  key; the code does not compare the second it wakes in with the one it slept for,
  and nothing is said of that here. One call of save is enough to change the head
  while events wait; racing saves are in `recovery`.
* Recovery: two runs of up to three events, two kills, 3-bit numbers (the width
  matters only through its sign bit); three clients, two graphs and four saves are
  a race for one graph with a third save, of the other, between, and a retry.
* Bindings: 2 threads, 2 calls, 1 extra operation, each host and each framework; one
  status string, for the status only reaches the last event.

### Fairness

* Pipeline: the flush loop and a holder with an event to send are tokio tasks and
  are scheduled; an interval tick fires; a store call returns. The store fails at
  most `MaxFailures` times.
* `Executor`: the run's task is scheduled, and some awaited task returns, which
  `TaskEnds` of `NodeExecution` shows for a single task.
* `NodeExecution`: tasks are scheduled, and the timer around the handler fires.
  Nothing is assumed of handlers, providers or humans.
* `NodeServices`: timers fire, and `execute_node` and a released sender go on.
  Nothing is assumed of handlers, libraries, subscribers or bridges.
* `Triggers`: the dispatch loop is scheduled. Nothing is assumed of clients,
  triggers and runs.

Deadlock is checked except where the bounds, an engine that was shut down, a
finished call or session, or a crash may end everything (`Triggers`,
`EngineRestart`, `Bindings`, `Providers`, `FlowStores`, `RunStores`,
`NodeServices`).

## 4. What is proved

Every theorem is `Spec => []P` (or, for action properties and refinements,
`Spec => P`) for every value of the constants that satisfies the assumptions
named in the module. Except where said, the proof is the usual one: an invariant
that holds initially, is kept by every action, and implies the property.

**The pipeline** (`WritePipelineProofs`; `CapacityAssumption`, `BoundAssumption`,
`SessionAssumption`).

* `TypeCorrect`: `TypeOK`, which contains that the channels never exceed their
  capacities.
* `Conserved`: `CriticalConserved`. Not inductive by itself: in the middle of a
  failing flush the events are in neither batch nor store as a whole. The
  invariant `Conservation` adds `FlushProgress`: while writing, what lies before
  the cursor is in the store; while re-buffering, what is critical and lies before
  the cursor is back in the batch; elsewhere nothing is in flight. Every action
  then moves an event from one place that `CriticalConserved` counts to another.
* `ShutdownKeepsPromise`: `GracefulShutdown`: what was accepted before the signal is
  stored, or both store calls of the last flush were made with it and failed
  (`refused`). `ShutdownInv` says who may still
  send (`SendersKnown`: a channel that reported closed stays empty, for there is
  no handle left), that the signal comes once and that what is promised had been
  accepted (`SignalledOnce`), and where the promised events are on the way out
  (`PromiseKept`): taken, or in a channel still to be drained.
* `PipelineImplementsLog`: the pipeline implements `EventLog`. The mapping takes
  the critical channel's accepted events as the log and their part of the store
  as what is stored. `LogInv`: a number is handed out once (`Numbered`), so the
  channel accepts an event once (`AcceptedOnce`); the channel holds the end of
  its log and the loop only what it has received (`ChannelInOrder`); a batch is in
  log order, and what has been re-buffered comes before what is still to be
  (`BatchesInOrder`); the store holds a prefix (`StoredPrefix`). An insert then
  stores the next event of the log: by `Conservation` every earlier one is held
  somewhere, it can be neither in a channel nor later in the batch being written,
  and what lies before the cursor is stored. After the failed second call of a
  flush the events inserted before the error are in the store and in the batch, so
  the store's test for a number it already holds is what keeps the prefix.

**The run loop** (`ExecutorProofs`; `GraphAssumption`, `NodesAssumption`,
`ParameterAssumption`).

* `TypeCorrect` and `FinalStatusCorrect` (`StatusSound`), for every graph. The
  second needs that, as long as nothing has failed, every node in `running_set`
  has a plain task in flight; so an empty join set means an empty running set.
* `BooksBalance`: `TasksAccounted` on graphs that are `Simple`. `Book(n)` relates
  what the loop's five variables say of a node to its tasks in flight; `Settled`
  says that without back-edges nothing has started before its sources settled.
  Both hypotheses in `Simple` are needed: with two edges between the same nodes
  `spawn_after_failure` starts the target once per edge, and in a cyclic graph a
  fanned-out target with another incoming edge can be started again when that
  other source fails in a later round.
* `NoLostWakeup`: `NoReadyNodeLeftUnconditional` on graphs without back-edges whose
  edges may be traversed at all. `WakeInv`: a node that has not started has a
  source that has not settled, or none of its sources completed. With a condition
  on an edge this is false (`executor_lost_wakeup`).
* `StartsAreJustified`: the action property `StartsJustified`, where no graph has a
  back-edge.
* `LoopImplementsFlowRun`: `Executor` implements `FlowRun`, for `Simple` graphs of
  which the acyclic ones carry no arrays (the mapping gives a fanned-out node no
  state; graphs with back-edges map to a run that only begins, may be cancelled
  and ends). The initial states map to initial states, and every step to a step
  of `FlowRun` or a stutter, under the invariants above (`RunInv`).

**A node's task** (`NodeExecutionProofs`; `BoundsAssumption`).

* `LogIsFaithful`: `LogFaithful`, all of its parts. `BooksInv` says what the log
  still owes: the retries announced at attempt `k` are the starts of attempt
  `k + 1` and the tasks on their way there, and the first starts are the settling
  events and the tasks at work. `TaskInv` accounts for the record channel; `StatusInv` for what a reader
  of the log is told at each stage. Counting is by the cardinality of sets of
  positions, with lemmas on what one more event changes. For `DetailFaithful`,
  `DetailInv` places every entry of the list at a start in the log and says that the
  starts without an end are those of the tasks at work, one each (`UnendedInv`), so
  that an end event finds one entry it can belong to; that `NodeDetail` of a longer
  log is one step of the fold more is shown by a least counterexample.
* `HumanNodesAnswered`: `HumanAnswered`. Completions and answers that tasks hold
  are together never more than the accepted inputs (`HumanInv`).
* `ConversationsFaithful`: `ConversationFaithful`, for a node that never fanned out.
  The invariant says at each stage of the task of which executions the stored
  conversation and the one in hand tell: each once, in order, with all its inputs
  (`Told`).

**The handler's services** (`NodeServicesProofs`; the constant `Absent` is no
number).

* `RecordedCallsKept` and `StringsAndCodeSafe`: `CallsKept`, `StringsAndCode`.
  `AttemptInv`: the acknowledged calls are those drained followed by those in the
  channel (`Moved`), and where attempt, handler and library can be at the same
  time (`InStep`, `LibraryInv`).
* `QueueKeepsOrder`: `QueueInOrder`. What a subscriber took, what waits and what
  its bridge holds increase in this order below the cursor (`OrderInv`), and a
  message before the cursor is in one of them or overwritten (`MissInv`).

**The stores** (`StoresProofs`; `FlowStoresAssumption`: names and version ids are
finitely many and `Absent` is no document; `RunStoresAssumption`: finitely many
runs, and no node is both plain and fanned out).

* `StoresRefineDocuments`: `StoresAreAtomic`, that is, `FlowStores` implements
  `DocumentStore`, whichever saves overlap. `DocumentStore` lets overlapping saves of
  one document lose it (the mapping shows a document in `raced` as lost), and nothing
  else. The invariant has three parts. `CountInv` counts: the inodes in use and the
  saves that have not opened their file are no more than the calls made, so `Fresh`
  exists. `Distinct`: no inode has two names. `Serial`: of a document that is not
  raced, the temporary file of a save belongs to it, and what its name leads to is
  whole. Then opening, writing and failing change nothing that a reader sees, and
  rename, removal and each SQL statement are the one step of `DocumentStore`.
* `ReadsAreFaithful`: `ReadsFaithful`. The invariant relates what the reader has read
  and still has to look for to what its documents were during the call (`since`). A
  list sorted by rank enumerates its set, each element once, in order
  (`ListsByRank`), and its pages of one element put together are the list
  (`PagesJoin`).
* `ComparisonsStay`: `VersionsStay`, for overlapping saves too.
* `RunStoresAgree`: `BackendsAgree`. `RunInv` says what each store holds: the events
  acknowledged, in memory sorted and with the record folded from them, on file in
  any order, in the database perhaps with rows of the batch at hand, under signed
  numbers. A mark has the greatest number and stands last in memory and on files;
  the rows of a run without a mark keep their order, since its numbers are below the
  sign bit (`WidthAssumption`). Queries that are one fold over the same events are
  then equal, and the database is compared for unmarked runs only. The detail of a node is folded
  in two different ways; `DetailsSame` shows that both give the same attempts on a
  log without retry, cycle or failure of a fan-out instance, if every end in it has
  its start. `NodeInv` says that of the log of a run, and `Closed` that batches
  never overtake what must come before them, so the acknowledged part has it too.
  What a fold computes is proved from the least position at which it would go wrong
  (`DetailFold`, `MemDetailFold`), which is how induction is written here.
* `RunListingsAreRight`: `ListsAndCountsAgree`, from `RunInv` and `PagesJoin`.

**Versions, triggers, recovery.**

* `TriggersProofs!HeadAlwaysResolves`: `StoreSpec => []HeadResolves`. The
  strengthening is `StoredFirst`: a call that has come as far as `put_head` has
  its graph in the store; versions are never removed.
  `TriggersProofs!HeadResolvesForTriggers` is the same of the trigger system, and
  `CrashRecoveryProofs!RestartHeadResolves` of clients in a process that is killed
  and restarted, the one the run checks.
* `TriggersProofs!RunsStartOnce`: `StartsOnce`. A key is in `seen_keys` from its
  dispatch on (`KeysInv`). A completed source is a token in one place only: the
  broadcast, the flow trigger's hand, the channel, the dispatch loop or the run it
  started (`Places`), and every event of `Chained` has such a source
  (`SourcesSound`). After an orderly shutdown every task is stopped (`LifeInv`).
* `CrashRecoveryProofs!RecoveryIsComplete` and `OutcomesAreStable` (and `RestartRecovers`,
  the first of them for `EngineRestart`): if no store
  casts sequence numbers (`"sql" \notin Stores`), `Spec => []RecoveryComplete` and
  `Spec => TerminalStable`, from `RangeAssumption` (a run never reaches the number
  of the synthetic event). The invariant: only the synthetic completion has the
  largest number (`Numbers`), so that it decides the status once written
  (`StatusMarked`); a live run's log has a start and no end (`LiveLog`), so no
  event of it is written over an outcome (`StatusOpen`); while a build marks, what
  is left to mark are exactly the runs that read as Running (`Progress`). The
  assumption about stores is needed: `CrashRecovery_sql.cfg` refutes the first
  theorem without it.

**The bindings** (`BindingsProofs`; `BindingsAssumption`, `IdsAssumption`).

* `BorrowsAreSafe`: `BorrowSafe`. Where the session is used by value or by one
  thread, whoever holds a pointer finds the session in its slot (`BorrowInv`).
* `CallsPaired`: `Paired`. `CallsInv`: no two threads work on one call (`RawInv`), a
  parked start is of a call with the key it is parked under (`PendingInv`), and an
  invocation that joins two callbacks joins calls of one kind and identifier
  (`JoinInv`); the key determines both, because the names of identifiers differ.
* `SessionsComplete`: `SessionComplete`, all four parts of it, as long as no dangling
  pointer has been used. `TalkInv`: what a thread is about to write is the invocation
  of its own call, which is ending, so `Booked` holds: the invocations in the log are
  those of the acknowledged calls, once each. `EndInv`: the session leaves its slot
  once, and the thread that took it writes the end when nobody else can write.
  What `lost` names is exempt: the hint that was refused, the tail of a store that
  failed twice. `TopInv`: until then a topology is in the log only if it was set by hand; the names
  of the inferred one are what was recorded, since a list sorted by rank has exactly
  the elements of its set (`SortedRange`).

Only model-checked, and why:

* what needs fairness: `EveryoneReturns`, `EventuallyDurable`, `RunEnds`,
  `TaskEnds`, `BlockedCallReturns`, `EventsDispatched`;
* what recursive definitions compute, which would need induction over data: the
  searches, the evaluator, the data nodes (`algorithms`), requests, streams and
  prices (`providers`);
* `StartsJustified` and the refinement of `FlowRun` on the graphs the theorems
  exclude.

## 5. Disagreements between code and documentation

The second is the run `executor_lost_wakeup` and is recorded in `PROJECT.json`
under `findings`; the others have the configurations named.

1. **Last flush** (`write_pipeline.rs:270`, `MCWritePipeline_dropped.cfg`): after
   shutdown a flush that fails twice puts critical events back into a batch that
   nobody flushes, though `write_pipeline.rs:6` says they are "NEVER dropped, even
   on RunStore failure". The log can end without RunCompleted; recovery later
   marks such a run Interrupted.
2. **Lost wake-up at a join** (`edges.rs:246`): `A -> C` without and `B -> C`
   with a condition. If A returns first and B, with the condition false, returns
   last, C never starts and the run is Failed; in the other order C runs.
3. **Triggered runs are cancelled** (`engine/mod.rs:290`,
   `Triggers_cancelled.cfg`): the dispatch loop drops the `ExecutionHandle`, whose
   cancel sender is then closed, which `check_cancel` takes for a request.
4. **A successful save that does not move the head** (`versioning.rs:131`,
   `FlowVersioning.cfg`): an existing version returns before `put_head`.
5. **SQL recovery** (`seaorm_run_store.rs:86`, `CrashRecovery_sql.cfg`):
   `u64::MAX as i64` is -1, so the mark sorts before RunStarted and the run still
   reads as Running.
6. **Python pointer** (`cleargate-python/src/adapters.rs:123`,
   `Bindings_python.cfg`): `allow_threads` releases the GIL while the raw pointer
   is in use, and another thread's `finish` moves the session out. The comment
   above it says there can be "no concurrent finish()".
7. **End of a stream** (`openai.rs:294` and the other four adapters,
   `Providers_stream.cfg`): when a read brings two lines and the stream then ends,
   the second, often the one with the token counts, is never handed out.
8. **All-or-nothing batches** (`seaorm_run_store.rs:60`, `RunStores_batch.cfg`):
   rows are inserted without a transaction, and `traits.rs:332` asks for
   all-or-nothing.
9. **Missing fields** (`expression.rs:31`, `MCAlgorithms_missing.cfg`): "Missing
   fields in comparisons evaluate to `false`", but by the null rule of `compare`
   `missing == missing` and `missing != x` are true.
10. **Precedence** (`expression.rs:228`, `MCAlgorithms_precedence.cfg`): the comment
    on the parser has "! > comparison > && > ||", while `parse_not` takes the whole
    comparison after it: `!a == b` is `!(a == b)`. `EvaluatesGrammar` follows the
    grammar written at each parse function, which the code does.
11. **One back-edge per cycle** (`edges.rs:19-20`, doc of `find_back_edges`,
    `MCAlgorithms_cycles.cfg`): two back-edges of the search can lie on one cycle.
12. **System messages for Gemini** (`gemini.rs:175`, `183` and `196`,
    `Providers_system.cfg`): they are to be prepended to the first user message; the
    code prepends them to the next one, and loses them if there is none.
    `RequestFaithful` asks only what comment and code agree on.
13. **Overlapping saves on files** (`file_flow_store.rs:19`,
    `FlowStores_overlap.cfg`): temporary file and rename are "to prevent partial
    writes from corrupting the store", but two saves of one document share the
    temporary file, and one can rename what the other is still writing. The file
    tag store writes the same way.
14. **Marked runs in the database** (`traits.rs:390`, `RunStores_interrupted.cfg`):
    `mark_interrupted` is to "Mark a run as interrupted"; after it memory and files
    read Interrupted and the database Running, for the reason of 5.

Behaviour that is modelled, that no document rules out, and that a reader of the
properties should know:

* after a failure, conditions on the edges from the completed sources are not
  looked at (`StartsJustified` asks for a reason in graphs without conditions);
* on the second round of a loop a join starts as soon as one source passes
  (`StartsJustified` asks for the join at first executions);
* two edges from the same failed node to one target spawn it twice (the graphs
  checked have no parallel edges), and in a cyclic graph a fanned-out target is
  started again when another of its sources, executed again, fails (`Simple` in
  `ExecutorProofs` names both);
* a cancelled run leaves its tasks running detached, and their LLM records are
  not written;
* after a failed flush the advisory events of the batch are gone, and critical
  events keep their channel order but not the order of their numbers;
* NodeFailed has no fan-out index, so the detail of a fan-out may give a failure
  to another instance (`DetailFaithful` excludes this);
* fan-out instances of a human or `llm_call` node share one registration and one
  conversation;
* a version pinned by a trigger event is checked for existence and then ignored;
* a tag deleted between the look and the read fails a whole listing of tags
  (`ReadsFaithful` allows this);
* an edge that shares its id with a back-edge is not waited for either, and a node
  whose sources no start node leads to is never started;
* the in-memory run store ignores the version and parent filters of `list_runs`,
  and its node detail differs from the others' on retries, cycles and failures of
  fan-out instances;
* of the providers only Ollama sends the `tools` of a request (`ollama.rs:244`);
  OpenAI, the compatible APIs, Anthropic and Gemini drop them, and Anthropic and
  Gemini drop the tool calls of earlier answers;
* a library's thread that outlives its timeout goes on in a library that may be
  unloaded, and what it records then is lost; a result that is not UTF-8 is never
  freed;
* `query` and `search_products` return one row for a limit of 0; a product
  without a price counts as the cheapest; an unknown operator goes unnoticed on an
  empty table;
* `validate_graph` is not called by the engine, and its "no entry nodes" error
  appears only together with an edge from an unknown node;
* state set through the context is never cleaned up, and restore would lose its
  sensitivity marks (neither is called by the engine).

## 6. Not modelled, and the plan

Not modelled, with the reason in `PROJECT.json`: the stateless built-in nodes
(conditional, jq, tool router) and the HTTP node, JSON schema, redaction, secrets
and telemetry, the typed SDK packages, examples; of the modelled parts the
tokenizer, payloads and error texts, HTTP headers, the hashes of versions and
configurations, wiring in the builder. The HTTP trigger is passive: it waits for
shutdown, and its events come from code outside the repository, as `custom` does. A second engine on one store is not modelled:
the code has no notion of it.
