------------------------------ MODULE RunStores ------------------------------
(***************************************************************************)
(* The three run stores side by side: in memory, on files (JSON lines) and *)
(* in a database, fed the same batches of the same runs.  A run writes its *)
(* events as the executor does (log); a batch is any set of its events not *)
(* yet stored, for tasks of one run take numbers and reach the pipeline in *)
(* either order; each store takes the batch in its own way, may fail, and  *)
(* is given the same batch again.  A run that still reads as running can   *)
(* be marked interrupted, as a restarted engine does; what it had on its   *)
(* way may reach the stores after that.  Numbers are unsigned and Bits     *)
(* wide, the database keeps them in a signed column of that width.  The    *)
(* payload of an event is its number.                                      *)
(* Specification and constants have names of their own, for StoresProofs   *)
(* reads this module together with FlowStores.                             *)
(***************************************************************************)
EXTENDS Integers, Sequences, FiniteSets, SequencesExt

CONSTANTS Runs,        \* run ids, as numbers
          Busy,        \* runs with nodes; the others are there for the listings
          Plain,       \* nodes with one instance, instance 0
          FannedOut,   \* nodes that fan out, instances 1 and 2
          Talkers,     \* nodes with edges, LLM calls and events of their own
          MaxAttempts, \* attempts of a node
          MaxEvents,   \* events of all runs together
          Bits,        \* width of a sequence number (64 in the code)
          None

ASSUME RunStoresAssumption ==
  /\ Runs \subseteq Nat /\ IsFiniteSet(Runs) /\ Busy \subseteq Runs /\ Talkers \subseteq Plain \cup FannedOut
  /\ MaxAttempts \in Nat /\ MaxEvents \in Nat /\ Plain \cap FannedOut = {}
u_MAX == 2^Bits - 1
\* No run gets as far as the numbers that a signed column takes for negative ones.
ASSUME WidthAssumption ==
  /\ Bits \in Nat /\ 2^Bits \in Nat /\ 2^(Bits - 1) \in Nat
  /\ MaxEvents < 2^(Bits - 1) /\ 2^(Bits - 1) < 2^Bits

VARIABLES log,      \* per run: the events it wrote, in number order
          active,   \* per run: node instances between start and end, or waiting to retry
          batch,    \* the events handed to the stores
          todo,     \* the batch is still to be acknowledged
          acked,    \* events of the batches acknowledged
          mem_events, mem_runs,   \* InMemoryRunStore
          file,                   \* per run: the lines of events.jsonl
          rows                    \* the table run_event

stores == <<mem_events, mem_runs, file, rows>>
runVars == <<log, active, batch, todo, acked, stores>>

Nodes == Plain \cup FannedOut
Instances(n) == IF n \in Plain THEN {0} ELSE {1, 2}
BySeq(a, b) == a.seq < b.seq
\* A stable sort: an event goes behind those with a smaller number, or the same and before it.
Before(events, i) ==
  {j \in DOMAIN events : BySeq(events[j], events[i]) \/ (events[j].seq = events[i].seq /\ j < i)}
InOrder(events) ==
  [k \in DOMAIN events |-> events[CHOOSE i \in DOMAIN events : Cardinality(Before(events, i)) = k - 1]]
\* A set of events, or of anything with different numbers, as a sequence.
Numbered(S) == [k \in 1..Cardinality(S) |-> CHOOSE e \in S : Cardinality({f \in S : f.seq < e.seq}) = k - 1]

--------------------------------------------------------------------------
(* What a run writes.                                                      *)

Room == Cardinality(UNION {ToSet(log[r]) : r \in Runs}) < MaxEvents
Stamped(ev, r, seq) == [x \in DOMAIN ev \cup {"run", "seq"} |->
                          CASE x = "run" -> r [] x = "seq" -> seq [] OTHER -> ev[x]]
\* A store never looks at the log and a batch of a log is one of every longer log, so the
\* runs write their events before the first batch.
Emit(r, ev) ==
  /\ Room /\ ~todo /\ acked = {}
  /\ log' = [log EXCEPT ![r] = Append(@, Stamped(ev, r, Len(@) + 1))]
  /\ UNCHANGED <<batch, todo, acked, stores>>
Under_way(r) == log[r] # <<>> /\ Last(log[r]).kind # "RunCompleted"
Quiet == UNCHANGED active

RunStarted(r, flow, version) ==
  /\ log[r] = <<>> /\ Quiet
  /\ Emit(r, [kind |-> "RunStarted", flow |-> flow, version |-> version,
              parent |-> IF r = 1 THEN None ELSE 1])
\* A node may start again after it ended: it is on a cycle.
NodeStarted(r, n, i) ==
  /\ Under_way(r)
  /\ LET before == {x \in active[r] : x.node = n /\ x.index = i}
     IN /\ \A x \in before : x.waiting
        /\ LET attempt == IF before = {} THEN 1 ELSE 1 + (CHOOSE x \in before : TRUE).attempt
           IN /\ active' = [active EXCEPT ![r] = (@ \ before) \cup
                   {[node |-> n, index |-> i, attempt |-> attempt, waiting |-> FALSE]}]
              /\ Emit(r, [kind |-> "NodeStarted", node |-> n, index |-> i, attempt |-> attempt])
NodeCompleted(r, x) ==
  /\ x \in active[r] /\ ~x.waiting
  /\ active' = [active EXCEPT ![r] = @ \ {x}]
  /\ Emit(r, [kind |-> "NodeCompleted", node |-> x.node, index |-> x.index])
NodeFailed(r, x, will_retry) ==
  /\ x \in active[r] /\ ~x.waiting /\ (will_retry => x.attempt < MaxAttempts)
  /\ active' = [active EXCEPT ![r] =
       (@ \ {x}) \cup IF will_retry THEN {[x EXCEPT !.waiting = TRUE]} ELSE {}]
  /\ Emit(r, [kind |-> "NodeFailed", node |-> x.node, attempt |-> x.attempt, will_retry |-> will_retry])
\* Edges, LLM calls and the node's own events.
Observed(r, kind, n) ==
  /\ Under_way(r) /\ Quiet
  /\ kind \in {"LlmInvocation", "Custom"} => \E x \in active[r] : x.node = n /\ ~x.waiting
  /\ Emit(r, [kind |-> kind, node |-> n])
RunCompleted(r, status) ==
  /\ Under_way(r) /\ active[r] = {} /\ Quiet
  /\ Emit(r, [kind |-> "RunCompleted", status |-> status])

--------------------------------------------------------------------------
(* write_batch.                                                            *)

\* A task's events, and the first and the last event of a run, arrive in their order.
Task(e) == <<e.node, IF "index" \in DOMAIN e THEN e.index ELSE 0>>
Precedes(e, f) ==
  /\ e.seq < f.seq
  /\ \/ e.kind = "RunStarted" \/ f.kind = "RunCompleted" \/ "NodeFailed" \in {e.kind, f.kind}
     \/ Task(e) = Task(f)
\* The pipeline hands over a batch when every store took the one before.
Submit(r, events) ==
  /\ ~todo /\ batch' = events /\ todo' = TRUE
  /\ \A f \in events : \A e \in ToSet(log[r]) \ acked : Precedes(e, f) => e \in events
  /\ UNCHANGED <<log, active, acked, stores>>

\* mark_interrupted: the batch has the one event, with the greatest number there is.  The
\* engine marks the runs that a store lists as running; to mark a run a second time would
\* change no store, for each has the number already.
Mark(r) == [kind |-> "RunCompleted", status |-> "Interrupted", run |-> r, seq |-> u_MAX]
mark_interrupted(r) ==
  /\ ~todo /\ mem_runs[r] # None /\ mem_runs[r].status = "Running" /\ Mark(r) \notin acked
  /\ batch' = {Mark(r)} /\ todo' = TRUE
  /\ UNCHANGED <<log, active, acked, stores>>

seqs(events) == {e.seq : e \in ToSet(events)}
\* The new events of a batch, without those a store has.
Deduped(existing, r) == Numbered({e \in batch : e.run = r /\ e.seq \notin seqs(existing)})
BatchRuns == {e.run : e \in batch}

NewRecord == [flow |-> None, version |-> None, parent |-> None, status |-> "Pending",
              started |-> 0, completed |-> 0]
run_step(record, e) ==
  CASE e.kind = "RunStarted" -> [record EXCEPT !.flow = e.flow, !.version = e.version,
         !.parent = e.parent, !.started = e.seq, !.status = "Running"]
    [] e.kind = "RunCompleted" -> [record EXCEPT !.status = e.status, !.completed = e.seq]
    [] OTHER -> record
mem_reconstruct_run(events) == FoldLeft(run_step, NewRecord, events)

\* Defect: it keeps the order of arrival.
mem_write_batch_unsorted ==
  LET after(r) == mem_events[r] \o Deduped(mem_events[r], r)
  IN /\ mem_events' = [r \in Runs |-> IF r \in BatchRuns THEN after(r) ELSE mem_events[r]]
     /\ mem_runs' = [r \in Runs |-> IF r \in BatchRuns THEN mem_reconstruct_run(after(r)) ELSE mem_runs[r]]
\* Under both locks: append, sort, fold the record again.
mem_write_batch ==
  LET after(r) == InOrder(mem_events[r] \o Deduped(mem_events[r], r))
  IN /\ mem_events' = [r \in Runs |-> IF r \in BatchRuns THEN after(r) ELSE mem_events[r]]
     /\ mem_runs' = [r \in Runs |-> IF r \in BatchRuns THEN mem_reconstruct_run(after(r)) ELSE mem_runs[r]]

file_read_events(r) == InOrder(file[r])
\* The old lines and the new to a temporary file, fsync, rename.  An error at any line leaves
\* the file as it was.
file_write_batch ==
  file' = [r \in Runs |-> IF r \in BatchRuns THEN file_read_events(r) \o Deduped(file_read_events(r), r)
                           ELSE file[r]]

\* event.seq() as i64
Signed(seq) == IF seq >= 2^(Bits - 1) THEN seq - 2^Bits ELSE seq
\* A table row; (run, seq) is unique, a conflict is ignored.
Row(e) == [run |-> e.run, seq |-> Signed(e.seq), event_type |-> e.kind, payload |-> e]
InsertOrIgnore(events) ==
  {Row(e) : e \in {f \in events : ~\E m \in rows : m.run = f.run /\ m.seq = Signed(f.seq)}}
sql_write_batch == rows' = rows \cup InsertOrIgnore(batch)

\* The stores share nothing, so they take the batch in one step.
write_batch ==
  /\ todo /\ mem_write_batch /\ file_write_batch /\ sql_write_batch
  /\ acked' = acked \cup batch /\ batch' = {} /\ todo' = FALSE
  /\ UNCHANGED <<log, active>>
\* One insert fails and the batch is written again later: the rows before it are in the
\* table, for there is no transaction.
sql_write_fails ==
  /\ todo /\ \E e \in batch : rows' = rows \cup InsertOrIgnore({f \in batch : f.seq < e.seq})
  /\ UNCHANGED <<log, active, batch, todo, acked, mem_events, mem_runs, file>>

sql_read_events(r) ==
  LET found == Numbered({m \in rows : m.run = r}) IN [k \in DOMAIN found |-> found[k].payload]

--------------------------------------------------------------------------

RunsInit ==
  /\ log = [r \in Runs |-> <<>>] /\ active = [r \in Runs |-> {}]
  /\ batch = {} /\ todo = FALSE /\ acked = {}
  /\ mem_events = [r \in Runs |-> <<>>] /\ mem_runs = [r \in Runs |-> None]
  /\ file = [r \in Runs |-> <<>>] /\ rows = {}

Statuses == {"Completed", "Failed"}
Versions == {1, 2}
RunsNext ==
  \/ \E r \in Busy :
       \/ \E n \in Nodes : \E i \in Instances(n) : NodeStarted(r, n, i)
       \/ \E x \in active[r] : NodeCompleted(r, x) \/ \E w \in BOOLEAN : NodeFailed(r, x, w)
       \/ \E kind \in {"EdgeEvaluated", "LlmInvocation", "Custom"}, n \in Talkers : Observed(r, kind, n)
  \/ \E r \in Runs :
       \/ \E v \in Versions : v <= r /\ RunStarted(r, 1, v)   \* run 1 has version 1
       \/ \E s \in Statuses : RunCompleted(r, s)
       \/ \E events \in SUBSET (ToSet(log[r]) \ acked) : events # {} /\ Submit(r, events)
       \/ mark_interrupted(r)
  \/ write_batch \/ sql_write_fails
RunsSpec == RunsInit /\ [][RunsNext]_runVars

--------------------------------------------------------------------------
(* Queries: what is folded from a sequence of events (reconstruct.rs), and *)
(* what the store in memory folds for itself.                              *)

reconstruct_run(events) == IF events = <<>> THEN None ELSE FoldLeft(run_step, NewRecord, events)

NewResult == [status |-> "running", inputs |-> 0, outputs |-> 0, error |-> 0, attempts |-> 0]
node_result_step(nodes, e) ==
  CASE e.kind = "NodeStarted" ->
         LET entry == IF nodes[e.node] = None THEN NewResult ELSE nodes[e.node]
         IN [nodes EXCEPT ![e.node] = [entry EXCEPT !.inputs = e.seq,
              !.attempts = IF e.attempt > @ THEN e.attempt ELSE @]]
    [] e.kind = "NodeCompleted" /\ nodes[e.node] # None ->
         [nodes EXCEPT ![e.node].status = "completed", ![e.node].outputs = e.seq]
    [] e.kind = "NodeFailed" /\ nodes[e.node] # None /\ ~e.will_retry ->
         [nodes EXCEPT ![e.node].status = "failed", ![e.node].error = e.seq]
    [] OTHER -> nodes
extract_node_results(events) == FoldLeft(node_result_step, [n \in Nodes |-> None], events)
mem_get_node_results(r) == FoldLeft(node_result_step, [n \in Nodes |-> None], mem_events[r])

OfKind(events, kind) == SelectSeq(events, LAMBDA e : e.kind = kind)
extract_edge_results(events) == OfKind(events, "EdgeEvaluated")
extract_custom_events(events) == OfKind(events, "Custom")
extract_llm_invocations(events) == OfKind(events, "LlmInvocation")
mem_get_edge_results(r) == OfKind(mem_events[r], "EdgeEvaluated")
mem_get_custom_events(r) == OfKind(mem_events[r], "Custom")
mem_get_llm_invocations(r) == OfKind(mem_events[r], "LlmInvocation")

\* extract_node_detail: every start is an attempt; an end goes to the latest one without an
\* end (of its instance, for a completion).
Detail(e) == [attempt |-> e.attempt, index |-> e.index, inputs |-> e.seq, outputs |-> 0, error |-> 0]
Unfinished(ds) == {k \in DOMAIN ds : ds[k].outputs = 0 /\ ds[k].error = 0}
Latest(ks) == CHOOSE k \in ks : \A j \in ks : j <= k
IsOf(e, kind, n) == e.kind = kind /\ e.node = n
detail_step(n, ds, e) ==
  CASE IsOf(e, "NodeStarted", n) -> Append(ds, Detail(e))
    [] IsOf(e, "NodeCompleted", n) ->
         LET ks == {k \in Unfinished(ds) : ds[k].index = e.index}
         IN IF ks = {} THEN ds ELSE [ds EXCEPT ![Latest(ks)].outputs = e.seq]
    [] IsOf(e, "NodeFailed", n) ->
         IF Unfinished(ds) = {} THEN ds ELSE [ds EXCEPT ![Latest(Unfinished(ds))].error = e.seq]
    [] OTHER -> ds
extract_node_detail(events, n) == FoldLeft(LAMBDA ds, e : detail_step(n, ds, e), <<>>, events)

\* In memory: a map by attempt and instance; a completion goes to every attempt of its
\* instance, a failure to the attempt without an instance only.
mem_detail_step(n, ds, e) ==
  CASE IsOf(e, "NodeStarted", n) ->
         IF \E d \in ds : d.attempt = e.attempt /\ d.index = e.index THEN ds ELSE ds \cup {Detail(e)}
    [] IsOf(e, "NodeCompleted", n) ->
         {IF d.index = e.index THEN [d EXCEPT !.outputs = e.seq] ELSE d : d \in ds}
    [] IsOf(e, "NodeFailed", n) ->
         {IF d.attempt = e.attempt /\ d.index = 0 THEN [d EXCEPT !.error = e.seq] ELSE d : d \in ds}
    [] OTHER -> ds
mem_get_node_detail(r, n) == FoldLeft(LAMBDA ds, e : mem_detail_step(n, ds, e), {}, mem_events[r])

file_get_node_results(r) == extract_node_results(file_read_events(r))
file_get_edge_results(r) == extract_edge_results(file_read_events(r))
file_get_node_detail(r, n) == extract_node_detail(file_read_events(r), n)
file_get_custom_events(r) == extract_custom_events(file_read_events(r))
file_get_llm_invocations(r) == extract_llm_invocations(file_read_events(r))
sql_get_node_results(r) == extract_node_results(sql_read_events(r))
sql_get_edge_results(r) == extract_edge_results(sql_read_events(r))
sql_get_node_detail(r, n) == extract_node_detail(sql_read_events(r), n)
sql_get_custom_events(r) == extract_custom_events(sql_read_events(r))
sql_get_llm_invocations(r) == extract_llm_invocations(sql_read_events(r))

--------------------------------------------------------------------------
(* Listings.  A filter is a record of the fields asked for.                *)

mem_get_run(r) == mem_runs[r]
file_get_run(r) == reconstruct_run(file_read_events(r))
sql_get_run(r) == reconstruct_run(sql_read_events(r))

Admits(filter, record, fields) ==
  \A x \in DOMAIN filter \cap fields : record[x] = filter[x]
\* The store in memory knows two of the four fields.
mem_matching(filter) ==
  {r \in Runs : mem_get_run(r) # None /\ Admits(filter, mem_get_run(r), {"flow", "status"})}
file_matching(filter) ==
  {r \in Runs : file_get_run(r) # None /\ Admits(filter, file_get_run(r), {"flow", "status", "version", "parent"})}
sql_matching(filter) ==
  {r \in Runs : sql_get_run(r) # None /\ Admits(filter, sql_get_run(r), {"flow", "status", "version", "parent"})}
Ascending(S) == [k \in 1..Cardinality(S) |-> CHOOSE r \in S : Cardinality({q \in S : q < r}) = k - 1]
\* Defect: it counts after it has cut the page.
RunPage_of_page(runs, limit, offset) ==
  LET all == Ascending(runs)
      page == SubSeq(all, offset + 1, IF offset + limit < Len(all) THEN offset + limit ELSE Len(all))
  IN [total |-> Len(page), runs |-> page]
\* The directory and the table list runs in an order of their own that does not change.
RunPage(runs, limit, offset) ==
  LET all == Ascending(runs)
  IN [total |-> Len(all), runs |-> SubSeq(all, offset + 1, IF offset + limit < Len(all) THEN offset + limit ELSE Len(all))]
mem_list_runs(filter, limit, offset) == RunPage(mem_matching(filter), limit, offset)
file_list_runs(filter, limit, offset) == RunPage(file_matching(filter), limit, offset)
sql_list_runs(filter, limit, offset) == RunPage(sql_matching(filter), limit, offset)
count_runs_by_version(flow) ==
  [v \in Versions |-> Cardinality({r \in Runs : /\ file_get_run(r) # None
                                               /\ file_get_run(r).flow = flow /\ file_get_run(r).version = v})]

--------------------------------------------------------------------------
(* Properties.                                                             *)

Settled == ~todo
AckedOf(r) == Numbered({e \in acked : e.run = r})
\* The node had no retry, no cycle and no failure in a fan-out.
Simple(events, n) ==
  LET starts == {e \in ToSet(events) : IsOf(e, "NodeStarted", n)}
      failures == {e \in ToSet(events) : IsOf(e, "NodeFailed", n)}
  IN /\ \A e \in starts : e.attempt = 1 /\ \A f \in starts : f.index = e.index => f = e
     /\ failures # {} => \A e \in starts : e.index = 0

Marked(r) == Mark(r) \in acked
\* Whatever order the batches came in, however often one had to be written again, and whether
\* or not runs were marked interrupted in between, the stores in memory and on files give one
\* answer: the events acknowledged, each once and in number order, and what is folded from
\* them -- the record, the result of every node, the edges, the LLM calls, the nodes' own
\* events, the runs of a flow with a status, and the attempts of a node that ran without
\* retry, cycle or failure of a fan-out instance.  (The store in memory ignores filters by
\* version and parent, and lists other attempts differently.)  The database has the same
\* events, each once, and gives the same answers about every run that was not marked; a mark
\* it reads before the run's own events.
BackendsAgree ==
  Settled =>
    /\ \A r \in Runs :
         /\ mem_events[r] = AckedOf(r) /\ file_read_events(r) = AckedOf(r)
         /\ mem_get_run(r) = file_get_run(r)
         /\ ToSet(sql_read_events(r)) = ToSet(AckedOf(r)) /\ Len(sql_read_events(r)) = Len(AckedOf(r))
         /\ ~Marked(r) => sql_read_events(r) = AckedOf(r) /\ sql_get_run(r) = file_get_run(r)
    /\ \A r \in Busy :
         /\ file_get_node_results(r) = mem_get_node_results(r)
         /\ file_get_edge_results(r) = mem_get_edge_results(r)
         /\ file_get_custom_events(r) = mem_get_custom_events(r)
         /\ file_get_llm_invocations(r) = mem_get_llm_invocations(r)
         /\ ~Marked(r) => /\ sql_get_node_results(r) = mem_get_node_results(r)
                          /\ sql_get_edge_results(r) = mem_get_edge_results(r)
                          /\ sql_get_custom_events(r) = mem_get_custom_events(r)
                          /\ sql_get_llm_invocations(r) = mem_get_llm_invocations(r)
         /\ \A n \in Nodes :
              /\ ~Marked(r) => sql_get_node_detail(r, n) = file_get_node_detail(r, n)
              /\ Simple(AckedOf(r), n) =>
                   mem_get_node_detail(r, n) = ToSet(file_get_node_detail(r, n))
    /\ \A s \in Statuses \cup {"Running", "Interrupted"} :
         LET n == Cardinality(Runs)
             filter == [status |-> s, flow |-> 1]
         IN /\ mem_list_runs(filter, n, 0) = file_list_runs(filter, n, 0)
            /\ (\A r \in Runs : ~Marked(r)) => sql_list_runs(filter, n, 0) = file_list_runs(filter, n, 0)

\* The pages of list_runs, put together, are the runs that match, each once, and their number
\* is the total every page reports; the file store's count by version counts the runs that
\* list_runs finds for the flow and the version.  The pages of the database are those of the
\* files while no run was marked interrupted.
ListsAndCountsAgree ==
  Settled => \A v \in Versions :
    LET filter == [flow |-> 1, version |-> v]
        n == Cardinality(Runs)
        page(k) == file_list_runs(filter, 1, k - 1)
        row(k) == sql_list_runs(filter, 1, k - 1)
    IN /\ FlattenSeq([k \in 1..n |-> page(k).runs]) = file_list_runs(filter, n, 0).runs
       /\ FlattenSeq([k \in 1..n |-> row(k).runs]) = sql_list_runs(filter, n, 0).runs
       /\ \A k \in 1..n : page(k).total = count_runs_by_version(1)[v]
       /\ (\A r \in Runs : ~Marked(r)) => \A k \in 1..n : row(k) = page(k)

\* "Mark a run as interrupted (crash recovery). Writes a synthetic RunCompleted event with
\* status Interrupted." (RunStore::mark_interrupted): a run that a store has been told to mark
\* reads as interrupted there.  The database has the mark's number as -1 and folds it first.
MarkedEverywhere ==
  Settled => \A r \in Runs : Marked(r) =>
    \A record \in {mem_get_run(r), file_get_run(r), sql_get_run(r)} : record.status = "Interrupted"

\* "Write a batch of events. Must be all-or-nothing." (RunStore::write_batch): while a batch is
\* being written a reader of the run sees none of its events or all of them.
AllOrNothing ==
  \A r \in Runs : LET seen == ToSet(sql_read_events(r)) \cap batch
                  IN seen \in {{}, {e \in batch : e.run = r}}
=============================================================================
