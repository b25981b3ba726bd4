----------------------------- MODULE NodeExecution -----------------------------
(***************************************************************************)
(* The execution of one node: its tasks (one, or one per fan-out item), the *)
(* attempts each task makes under a timeout, the events it logs, and what a *)
(* reader later reconstructs from the log.                                  *)
(*                                                                          *)
(* All tasks of a node share its node id, and with it the key of the human  *)
(* input registry and the key of the conversation in the state store.  The  *)
(* handler is one of: human_in_loop, llm_call, or any other handler, which  *)
(* records LLM calls and returns as it likes.  The node may be executed     *)
(* again by the run loop when it lies on a cycle.                           *)
(*                                                                          *)
(* The log is in the order of sequence numbers.  A definition commented     *)
(* "Defect:" is a plausible bug, used to show that a property can fail.     *)
(***************************************************************************)
EXTENDS Naturals, Sequences, SequencesExt, FiniteSets, FiniteSetsExt

CONSTANTS
    Kinds,          \* handlers to consider, among human, llm and other
    MaxItems,       \* bound: largest fan-out
    max_attempts,   \* RetryPolicy.max_attempts.max(1)
    RecordCap,      \* capacity of the channel of LLM records (1000 in the code)
    MaxTasks,       \* bound: tasks of the node over all its executions in the run
    MaxInputs,      \* bound: values handed to provide_input
    MaxMessages     \* bound: messages llm_call makes of the inputs of a task

ASSUME KindsAssumption == Kinds \subseteq {"human", "llm", "other"}
ASSUME BoundsAssumption ==
    /\ max_attempts \in Nat \ {0} /\ RecordCap \in Nat \ {0}
    /\ MaxItems \in Nat /\ MaxTasks \in Nat \ {0} /\ MaxInputs \in Nat /\ MaxMessages \in Nat
    /\ MaxItems <= MaxTasks    \* the first execution is within the bound

VARIABLES
    kind,           \* the node's handler
    tasks,          \* fan-out indices of this execution; {0}: no fan-out
    executions,     \* executions started so far
    spawned,        \* tasks spawned so far
    inputs,         \* per execution so far, per task: how many messages llm_call makes of its inputs
    pc, attempt,    \* per task
    result,         \* per task: what the attempt's handler returned
    log,            \* the node's events, in sequence order
    sender,         \* task whose oneshot sender the registry holds, or NoTask
    receiver,       \* per task: its oneshot receiver: none, waiting, value or closed
    accepted,       \* calls of provide_input that returned Ok
    channel,        \* per task: records in the attempt's LLM channel
    recorded,       \* per task: records sent over all its attempts (history)
    llm_records,    \* per task: all_llm_records
    messages,       \* per task: the conversation an llm_call attempt works on
    conversation    \* the conversation in the state store

nodeVars == <<kind, tasks, executions, spawned, inputs>>
taskVars == <<pc, attempt, result>>
humanVars == <<sender, receiver, accepted>>
llmVars == <<channel, recorded, llm_records, messages, conversation>>
vars == <<nodeVars, taskVars, log, humanVars, llmVars>>

Instances == 0..MaxItems
NoTask == MaxItems + 1

\* No fan-out, or a fan-out over k items.
FanOuts == {{0}} \cup {1..k : k \in 1..MaxItems}

\* What the tasks of T may be given.  llm_call makes any number of messages of it: of a new
\* conversation the system prompt and `messages`, or the inputs as one; on a back-edge the tool
\* results, `messages` or items of an array, an object as one, and of a plain value none.
Given(T) == {f \in [Instances -> 0..MaxMessages] : \A i \in Instances : (kind # "llm" \/ i \notin T) => f[i] = 0}

\* The future of the handler exists; the timeout guards exactly this span.
InHandler(i) == pc[i] \in {"run", "wait", "call", "save", "record"}

Fin == {"done", "collected", "panicked"}

-----------------------------------------------------------------------------
(* Events.  NodeFailed carries no fan-out index. *)

NodeStarted(i, k) == [ev |-> "started", index |-> i, attempt |-> k, will_retry |-> FALSE]
NodeCompleted(i) == [ev |-> "completed", index |-> i, attempt |-> 0, will_retry |-> FALSE]
Checkpoint == [ev |-> "checkpoint", index |-> 0, attempt |-> 0, will_retry |-> FALSE]
NodeFailed(k, again) == [ev |-> "failed", index |-> 0, attempt |-> k, will_retry |-> again]
LlmInvocation == [ev |-> "llm", index |-> 0, attempt |-> 0, will_retry |-> FALSE]

-----------------------------------------------------------------------------
(* execute_node: the attempt loop around the handler *)

emit_started(i) ==
    /\ pc[i] = "start"
    /\ pc' = [pc EXCEPT ![i] = "run"]
    /\ log' = Append(log, NodeStarted(i, attempt[i]))
    /\ UNCHANGED <<nodeVars, attempt, result, humanVars, llmVars>>

\* The handler's future is gone, with the receiver and the local conversation it held.
LeaveHandler(i, r) ==
    /\ pc' = [pc EXCEPT ![i] = "returned"]
    /\ result' = [result EXCEPT ![i] = r]
    /\ receiver' = [receiver EXCEPT ![i] = "none"]
    /\ messages' = [messages EXCEPT ![i] = <<>>]
    /\ UNCHANGED <<nodeVars, attempt, log, sender, accepted, conversation>>

\* Defect: waiting for a human is not under the timeout.
handler_times_out_unless_waiting(i) ==
    /\ InHandler(i) /\ pc[i] # "wait"
    /\ LeaveHandler(i, "timeout")
    /\ UNCHANGED <<channel, recorded, llm_records>>

\* The timer fires first, even if a value has just reached the receiver.
handler_times_out(i) ==
    /\ InHandler(i)
    /\ LeaveHandler(i, "timeout")
    /\ UNCHANGED <<channel, recorded, llm_records>>

\* A panic ends the task without an event and without a result.
handler_panics(i) ==
    /\ InHandler(i)
    /\ pc' = [pc EXCEPT ![i] = "panicked"]
    /\ receiver' = [receiver EXCEPT ![i] = "none"]
    /\ messages' = [messages EXCEPT ![i] = <<>>]
    /\ UNCHANGED <<nodeVars, attempt, result, log, sender, accepted,
                   channel, recorded, llm_records, conversation>>

\* Defect: the last attempt announces a retry too.
WillRetryOffByOne(i) == result[i] = "retryable" /\ attempt[i] <= max_attempts

\* Only a retryable error is retried, and only while attempts are left.
WillRetry(i) == result[i] = "retryable" /\ attempt[i] < max_attempts

\* What the attempt's channel holds is added to all_llm_records, whatever the result.
drain(i) == [llm_records EXCEPT ![i] = @ + channel[i]]

\* The attempt has ended: its channels are drained and its outcome is logged.
emit_outcome(i) ==
    /\ pc[i] = "returned"
    /\ llm_records' = drain(i)
    /\ channel' = [channel EXCEPT ![i] = 0]
    /\ \/ /\ result[i] = "ok"
          /\ log' = Append(log, NodeCompleted(i))
          /\ pc' = [pc EXCEPT ![i] = "checkpoint"]
       \/ /\ result[i] \in {"fatal", "retryable"}
          /\ log' = Append(log, NodeFailed(attempt[i], WillRetry(i)))
          /\ pc' = [pc EXCEPT ![i] = IF WillRetry(i) THEN "backoff" ELSE "done"]
       \/ /\ result[i] = "timeout"
          /\ log' = Append(log, NodeFailed(attempt[i], FALSE))
          /\ pc' = [pc EXCEPT ![i] = "done"]
    /\ UNCHANGED <<nodeVars, attempt, result, humanVars,
                   recorded, messages, conversation>>

emit_checkpoint(i) ==
    /\ pc[i] = "checkpoint"
    /\ pc' = [pc EXCEPT ![i] = "done"]
    /\ log' = Append(log, Checkpoint)
    /\ UNCHANGED <<nodeVars, attempt, result, humanVars, llmVars>>

\* Backoff is over: the next attempt, if the loop has one left.
next_attempt(i) ==
    /\ pc[i] = "backoff"
    /\ IF attempt[i] < max_attempts
       THEN pc' = [pc EXCEPT ![i] = "start"] /\ attempt' = [attempt EXCEPT ![i] = @ + 1]
       ELSE pc' = [pc EXCEPT ![i] = "done"] /\ UNCHANGED attempt
    /\ UNCHANGED <<nodeVars, result, log, humanVars, llmVars>>

-----------------------------------------------------------------------------
(* Handlers *)

\* Any handler: record an LLM call (awaits room in the channel), or return.
record_llm_call(i) ==
    /\ kind = "other" /\ pc[i] = "run" /\ channel[i] < RecordCap
    /\ channel' = [channel EXCEPT ![i] = @ + 1]
    /\ recorded' = [recorded EXCEPT ![i] = @ + 1]
    /\ UNCHANGED <<nodeVars, taskVars, log, humanVars,
                   llm_records, messages, conversation>>

other_returns(i, r) ==
    /\ kind = "other" /\ pc[i] = "run"
    /\ LeaveHandler(i, r)
    /\ UNCHANGED <<channel, recorded, llm_records>>

\* human_in_loop registers its sender; a sender registered under the key is dropped, and
\* its waiter finds the channel closed.
register_human_input(i) ==
    /\ kind = "human" /\ pc[i] = "run"
    /\ pc' = [pc EXCEPT ![i] = "wait"]
    /\ sender' = i
    /\ receiver' = [j \in Instances |->
           CASE j = i -> "waiting"
             [] j # i /\ j = sender /\ receiver[j] = "waiting" -> "closed"
             [] OTHER -> receiver[j]]
    /\ UNCHANGED <<nodeVars, attempt, result, log, accepted, llmVars>>

\* Executor::provide_input takes the sender out of the registry; the send fails when the
\* receiver is gone.  (The error paths without a sender, or on lock contention, change
\* nothing.)
provide_input ==
    /\ sender # NoTask /\ accepted < MaxInputs
    /\ sender' = NoTask
    /\ \/ /\ receiver[sender] = "waiting"
          /\ receiver' = [receiver EXCEPT ![sender] = "value"]
          /\ accepted' = accepted + 1
       \/ /\ receiver[sender] # "waiting"
          /\ UNCHANGED <<receiver, accepted>>
    /\ UNCHANGED <<nodeVars, taskVars, log, llmVars>>

\* Defect: a closed channel counts as an empty answer.
AnswerLenient(i) == IF receiver[i] \in {"value", "closed"} THEN "ok" ELSE "fatal"

\* A closed channel means "Human input canceled".
Answer(i) == IF receiver[i] = "value" THEN "ok" ELSE "fatal"

human_returns(i) ==
    /\ pc[i] = "wait" /\ receiver[i] # "waiting"
    /\ LeaveHandler(i, Answer(i))
    /\ UNCHANGED <<channel, recorded, llm_records>>

\* A turn of the conversation: what the execution was given, message by message, and as the
\* last the reply.
Message(k) == [by |-> executions, of |-> k]
NewMessages(i) == [k \in 1..inputs[executions][i] |-> Message(k)]
Reply(i) == Message(inputs[executions][i] + 1)

\* Defect: the inputs are stored before the provider has answered.
llm_load_saving(i) ==
    /\ kind = "llm" /\ pc[i] = "run"
    /\ pc' = [pc EXCEPT ![i] = "call"]
    /\ messages' = [messages EXCEPT ![i] = conversation \o NewMessages(i)]
    /\ conversation' = conversation \o NewMessages(i)
    /\ UNCHANGED <<nodeVars, attempt, result, log, humanVars, channel, recorded, llm_records>>

\* llm_call loads the conversation and appends what it makes of its inputs.
llm_load(i) ==
    /\ kind = "llm" /\ pc[i] = "run"
    /\ pc' = [pc EXCEPT ![i] = "call"]
    /\ messages' = [messages EXCEPT ![i] = conversation \o NewMessages(i)]
    /\ UNCHANGED <<nodeVars, attempt, result, log, humanVars,
                   channel, recorded, llm_records, conversation>>

\* The provider answers ...
llm_complete(i) ==
    /\ pc[i] = "call"
    /\ pc' = [pc EXCEPT ![i] = "save"]
    /\ messages' = [messages EXCEPT ![i] = Append(@, Reply(i))]
    /\ UNCHANGED <<nodeVars, attempt, result, log, humanVars,
                   channel, recorded, llm_records, conversation>>

\* ... or fails; bad configuration, a missing provider and state store errors are fatal.
llm_fails(i, r) ==
    /\ kind = "llm"
    /\ \/ pc[i] \in {"run", "save"} /\ r = "fatal"
       \/ pc[i] = "call" /\ r \in {"fatal", "retryable"}
    /\ LeaveHandler(i, r)
    /\ UNCHANGED <<channel, recorded, llm_records>>

llm_save(i) ==
    /\ pc[i] = "save"
    /\ pc' = [pc EXCEPT ![i] = "record"]
    /\ conversation' = messages[i]
    /\ UNCHANGED <<nodeVars, attempt, result, log, humanVars,
                   channel, recorded, llm_records, messages>>

llm_record(i) ==
    /\ pc[i] = "record" /\ channel[i] < RecordCap
    /\ LeaveHandler(i, "ok")
    /\ channel' = [channel EXCEPT ![i] = @ + 1]
    /\ recorded' = [recorded EXCEPT ![i] = @ + 1]
    /\ UNCHANGED llm_records

-----------------------------------------------------------------------------
(* The run loop *)

\* The loop takes the task's result and logs its LLM records.
collect(i) ==
    /\ pc[i] = "done"
    /\ pc' = [pc EXCEPT ![i] = "collected"]
    /\ log' = log \o [k \in 1..llm_records[i] |-> LlmInvocation]
    /\ UNCHANGED <<nodeVars, attempt, result, humanVars, llmVars>>

\* A cycle executes the node again, unless it failed; a failed fan-out instance does not
\* fail the node.
execute_again ==
    /\ \A i \in tasks : pc[i] = "collected" /\ (i = 0 => result[i] = "ok")
    /\ executions' = executions + 1
    /\ tasks' \in FanOuts
    /\ spawned' = spawned + Cardinality(tasks') /\ spawned' <= MaxTasks
    /\ \E f \in Given(tasks') : inputs' = Append(inputs, f)
    /\ pc' = [i \in Instances |-> IF i \in tasks' THEN "start" ELSE "absent"]
    /\ attempt' = [i \in Instances |-> 1]
    /\ result' = [i \in Instances |-> "none"]
    /\ recorded' = [i \in Instances |-> 0]
    /\ llm_records' = [i \in Instances |-> 0]
    /\ UNCHANGED <<kind, log, humanVars, channel, messages, conversation>>

Terminated ==
    /\ \A i \in tasks : pc[i] \in {"collected", "panicked"}
    /\ UNCHANGED vars

-----------------------------------------------------------------------------

Init ==
    /\ kind \in Kinds
    /\ tasks \in FanOuts
    /\ executions = 1 /\ spawned = Cardinality(tasks)
    /\ \E f \in Given(tasks) : inputs = <<f>>
    /\ pc = [i \in Instances |-> IF i \in tasks THEN "start" ELSE "absent"]
    /\ attempt = [i \in Instances |-> 1]
    /\ result = [i \in Instances |-> "none"]
    /\ log = <<>>
    /\ sender = NoTask /\ accepted = 0
    /\ receiver = [i \in Instances |-> "none"]
    /\ channel = [i \in Instances |-> 0]
    /\ recorded = [i \in Instances |-> 0]
    /\ llm_records = [i \in Instances |-> 0]
    /\ messages = [i \in Instances |-> <<>>]
    /\ conversation = <<>>

TaskStep(i) ==
    \/ emit_started(i) \/ emit_outcome(i) \/ emit_checkpoint(i) \/ next_attempt(i)
    \/ handler_times_out(i)
    \/ record_llm_call(i) \/ register_human_input(i) \/ human_returns(i)
    \/ llm_load(i) \/ llm_complete(i) \/ llm_save(i) \/ llm_record(i)
    \/ \E r \in {"ok", "fatal", "retryable"} : other_returns(i, r) \/ llm_fails(i, r)

Next ==
    \/ \E i \in tasks : TaskStep(i) \/ handler_panics(i) \/ collect(i)
    \/ provide_input
    \/ execute_again
    \/ Terminated

Spec == Init /\ [][Next]_vars

(* Fairness: a spawned task is scheduled, and the timer that guards a        *)
(* handler fires at last.                                                     *)
FairSpec == Spec /\ \A i \in Instances : WF_vars(i \in tasks /\ TaskStep(i))

-----------------------------------------------------------------------------
(* What a reader reconstructs from the log *)

\* extract_node_results: the status of the node, and its attempts.
NodeStatus(events) ==
    LET settling == {k \in 1..Len(events) :
                        \/ events[k].ev = "completed"
                        \/ events[k].ev = "failed" /\ ~events[k].will_retry}
    IN  IF settling # {} THEN events[Max(settling)].ev ELSE "running"

NodeAttempts(events) == Max({events[k].attempt : k \in 1..Len(events)} \cup {0})

\* The unfinished attempts the end event e may belong to.
OpenAttempt(details, e) ==
    {k \in 1..Len(details) : /\ details[k].end = "open"
                             /\ e.ev = "completed" => details[k].index = e.index}

\* extract_node_detail: an end event settles the most recent of them.
AddToDetail(details, e) ==
    CASE e.ev = "started" ->
           Append(details, [index |-> e.index, attempt |-> e.attempt, end |-> "open"])
      [] e.ev \in {"completed", "failed"} /\ OpenAttempt(details, e) # {} ->
           [details EXCEPT ![Max(OpenAttempt(details, e))].end = e.ev]
      [] OTHER -> details

NodeDetail(events) == FoldLeft(AddToDetail, <<>>, events)

-----------------------------------------------------------------------------
(* Properties *)

Count(P(_)) == Cardinality({k \in 1..Len(log) : P(log[k])})

\* Type invariant of the tasks' state.
TypeOK ==
    /\ kind \in Kinds /\ tasks \in FanOuts /\ executions \in 1..MaxTasks /\ spawned \in 1..MaxTasks
    /\ pc \in [Instances -> {"absent", "start", "run", "wait", "call", "save", "record",
                             "returned", "checkpoint", "backoff"} \cup Fin]
    /\ attempt \in [Instances -> 1..max_attempts]
    /\ result \in [Instances -> {"none", "ok", "fatal", "retryable", "timeout"}]
    /\ sender \in Instances \cup {NoTask} /\ accepted \in 0..MaxInputs
    /\ receiver \in [Instances -> {"none", "waiting", "value", "closed"}]
    /\ channel \in [Instances -> 0..RecordCap]
    /\ inputs \in [1..executions -> [Instances -> 0..MaxMessages]]

\* The log keeps its promises about retries (execute_node): an attempt k + 1 starts only
\* after a failure of attempt k that announced it; when all tasks have ended every
\* announced retry has started, and every task that did not panic has exactly one
\* completion or final failure.
RetriesMatch ==
    LET Started(k) == Count(LAMBDA e : e.ev = "started" /\ e.attempt = k)
        Announced(k) == Count(LAMBDA e : e.ev = "failed" /\ e.attempt = k /\ e.will_retry)
        Settled == Count(LAMBDA e : e.ev = "completed" \/ (e.ev = "failed" /\ ~e.will_retry))
        Panicked == Cardinality({i \in tasks : pc[i] = "panicked"})
    IN  /\ \A k \in 1..max_attempts : Started(k + 1) <= Announced(k)
        /\ (\A i \in tasks : pc[i] \in Fin) =>
              /\ \A k \in 1..max_attempts : Started(k + 1) = Announced(k)
              /\ Settled = Started(1) - Panicked

\* What execute_again starts ends too (execute_node): whatever the handler does, every
\* task returns, because each attempt is under a timeout and attempts are limited.
TaskEnds == \A i \in Instances : pc[i] = "start" ~> pc[i] \in Fin

\* No LLM call that was recorded is lost by a task that returns, over all its attempts
\* and also when the attempt timed out (doc comment of record_llm_call).
RecordsKept ==
    \A i \in tasks : pc[i] \in {"done", "collected"} => llm_records[i] = recorded[i]

\* q holds the turns of the executions 1 to n of a node without fan-out, in order: of each the
\* messages it was given, in order, and its reply.
LastOf(e) == inputs[e][0] + 1
Told(q, n) ==
    /\ n = 0 <=> q = <<>>
    /\ q # <<>> => q[1] = [by |-> 1, of |-> 1] /\ q[Len(q)] = [by |-> n, of |-> LastOf(n)]
    /\ \A k \in 1..(Len(q) - 1) :
          q[k + 1] = IF q[k].of < LastOf(q[k].by) THEN [by |-> q[k].by, of |-> q[k].of + 1]
                                                  ELSE [by |-> q[k].by + 1, of |-> 1]

\* The stored conversation of an llm_call without fan-out tells every execution once, in spite
\* of retries, timeouts and re-execution: of each that saved its turn all it was given and then
\* the reply, and nothing of an attempt that failed.  An execution starts, and retries, from
\* the turns of those before it, and has told its own turn when it completes.
ConversationFaithful ==
    kind = "llm" /\ 0 \in tasks /\ (\A k \in 1..Len(log) : log[k].index = 0) =>
        \E n \in {executions - 1, executions} :
            /\ Told(conversation, n)
            /\ pc[0] \in {"start", "run", "backoff"} => n = executions - 1
            /\ pc[0] \in {"checkpoint", "done", "collected"} /\ result[0] = "ok" => n = executions

\* A human node completes only on an answer of its own: there are never more completions
\* than inputs accepted by provide_input, however registrations of fan-out instances
\* overwrite each other.
HumanAnswered ==
    kind = "human" => Count(LAMBDA e : e.ev = "completed") <= accepted

\* Reconstruction agrees with the truth (extract_node_results): for a node without
\* fan-out the status read from the log is running until the first execution has
\* settled, and the outcome of the last execution once that has returned.
StatusAgrees ==
    tasks = {0} =>
        /\ pc[0] \in {"done", "collected"} =>
              NodeStatus(log) = IF result[0] = "ok" THEN "completed" ELSE "failed"
        /\ executions = 1 /\ pc[0] \notin {"checkpoint", "done", "collected"} =>
              NodeStatus(log) = "running"
        /\ executions = 1 /\ pc[0] # "start" => NodeAttempts(log) = attempt[0]

\* The attempts in a log, by the positions of their starts.  An attempt ends with the first
\* end event of its task that follows.
Starts(events) == {p \in 1..Len(events) : events[p].ev = "started"}
EndsAfter(events, p) ==
    {q \in (p + 1)..Len(events) : /\ events[q].index = events[p].index
                                  /\ events[q].ev \in {"completed", "failed"}}
AttemptAt(events, p) ==
    [index |-> events[p].index, attempt |-> events[p].attempt,
     end |-> IF EndsAfter(events, p) = {} THEN "open" ELSE events[Min(EndsAfter(events, p))].ev]

\* The attempts extract_node_detail lists are those made, in their order and each with its
\* own end, for a node without fan-out and for a fan-out of which no attempt failed.
DetailFaithful ==
    (\A k \in 1..Len(log) : log[k].ev = "failed" => \A j \in 1..Len(log) : log[j].index = 0) =>
        /\ Len(NodeDetail(log)) = Cardinality(Starts(log))
        /\ \A p \in Starts(log) :
              NodeDetail(log)[Cardinality({q \in Starts(log) : q <= p})] = AttemptAt(log, p)

\* What is kept of an execution is what happened: execute_node makes the retries it announces,
\* no recorded LLM call is lost, and the status and the attempts that extract_node_results and
\* extract_node_detail read back from the log are the real ones.
LogFaithful == TypeOK /\ RetriesMatch /\ RecordsKept /\ StatusAgrees /\ DetailFaithful
=============================================================================
