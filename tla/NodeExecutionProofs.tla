------------------------- MODULE NodeExecutionProofs --------------------------
(***************************************************************************)
(* LogFaithful, HumanAnswered and ConversationFaithful for every           *)
(* fan-out, every number of attempts, of executions and of inputs and      *)
(* every channel capacity.                                                 *)
(*                                                                         *)
(* The books: what the log says of retries and outcomes is off by exactly  *)
(* the tasks that are on their way from the one to the other, and there    *)
(* are never fewer accepted inputs than completions and answers a task has *)
(* in hand.  The list of attempts: it has one entry for each start in the  *)
(* log, in the same order, and of the entries without an end the reader    *)
(* can tell which one an end belongs to, since a task has at most one.     *)
(***************************************************************************)
EXTENDS NodeExecution, FiniteSetTheorems, SequenceTheorems, TLAPS

Handling == {"run", "wait", "call", "save", "record"}
Stages == {"absent", "start", "returned", "checkpoint", "backoff"} \cup Handling \cup Fin
Event == [ev : {"started", "completed", "checkpoint", "failed", "llm"}, index : Instances,
          attempt : Nat, will_retry : BOOLEAN]

\* TypeOK without the bounds, and the rest of the state.
NodeShape ==
  /\ tasks \in FanOuts /\ kind \in Kinds
  /\ executions \in Nat \ {0} /\ spawned \in Nat /\ executions <= spawned /\ spawned <= MaxTasks
  /\ inputs \in [1..executions -> [Instances -> 0..MaxMessages]]
  /\ log \in Seq(Event)
TaskShape ==
  /\ pc \in [Instances -> Stages] /\ attempt \in [Instances -> 1..max_attempts]
  /\ result \in [Instances -> {"none", "ok", "fatal", "retryable", "timeout"}]
HumanShape ==
  /\ sender \in Instances \cup {NoTask} /\ accepted \in 0..MaxInputs
  /\ receiver \in [Instances -> {"none", "waiting", "value", "closed"}]
RecordShape ==
  /\ channel \in [Instances -> 0..RecordCap]
  /\ recorded \in [Instances -> Nat] /\ llm_records \in [Instances -> Nat]
Turn == [by : Nat, of : Nat]
Turns == Seq(Turn)
TurnShape == messages \in [Instances -> Turns] /\ conversation \in Turns
Shape == NodeShape /\ TaskShape /\ HumanShape /\ RecordShape /\ TurnShape

\* A task and what it holds: the handler's stage fits its kind, an attempt in backoff is not
\* the last, a receiver exists while the handler waits, and a channel while there is an attempt.
TaskInv(i) ==
  /\ i \notin tasks <=> pc[i] = "absent"
  /\ pc[i] = "wait" => kind = "human"
  /\ pc[i] \in {"call", "save", "record"} => kind = "llm"
  /\ pc[i] = "backoff" => attempt[i] < max_attempts
  /\ receiver[i] # "none" => pc[i] = "wait"
  /\ channel[i] # 0 => pc[i] \in Handling \cup {"returned", "panicked"}
  /\ pc[i] # "panicked" => llm_records[i] + channel[i] = recorded[i]
  /\ pc[i] = "returned" => result[i] # "none"

\* How many events of the log are in S.
Events(l, S) == {k \in 1..Len(l) : l[k] \in S}
Number(l, S) == Cardinality(Events(l, S))
StartedAt(k) == {e \in Event : e.ev = "started" /\ e.attempt = k}
AnnouncedAt(k) == {e \in Event : e.ev = "failed" /\ e.attempt = k /\ e.will_retry}
CompletedEvents == {e \in Event : e.ev = "completed"}
SettledEvents == {e \in Event : e.ev = "completed" \/ (e.ev = "failed" /\ ~e.will_retry)}

\* Tasks that have announced attempt k + 1 and not started it.
DueTask(i, k) == (pc[i] = "backoff" /\ attempt[i] = k) \/ (pc[i] = "start" /\ attempt[i] = k + 1)
Due(k) == {i \in tasks : DueTask(i, k)}
\* Tasks that have started and not settled.
BusyTask(i) == pc[i] \in Handling \cup {"returned", "backoff", "panicked"} \/ (pc[i] = "start" /\ attempt[i] > 1)
Busy == {i \in tasks : BusyTask(i)}
\* Tasks that hold an answer.
AnsweredTask(i) == receiver[i] = "value" \/ (pc[i] = "returned" /\ result[i] = "ok")
Answered == {i \in tasks : AnsweredTask(i)}

BooksInv ==
  /\ \A k \in 1..max_attempts : Number(log, AnnouncedAt(k)) = Number(log, StartedAt(k + 1)) + Cardinality(Due(k))
  /\ Number(log, StartedAt(1)) = Number(log, SettledEvents) + Cardinality(Busy)
HumanInv == kind = "human" => Number(log, CompletedEvents) + Cardinality(Answered) <= accepted

\* No fan-out so far, as far as the log tells.
Solo == \A k \in 1..Len(log) : log[k].index = 0
TracedInv == \A i \in tasks : pc[i] # "start" => \E k \in 1..Len(log) : log[k].index = i

ToldSoFar(q, n) == Told(q, n) /\ \A k \in 1..Len(q) : q[k].by \in 1..n
\* The turn of this execution is in the store.
Saved == pc[0] = "record" \/ (pc[0] \in {"returned", "checkpoint", "done", "collected"} /\ result[0] = "ok")
Unsaved == pc[0] \in {"start", "run", "call", "save", "backoff"} \/ (pc[0] = "returned" /\ result[0] = "retryable")
TurnInv ==
  /\ kind # "llm" => conversation = <<>>
  /\ kind = "llm" /\ 0 \in tasks /\ Solo =>
       /\ ToldSoFar(conversation, executions - 1) \/ ToldSoFar(conversation, executions)
       /\ Saved => ToldSoFar(conversation, executions)
       /\ Unsaved => ToldSoFar(conversation, executions - 1)
       /\ pc[0] = "call" => messages[0] = conversation \o NewMessages(0)
       /\ pc[0] = "save" => messages[0] = Append(conversation \o NewMessages(0), Reply(0))

\* v is the status a reader of l gets: the last settling event, if any, says so.
Tells(l, v) ==
  LET settling == Events(l, SettledEvents)
  IN  \/ settling = {} /\ v = "running"
      \/ \E x \in settling : (\A y \in settling : x >= y) /\ v = l[x].ev

StatusInv ==
  tasks = {0} =>
    /\ pc[0] \in {"done", "collected"} => Tells(log, IF result[0] = "ok" THEN "completed" ELSE "failed")
    /\ pc[0] = "checkpoint" => Tells(log, "completed") /\ result[0] = "ok"
    /\ executions = 1 /\ pc[0] \notin {"checkpoint", "done", "collected"} => Tells(log, "running")
    /\ executions = 1 => \A k \in 1..Len(log) : log[k].attempt <= attempt[0]
    /\ executions = 1 /\ pc[0] # "start" => \E k \in 1..Len(log) : log[k].attempt = attempt[0]

-----------------------------------------------------------------------------
(* Tasks and steps *)

\* Fan-outs are small sets of instances; 0 stands alone.
LEMMA FanOutFacts ==
  /\ 0 \in Instances /\ NoTask \notin Instances
  /\ \A T \in FanOuts : /\ T \subseteq Instances /\ IsFiniteSet(T) /\ T # {} /\ (0 \in T => T = {0})
                        /\ Cardinality(T) \in Nat \ {0} /\ Cardinality(T) <= MaxTasks
<1>1. 0 \in Instances /\ NoTask \notin Instances
  BY BoundsAssumption DEF Instances, NoTask
<1>2. ASSUME NEW T \in FanOuts
      PROVE /\ T \subseteq Instances /\ IsFiniteSet(T) /\ T # {} /\ (0 \in T => T = {0})
            /\ Cardinality(T) \in Nat \ {0} /\ Cardinality(T) <= MaxTasks
  <2>1. CASE T = {0}
    <3>1. IsFiniteSet(T) /\ Cardinality(T) = 1
      BY <2>1, FS_Singleton
    <3> QED
      BY <1>1, <2>1, <3>1, BoundsAssumption
  <2>2. ASSUME NEW k \in 1..MaxItems, T = 1..k
        PROVE /\ T \subseteq Instances /\ IsFiniteSet(T) /\ T # {} /\ 0 \notin T
              /\ Cardinality(T) \in Nat \ {0} /\ Cardinality(T) <= MaxTasks
    <3>1. IsFiniteSet(1..k) /\ Cardinality(1..k) = k
      <4>1. k \in Int /\ 1 \in Int /\ ~(1 > k)
        BY BoundsAssumption
      <4>2. IsFiniteSet(1..k) /\ Cardinality(1..k) = IF 1 > k THEN 0 ELSE k - 1 + 1
        BY <4>1, FS_Interval
      <4> QED
        BY <4>1, <4>2
    <3>2. /\ k \in Nat \ {0} /\ k <= MaxItems /\ MaxItems <= MaxTasks /\ MaxItems \in Nat /\ MaxTasks \in Nat
      BY BoundsAssumption
    <3>3. T \subseteq Instances /\ T # {} /\ 0 \notin T
      BY <2>2, <3>2 DEF Instances
    <3> QED
      BY <2>2, <3>1, <3>2, <3>3
  <2> QED
    BY <2>1, <2>2 DEF FanOuts
<1> QED
  BY <1>1, <1>2

\* What a step inside the handler of task i may do.
Handled(i) ==
  \/ handler_times_out(i) \/ handler_panics(i) \/ record_llm_call(i) \/ register_human_input(i)
  \/ human_returns(i) \/ llm_load(i) \/ llm_complete(i) \/ llm_save(i) \/ llm_record(i)
  \/ \E r \in {"ok", "fatal", "retryable"} : other_returns(i, r) \/ llm_fails(i, r)

\* A step inside a handler moves only its task, which stays unsettled, and logs nothing.
LEMMA HandledEffects ==
  ASSUME Shape, NEW i \in Instances, Handled(i)
  PROVE  /\ pc[i] \in Handling /\ pc'[i] \in Handling \cup {"returned", "panicked"}
         /\ \A j \in Instances : j # i => pc'[j] = pc[j] /\ result'[j] = result[j] /\ messages'[j] = messages[j]
         /\ UNCHANGED <<nodeVars, log, attempt, accepted>>
<1> USE DEF Handling
<1>1. CASE handler_times_out(i) \/ handler_panics(i)
  BY <1>1 DEF Shape, TaskShape, TurnShape, handler_times_out, handler_panics, InHandler, LeaveHandler, nodeVars
<1>2. CASE record_llm_call(i) \/ register_human_input(i)
  BY <1>2 DEF Shape, TaskShape, TurnShape, record_llm_call, register_human_input, taskVars, humanVars, llmVars, nodeVars
<1>3. CASE human_returns(i) \/ llm_record(i)
  BY <1>3 DEF Shape, TaskShape, TurnShape, human_returns, llm_record, LeaveHandler, nodeVars
<1>4. CASE llm_load(i) \/ llm_complete(i) \/ llm_save(i)
  BY <1>4 DEF Shape, TaskShape, TurnShape, llm_load, llm_complete, llm_save, humanVars, nodeVars
<1>5. ASSUME NEW r \in {"ok", "fatal", "retryable"}, other_returns(i, r) \/ llm_fails(i, r)
      PROVE  /\ pc[i] \in Handling /\ pc'[i] \in Handling \cup {"returned", "panicked"}
             /\ \A j \in Instances : j # i => pc'[j] = pc[j] /\ result'[j] = result[j] /\ messages'[j] = messages[j]
             /\ UNCHANGED <<nodeVars, log, attempt, accepted>>
  BY <1>5 DEF Shape, TaskShape, TurnShape, other_returns, llm_fails, LeaveHandler, nodeVars
<1> QED
  BY <1>1, <1>2, <1>3, <1>4, <1>5 DEF Handled

\* The events are events.
LEMMA EventFacts ==
  ASSUME NEW i \in Instances, NEW k \in Nat, NEW again \in BOOLEAN
  PROVE  /\ NodeStarted(i, k) \in Event /\ NodeCompleted(i) \in Event /\ Checkpoint \in Event
         /\ NodeFailed(k, again) \in Event /\ LlmInvocation \in Event
BY FanOutFacts DEF Event, NodeStarted, NodeCompleted, Checkpoint, NodeFailed, LlmInvocation

\* Steps inside a handler keep the state well formed.
LEMMA HandledShape ==
  ASSUME Shape, NEW i \in Instances, Handled(i)
  PROVE  Shape'
<1>1. NodeShape'
  BY HandledEffects DEF Shape, NodeShape, nodeVars
<1>2. TaskShape'
  <2>1. attempt' = attempt
    BY HandledEffects
  <2>2. Answer(i) \in {"ok", "fatal"}
    BY DEF Answer
  <2> QED
    BY <2>1, <2>2 DEF Handled, Shape, TaskShape, handler_times_out, handler_panics, record_llm_call,
       register_human_input, human_returns, llm_load, llm_complete, llm_save, llm_record, other_returns,
       llm_fails, LeaveHandler, taskVars, Stages, Handling, Fin
<1>3. HumanShape'
  <2>1. accepted' = accepted
    BY HandledEffects
  <2> QED
    BY <2>1 DEF Handled, Shape, HumanShape, handler_times_out, handler_panics, record_llm_call,
       register_human_input, human_returns, llm_load, llm_complete, llm_save, llm_record, other_returns,
       llm_fails, LeaveHandler, humanVars
<1>4. RecordShape'
  <2>1. \/ UNCHANGED <<channel, recorded, llm_records>>
        \/ /\ channel[i] < RecordCap /\ channel' = [channel EXCEPT ![i] = @ + 1]
           /\ recorded' = [recorded EXCEPT ![i] = @ + 1] /\ UNCHANGED llm_records
    BY DEF Handled, handler_times_out, handler_panics, record_llm_call, register_human_input, human_returns,
       llm_load, llm_complete, llm_save, llm_record, other_returns, llm_fails, llmVars
  <2>2. channel[i] < RecordCap => channel[i] + 1 \in 0..RecordCap
    BY BoundsAssumption DEF Shape, RecordShape
  <2> QED
    BY <2>1, <2>2 DEF Shape, RecordShape
<1>5. TurnShape'
  <2>0. /\ executions \in 1..executions /\ inputs[executions][i] \in Nat
        /\ NewMessages(i) \in Turns /\ Reply(i) \in Turn
    <3>1. executions \in Nat \ {0} /\ executions \in 1..executions /\ inputs[executions] \in [Instances -> 0..MaxMessages]
      BY DEF Shape, NodeShape
    <3>2. inputs[executions][i] \in Nat
      BY <3>1, BoundsAssumption
    <3>3. Reply(i) \in Turn /\ \A k \in Nat : Message(k) \in Turn
      BY <3>1, <3>2 DEF Reply, Message, Turn
    <3>4. NewMessages(i) \in [1..inputs[executions][i] -> Turn]
      BY <3>2, <3>3 DEF NewMessages
    <3>5. NewMessages(i) \in Turns
      BY <3>2, <3>4 DEF Turns
    <3> QED BY <3>1, <3>2, <3>3, <3>5
  <2>1. /\ conversation \o NewMessages(i) \in Turns /\ messages[i] \in Turns
        /\ Append(messages[i], Reply(i)) \in Turns /\ <<>> \in Turns
    BY <2>0 DEF Shape, TurnShape, Turns
  <2> QED
    BY <2>1 DEF Handled, Shape, TurnShape, handler_times_out, handler_panics, record_llm_call,
       register_human_input, human_returns, llm_load, llm_complete, llm_save, llm_record, other_returns,
       llm_fails, LeaveHandler, llmVars
<1> QED
  BY <1>1, <1>2, <1>3, <1>4, <1>5 DEF Shape

\* An attempt ends in one of three ways: it completed, it failed and another one is due, or
\* it failed for good.
LEMMA OutcomeEffects ==
  ASSUME Shape, NEW i \in Instances, emit_outcome(i)
  PROVE  \E e \in Event :
           /\ log' = Append(log, e)
           /\ \/ /\ e.ev = "completed" /\ e.index = i /\ e.attempt = 0 /\ ~e.will_retry
                 /\ pc'[i] = "checkpoint" /\ result[i] = "ok"
              \/ /\ e.ev = "failed" /\ e.index = 0 /\ e.attempt = attempt[i] /\ e.will_retry
                 /\ pc'[i] = "backoff" /\ attempt[i] < max_attempts /\ result[i] = "retryable"
              \/ /\ e.ev = "failed" /\ e.index = 0 /\ e.attempt = attempt[i] /\ ~e.will_retry
                 /\ pc'[i] = "done" /\ result[i] # "ok"
<1> DEFINE Ended(ev, k, again) == [ev |-> ev, index |-> IF ev = "completed" THEN i ELSE 0, attempt |-> k, will_retry |-> again]
<1>1. attempt[i] \in Nat /\ 0 \in Instances /\ pc \in [Instances -> Stages]
  BY BoundsAssumption, FanOutFacts DEF Shape, TaskShape
<1>2. CASE result[i] = "ok"
  <2>1. Ended("completed", 0, FALSE) \in Event
    BY <1>1 DEF Event
  <2>2. log' = Append(log, Ended("completed", 0, FALSE)) /\ pc'[i] = "checkpoint"
    BY <1>1, <1>2 DEF emit_outcome, NodeCompleted
  <2> QED
    BY <1>2, <2>1, <2>2
<1>3. CASE result[i] # "ok" /\ WillRetry(i)
  <2>1. Ended("failed", attempt[i], TRUE) \in Event
    BY <1>1 DEF Event
  <2>2. /\ log' = Append(log, Ended("failed", attempt[i], TRUE)) /\ pc'[i] = "backoff"
        /\ result[i] = "retryable" /\ attempt[i] < max_attempts
    BY <1>1, <1>3 DEF emit_outcome, NodeFailed, WillRetry
  <2> QED
    BY <1>3, <2>1, <2>2
<1>4. CASE result[i] # "ok" /\ ~WillRetry(i)
  <2>1. Ended("failed", attempt[i], FALSE) \in Event
    BY <1>1 DEF Event
  <2>2. log' = Append(log, Ended("failed", attempt[i], FALSE)) /\ pc'[i] = "done"
    BY <1>1, <1>4 DEF emit_outcome, NodeFailed, WillRetry
  <2> QED
    BY <1>4, <2>1, <2>2
<1> QED
  BY <1>2, <1>3, <1>4

\* The steps of execute_node around the handler, and the run loop.
LEMMA OutsideShape ==
  ASSUME Shape, NEW i \in Instances,
         emit_started(i) \/ emit_outcome(i) \/ emit_checkpoint(i) \/ next_attempt(i) \/ collect(i)
  PROVE  Shape'
<1>1. attempt[i] \in Nat /\ max_attempts \in Nat /\ WillRetry(i) \in BOOLEAN
  BY BoundsAssumption DEF Shape, TaskShape, WillRetry
<1>2. /\ log \in Seq(Event) /\ NodeStarted(i, attempt[i]) \in Event /\ NodeCompleted(i) \in Event /\ Checkpoint \in Event
      /\ LlmInvocation \in Event
  BY <1>1, EventFacts DEF Shape, NodeShape
<1>3. log' \in Seq(Event)
  <2>1. CASE emit_started(i) \/ emit_checkpoint(i)
    BY <1>2, <2>1 DEF emit_started, emit_checkpoint
  <2>4. CASE emit_outcome(i)
    <3>1. PICK e \in Event : log' = Append(log, e)
      BY <2>4, OutcomeEffects
    <3> QED
      BY <1>2, <3>1
  <2>2. CASE next_attempt(i)
    BY <1>2, <2>2 DEF next_attempt
  <2>3. CASE collect(i)
    <3>1. PICK n \in Nat : n = llm_records[i]
      BY DEF Shape, RecordShape
    <3>2. [k \in 1..n |-> LlmInvocation] \in Seq(Event)
      BY <1>2
    <3>3. log \o [k \in 1..n |-> LlmInvocation] \in Seq(Event)
      BY <1>2, <3>2
    <3> QED
      BY <2>3, <3>1, <3>3 DEF collect
  <2> QED
    BY <2>1, <2>2, <2>3, <2>4
<1>4. NodeShape'
  <2>1. UNCHANGED nodeVars
    BY DEF emit_started, emit_checkpoint, emit_outcome, next_attempt, collect
  <2> QED
    BY <1>3, <2>1 DEF Shape, NodeShape, nodeVars
<1>5. TaskShape'
  <2>1. attempt[i] < max_attempts => attempt[i] + 1 \in 1..max_attempts
    BY BoundsAssumption DEF Shape, TaskShape
  <2> QED
    BY <2>1 DEF Shape, TaskShape, emit_started, emit_checkpoint, emit_outcome, next_attempt, collect, Stages, Handling, Fin
<1>6. RecordShape'
  <2>1. llm_records[i] + channel[i] \in Nat /\ 0 \in 0..RecordCap
    BY BoundsAssumption DEF Shape, RecordShape
  <2> QED
    BY <2>1 DEF Shape, RecordShape, emit_started, emit_checkpoint, emit_outcome, next_attempt, collect, drain, llmVars
<1>7. HumanShape' /\ TurnShape'
  BY DEF Shape, HumanShape, TurnShape, emit_started, emit_checkpoint, emit_outcome, next_attempt, collect, humanVars, llmVars
<1> QED
  BY <1>4, <1>5, <1>6, <1>7 DEF Shape

\* A function on 1..n is a sequence; appending leaves what it had.
LEMMA AppendToFunction ==
  ASSUME NEW n \in Nat, NEW T, NEW q \in [1..n -> T], NEW x
  PROVE  /\ \A e \in 1..n : Append(q, x)[e] = q[e]
         /\ x \in T => Append(q, x) \in [1..(n + 1) -> T]
<1>1. q \in Seq(T) /\ Len(q) = n
  OBVIOUS
<1>2. \A e \in 1..n : Append(q, x)[e] = q[e]
  BY <1>1
<1>3. ASSUME x \in T PROVE Append(q, x) \in [1..(n + 1) -> T]
  <2>1. PICK r : r = Append(q, x)
    OBVIOUS
  <2>2. r \in Seq(T) /\ Len(r) = n + 1
    BY <1>1, <1>3, <2>1
  <2>3. r \in [1..(n + 1) -> T]
    BY <2>2
  <2> QED BY <2>1, <2>3
<1> QED BY <1>2, <1>3

\* An answer from outside and a new execution of the node keep the types.
LEMMA LoopShape ==
  ASSUME Shape, provide_input \/ execute_again
  PROVE  Shape'
<1>1. CASE provide_input
  <2>1. sender \in Instances /\ accepted + 1 \in 0..MaxInputs
    BY <1>1, BoundsAssumption DEF provide_input, Shape, HumanShape
  <2>2. HumanShape'
    BY <1>1, <2>1 DEF provide_input, Shape, HumanShape
  <2> QED
    BY <1>1, <2>2 DEF provide_input, Shape, NodeShape, TaskShape, RecordShape, TurnShape, nodeVars, taskVars, llmVars
<1>2. CASE execute_again
  <2>1. NodeShape'
    <3>1. tasks' \in FanOuts /\ Cardinality(tasks') \in Nat \ {0}
      BY <1>2, FanOutFacts DEF execute_again
    <3>2. inputs' \in [1..executions' -> [Instances -> 0..MaxMessages]]
      <4>1. PICK f \in [Instances -> 0..MaxMessages] : inputs' = Append(inputs, f)
        BY <1>2 DEF execute_again, Given
      <4>2. executions \in Nat /\ executions' = executions + 1
        BY <1>2 DEF execute_again, Shape, NodeShape
      <4> QED BY <4>1, <4>2, AppendToFunction DEF Shape, NodeShape
    <3> QED
      BY <1>2, <3>1, <3>2, BoundsAssumption DEF execute_again, Shape, NodeShape
  <2>2. TaskShape'
    BY <1>2, BoundsAssumption DEF execute_again, TaskShape, Stages
  <2>3. RecordShape' /\ HumanShape' /\ TurnShape'
    BY <1>2 DEF execute_again, Shape, HumanShape, RecordShape, TurnShape, humanVars
  <2> QED
    BY <2>1, <2>2, <2>3 DEF Shape
<1> QED
  BY <1>1, <1>2

\* The first state is well typed.
LEMMA InitShape == Init => Shape
<1> SUFFICES ASSUME Init PROVE Shape
  OBVIOUS
<1>1. NodeShape
  <2>1. Cardinality(tasks) \in Nat \ {0} /\ Cardinality(tasks) <= MaxTasks
    BY FanOutFacts DEF Init
  <2>2. inputs \in [1..executions -> [Instances -> 0..MaxMessages]]
    <3>1. PICK f \in [Instances -> 0..MaxMessages] : inputs = <<f>>
      BY DEF Init, Given
    <3> QED BY <3>1 DEF Init
  <2> QED
    BY <2>1, <2>2, BoundsAssumption DEF Init, NodeShape
<1>2. TaskShape
  BY BoundsAssumption DEF Init, TaskShape, Stages
<1>3. HumanShape /\ RecordShape /\ TurnShape
  BY BoundsAssumption DEF Init, HumanShape, RecordShape, TurnShape, Turns
<1> QED
  BY <1>1, <1>2, <1>3 DEF Shape

-----------------------------------------------------------------------------
(* What a task holds *)

TasksInv == \A i \in Instances : TaskInv(i)

\* A task that nothing happens to; its receiver may have been closed by another.
LEMMA OtherTask ==
  ASSUME NEW j \in Instances, TaskInv(j), UNCHANGED <<kind, tasks>>, pc'[j] = pc[j], attempt'[j] = attempt[j],
         result'[j] = result[j], channel'[j] = channel[j], recorded'[j] = recorded[j],
         llm_records'[j] = llm_records[j], receiver[j] = "none" => receiver'[j] = "none"
  PROVE  TaskInv(j)'
BY DEF TaskInv

\* A step of a handler keeps what is said of every task.
LEMMA HandledTasks ==
  ASSUME Shape, TasksInv, NEW i \in tasks, i \in Instances, Handled(i)
  PROVE  TasksInv'
<1>1. /\ pc[i] \in Handling /\ pc'[i] \in Handling \cup {"returned", "panicked"}
      /\ UNCHANGED <<kind, tasks, attempt, log>>
      /\ \A j \in Instances : j # i => pc'[j] = pc[j] /\ result'[j] = result[j]
  BY HandledEffects DEF nodeVars
<1>2. /\ UNCHANGED llm_records
      /\ \/ UNCHANGED <<channel, recorded>>
         \/ channel' = [channel EXCEPT ![i] = @ + 1] /\ recorded' = [recorded EXCEPT ![i] = @ + 1]
    BY DEF Handled, handler_times_out, handler_panics, record_llm_call, register_human_input, human_returns,
       llm_load, llm_complete, llm_save, llm_record, other_returns, llm_fails, llmVars
<1>3. ASSUME NEW j \in Instances, j # i PROVE TaskInv(j)'
  <2>1. receiver[j] = "none" => receiver'[j] = "none"
    BY <1>3 DEF Shape, HumanShape, Handled, handler_times_out, handler_panics, record_llm_call, register_human_input,
       human_returns, llm_load, llm_complete, llm_save, llm_record, other_returns, llm_fails, LeaveHandler, humanVars
  <2>2. channel'[j] = channel[j] /\ recorded'[j] = recorded[j] /\ llm_records'[j] = llm_records[j]
    BY <1>2, <1>3 DEF Shape, RecordShape
  <2> QED
    BY <1>1, <1>3, <2>1, <2>2, OtherTask DEF TasksInv
<1>4. TaskInv(i)'
  <2>1. llm_records'[i] + channel'[i] = recorded'[i]
    <3>1. pc[i] # "panicked"
      BY <1>1 DEF Handling
    <3>2. llm_records[i] + channel[i] = recorded[i] /\ llm_records[i] \in Nat /\ channel[i] \in Nat
      BY <3>1, BoundsAssumption DEF TasksInv, TaskInv, Shape, RecordShape
    <3> QED
      BY <1>2, <3>2 DEF Shape, RecordShape
  <2>2. receiver'[i] # "none" => pc'[i] = "wait"
    BY DEF TasksInv, TaskInv, Shape, HumanShape, TaskShape, Handled, handler_times_out, handler_panics, record_llm_call,
       register_human_input, human_returns, llm_load, llm_complete, llm_save, llm_record, other_returns, llm_fails,
       LeaveHandler, humanVars, taskVars
  <2>3. /\ pc'[i] = "wait" => kind = "human"
        /\ pc'[i] \in {"call", "save", "record"} => kind = "llm"
    BY DEF TasksInv, TaskInv, Shape, TaskShape, Handled, handler_times_out, handler_panics, record_llm_call,
       register_human_input, human_returns, llm_load, llm_complete, llm_save, llm_record, other_returns, llm_fails,
       LeaveHandler, taskVars
  <2>4. pc'[i] = "returned" => result'[i] # "none"
    <3>1. Answer(i) # "none"
      BY DEF Answer
    <3> QED
      BY <1>1, <3>1 DEF Handling, Shape, TaskShape, Handled, handler_times_out, handler_panics, record_llm_call,
         register_human_input, human_returns, llm_load, llm_complete, llm_save, llm_record, other_returns, llm_fails,
         LeaveHandler, taskVars
  <2> QED
    BY <1>1, <2>1, <2>2, <2>3, <2>4 DEF TaskInv, Handling
<1> QED
  BY <1>3, <1>4 DEF TasksInv

\* A step of the attempt loop around a handler does too.
LEMMA OutsideTasks ==
  ASSUME Shape, TasksInv, NEW i \in tasks, i \in Instances,
         emit_started(i) \/ emit_outcome(i) \/ emit_checkpoint(i) \/ next_attempt(i) \/ collect(i)
  PROVE  TasksInv'
<1> USE DEF emit_started, emit_outcome, emit_checkpoint, next_attempt, collect
<1>1. UNCHANGED <<kind, tasks, executions, spawned, result, receiver, sender, accepted, recorded, messages, conversation>>
  BY DEF nodeVars, humanVars, llmVars
<1>2. ASSUME NEW j \in Instances, j # i PROVE TaskInv(j)'
  <2>1. pc'[j] = pc[j] /\ attempt'[j] = attempt[j] /\ channel'[j] = channel[j] /\ llm_records'[j] = llm_records[j]
    BY <1>2 DEF Shape, TaskShape, RecordShape, drain, llmVars
  <2> QED
    BY <1>1, <1>2, <2>1, OtherTask DEF TasksInv
<1>3. TaskInv(i)'
  <2>1. pc[i] \in {"start", "returned", "checkpoint", "backoff", "done"} /\ pc[i] # "wait" /\ receiver'[i] = "none"
    BY <1>1 DEF TasksInv, TaskInv, Shape, HumanShape
  <2>2. pc'[i] \in {"run", "checkpoint", "backoff", "start", "done", "collected"}
    BY DEF Shape, TaskShape
  <2>3. channel'[i] = 0 /\ llm_records'[i] + channel'[i] = recorded'[i]
    <3>1. llm_records[i] \in Nat /\ channel[i] \in Nat /\ llm_records[i] + channel[i] = recorded[i]
      BY <2>1, BoundsAssumption DEF TasksInv, TaskInv, Shape, RecordShape
    <3>2. CASE emit_outcome(i)
      BY <1>1, <3>1, <3>2 DEF drain, Shape, RecordShape
    <3>3. CASE ~emit_outcome(i)
      <4>1. UNCHANGED <<channel, llm_records>> /\ pc[i] \in {"start", "checkpoint", "backoff", "done"}
        BY <3>3 DEF llmVars
      <4>2. channel[i] = 0
        BY <4>1 DEF TasksInv, TaskInv, Handling
      <4> QED
        BY <1>1, <3>1, <4>1, <4>2
    <3> QED
      BY <3>2, <3>3
  <2>4. pc'[i] = "backoff" => attempt'[i] < max_attempts
    BY <2>1, OutcomeEffects DEF Shape, TaskShape
  <2> QED
    BY <1>1, <2>1, <2>2, <2>3, <2>4 DEF TaskInv, Handling
<1> QED
  BY <1>2, <1>3 DEF TasksInv

\* So do an answer and a new execution.
LEMMA LoopTasks ==
  ASSUME Shape, TasksInv, provide_input \/ execute_again
  PROVE  TasksInv'
<1>1. CASE provide_input
  <2>1. ASSUME NEW j \in Instances PROVE receiver[j] = "none" => receiver'[j] = "none"
    BY <1>1 DEF provide_input, Shape, HumanShape
  <2> QED
    BY <1>1, <2>1, OtherTask DEF TasksInv, provide_input, nodeVars, taskVars, llmVars
<1>2. CASE execute_again
  <2>1. ASSUME NEW j \in Instances PROVE TaskInv(j)'
    <3>1. pc[j] \in {"collected", "absent"}
      BY <1>2 DEF execute_again, TasksInv, TaskInv
    <3>2. receiver[j] = "none" /\ channel[j] = 0
      BY <3>1 DEF TasksInv, TaskInv, Handling
    <3>3. /\ pc'[j] = IF j \in tasks' THEN "start" ELSE "absent"
          /\ attempt'[j] = 1 /\ recorded'[j] = 0 /\ llm_records'[j] = 0 /\ UNCHANGED <<kind, receiver, channel>>
      BY <1>2 DEF execute_again, humanVars
    <3> QED
      BY <3>2, <3>3 DEF TaskInv
  <2> QED
    BY <2>1 DEF TasksInv
<1> QED
  BY <1>1, <1>2

\* And it holds at the start.
LEMMA InitTasks == Init => TasksInv
<1> SUFFICES ASSUME Init, NEW i \in Instances PROVE TaskInv(i)
  BY DEF TasksInv
<1> QED
  BY BoundsAssumption DEF Init, TaskInv

-----------------------------------------------------------------------------
(* Counting *)

One(b) == IF b THEN 1 ELSE 0

\* Events of a kind in a log can be counted.
LEMMA CountFinite ==
  ASSUME NEW l \in Seq(Event), NEW S
  PROVE  IsFiniteSet(Events(l, S)) /\ Number(l, S) \in Nat
<1>1. IsFiniteSet(1..Len(l))
  BY FS_Interval
<1>2. Events(l, S) \subseteq 1..Len(l)
  BY DEF Events
<1>3. IsFiniteSet(Events(l, S))
  BY <1>1, <1>2, FS_Subset
<1> QED
  BY <1>3, FS_CardinalityType DEF Number

\* One more event counts where it belongs.
LEMMA CountAppend ==
  ASSUME NEW l \in Seq(Event), NEW e \in Event, NEW S
  PROVE  Number(Append(l, e), S) = Number(l, S) + One(e \in S)
<1>1. /\ Len(Append(l, e)) = Len(l) + 1 /\ Len(l) \in Nat /\ Append(l, e)[Len(l) + 1] = e
      /\ \A k \in 1..Len(l) : Append(l, e)[k] = l[k]
  OBVIOUS
<1>2. IsFiniteSet(Events(l, S)) /\ Len(l) + 1 \notin Events(l, S) /\ Number(l, S) \in Nat
  BY <1>1, CountFinite DEF Events
<1>3. CASE e \in S
  <2>1. Events(Append(l, e), S) = Events(l, S) \cup {Len(l) + 1}
    BY <1>1, <1>3 DEF Events
  <2> QED
    BY <1>2, <1>3, <2>1, FS_AddElement DEF Number, One
<1>4. CASE e \notin S
  <2>1. Events(Append(l, e), S) = Events(l, S)
    BY <1>1, <1>4 DEF Events
  <2> QED
    BY <1>2, <1>4, <2>1 DEF Number, One
<1> QED
  BY <1>3, <1>4

\* Events of another sort do not count.
LEMMA CountConcat ==
  ASSUME NEW l \in Seq(Event), NEW q \in Seq(Event), NEW S, \A k \in 1..Len(q) : q[k] \notin S
  PROVE  Number(l \o q, S) = Number(l, S)
<1>1. /\ Len(l \o q) = Len(l) + Len(q) /\ Len(l) \in Nat /\ Len(q) \in Nat
      /\ \A k \in 1..Len(l) : (l \o q)[k] = l[k]
      /\ \A k \in 1..Len(q) : (l \o q)[Len(l) + k] = q[k]
  OBVIOUS
<1>2. ASSUME NEW k \in 1..Len(l \o q), k \notin 1..Len(l) PROVE (l \o q)[k] \notin S
  <2>1. k - Len(l) \in 1..Len(q) /\ k = Len(l) + (k - Len(l))
    BY <1>1, <1>2
  <2> QED
    BY <1>1, <2>1
<1>3. Events(l \o q, S) = Events(l, S)
  BY <1>1, <1>2 DEF Events
<1> QED
  BY <1>3 DEF Number

\* A set that changes in one element.
LEMMA OneMoves ==
  ASSUME NEW A, NEW B, NEW i, IsFiniteSet(A), A \ {i} = B \ {i}
  PROVE  /\ IsFiniteSet(B) /\ Cardinality(A) \in Nat /\ Cardinality(B) \in Nat
         /\ Cardinality(B) + One(i \in A) = Cardinality(A) + One(i \in B)
<1>1. PICK R : R = A \ {i}
  OBVIOUS
<1>2. IsFiniteSet(R) /\ i \notin R /\ Cardinality(R) \in Nat
  BY <1>1, FS_Subset, FS_CardinalityType
<1>3. IsFiniteSet(R \cup {i}) /\ Cardinality(R \cup {i}) = Cardinality(R) + 1
  BY <1>2, FS_AddElement
<1>4. A = IF i \in A THEN R \cup {i} ELSE R
  BY <1>1
<1>5. B = IF i \in B THEN R \cup {i} ELSE R
  BY <1>1
<1>6. IsFiniteSet(A) /\ Cardinality(A) = Cardinality(R) + One(i \in A)
  BY <1>2, <1>3, <1>4 DEF One
<1>7. IsFiniteSet(B) /\ Cardinality(B) = Cardinality(R) + One(i \in B)
  BY <1>2, <1>3, <1>5 DEF One
<1>8. One(i \in A) \in Nat /\ One(i \in B) \in Nat
  BY DEF One
<1> QED
  BY <1>2, <1>6, <1>7, <1>8

\* The sets of tasks are finite.
LEMMA TaskSets ==
  ASSUME Shape
  PROVE  /\ tasks \subseteq Instances /\ (\A k : IsFiniteSet(Due(k)) /\ Cardinality(Due(k)) \in Nat)
         /\ IsFiniteSet(Busy) /\ Cardinality(Busy) \in Nat /\ IsFiniteSet(Answered) /\ Cardinality(Answered) \in Nat
<1>1. IsFiniteSet(tasks) /\ tasks \subseteq Instances
  BY FanOutFacts DEF Shape, NodeShape
<1>2. (\A k : Due(k) \subseteq tasks) /\ Busy \subseteq tasks /\ Answered \subseteq tasks
  BY DEF Due, Busy, Answered
<1> QED
  BY <1>1, <1>2, FS_Subset, FS_CardinalityType

\* Event e of task i is booked on both sides.
DueBalance(i, e, k) ==
  One(e \in AnnouncedAt(k)) + One(DueTask(i, k)) = One(e \in StartedAt(k + 1)) + One(DueTask(i, k)')
BusyBalance(i, e) == One(e \in StartedAt(1)) + One(BusyTask(i)) = One(e \in SettledEvents) + One(BusyTask(i)')

\* What comes in and what goes out balance.
LEMMA Balance ==
  ASSUME NEW x \in Nat, NEW y \in Nat, NEW c \in Nat, NEW d \in Nat, NEW in \in Nat, NEW out \in Nat,
         NEW old \in Nat, NEW new \in Nat, x = y + c, in + old = out + new, d + old = c + new
  PROVE  x + in = y + out + d
OBVIOUS

\* The books after a step of task i that logs e.
LEMMA Booked ==
  ASSUME Shape, BooksInv, NEW i \in tasks, UNCHANGED tasks, NEW e \in Event, log' = Append(log, e),
         \A j \in Instances : j # i => pc'[j] = pc[j] /\ attempt'[j] = attempt[j],
         \A k \in 1..max_attempts : DueBalance(i, e, k), BusyBalance(i, e)
  PROVE  BooksInv'
<1>1. log \in Seq(Event) /\ tasks \subseteq Instances
  BY TaskSets DEF Shape, NodeShape
<1>0. \A b : One(b) \in Nat
  BY DEF One
<1>2. ASSUME NEW k \in 1..max_attempts
      PROVE  (Number(log, AnnouncedAt(k)) = Number(log, StartedAt(k + 1)) + Cardinality(Due(k)))'
  <2>1. Due(k) \ {i} = Due(k)' \ {i}
    BY <1>1 DEF Due, DueTask
  <2>2. (i \in Due(k) <=> DueTask(i, k)) /\ (i \in Due(k)' <=> DueTask(i, k)')
    BY DEF Due
  <2>3. PICK D : D = Due(k)'
    OBVIOUS
  <2>4. /\ Cardinality(Due(k)) \in Nat /\ Cardinality(D) \in Nat
        /\ Cardinality(D) + One(i \in Due(k)) = Cardinality(Due(k)) + One(i \in D)
    <3>1. PICK A : A = Due(k)
      OBVIOUS
    <3>2. IsFiniteSet(A) /\ A \ {i} = D \ {i}
      BY <2>1, <2>3, <3>1, TaskSets
    <3> QED
      BY <3>1, <3>2, OneMoves
  <2>5. Cardinality(D) + One(DueTask(i, k)) = Cardinality(Due(k)) + One(DueTask(i, k)')
    BY <2>2, <2>3, <2>4 DEF One
  <2>6. /\ Number(log', AnnouncedAt(k)) = Number(log, AnnouncedAt(k)) + One(e \in AnnouncedAt(k))
        /\ Number(log', StartedAt(k + 1)) = Number(log, StartedAt(k + 1)) + One(e \in StartedAt(k + 1))
    BY <1>1, CountAppend
  <2>7. Number(log, AnnouncedAt(k)) \in Nat /\ Number(log, StartedAt(k + 1)) \in Nat
    BY <1>1, CountFinite
  <2>8. Number(log, AnnouncedAt(k)) = Number(log, StartedAt(k + 1)) + Cardinality(Due(k))
    BY DEF BooksInv
  <2>9. Number(log', AnnouncedAt(k)) = Number(log', StartedAt(k + 1)) + Cardinality(D)
    <3>1. PICK an \in Nat : an = One(e \in AnnouncedAt(k))
      BY <1>0
    <3>2. PICK st \in Nat : st = One(e \in StartedAt(k + 1))
      BY <1>0
    <3>3. PICK old \in Nat : old = One(DueTask(i, k))
      BY <1>0
    <3>4. PICK new \in Nat : new = One(DueTask(i, k)')
      BY <1>0
    <3>5. an + old = st + new
      <4>1. DueBalance(i, e, k)
        OBVIOUS
      <4> QED
        BY <3>1, <3>2, <3>3, <3>4, <4>1 DEF DueBalance
    <3>6. Cardinality(D) + old = Cardinality(Due(k)) + new
      BY <2>5, <3>3, <3>4
    <3>7. Number(log', AnnouncedAt(k)) = Number(log, AnnouncedAt(k)) + an
      BY <2>6, <3>1
    <3>8. Number(log', StartedAt(k + 1)) = Number(log, StartedAt(k + 1)) + st
      BY <2>6, <3>2
    <3>9. PICK c \in Nat : c = Cardinality(Due(k))
      BY <2>4
    <3>10. PICK d \in Nat : d = Cardinality(D)
      BY <2>4
    <3>11. PICK x \in Nat : x = Number(log, AnnouncedAt(k))
      BY <2>7
    <3>12. PICK y \in Nat : y = Number(log, StartedAt(k + 1))
      BY <2>7
    <3>13. x = y + c /\ d + old = c + new
      BY <2>8, <3>6, <3>9, <3>10, <3>11, <3>12
    <3>14. x + an = y + st + d
      BY <3>5, <3>13, Balance
    <3> QED
      BY <3>7, <3>8, <3>10, <3>11, <3>12, <3>14
  <2> QED
    BY <2>3, <2>9 DEF AnnouncedAt, StartedAt
<1>3. (Number(log, StartedAt(1)) = Number(log, SettledEvents) + Cardinality(Busy))'
  <2>1. Busy \ {i} = Busy' \ {i}
    BY <1>1 DEF Busy, BusyTask
  <2>2. (i \in Busy <=> BusyTask(i)) /\ (i \in Busy' <=> BusyTask(i)')
    BY DEF Busy
  <2>3. PICK D : D = Busy'
    OBVIOUS
  <2>4. /\ Cardinality(Busy) \in Nat /\ Cardinality(D) \in Nat
        /\ Cardinality(D) + One(i \in Busy) = Cardinality(Busy) + One(i \in D)
    BY <2>1, <2>3, OneMoves, TaskSets
  <2>5. Cardinality(D) + One(BusyTask(i)) = Cardinality(Busy) + One(BusyTask(i)')
    BY <2>2, <2>3, <2>4 DEF One
  <2>6. /\ Number(log', StartedAt(1)) = Number(log, StartedAt(1)) + One(e \in StartedAt(1))
        /\ Number(log', SettledEvents) = Number(log, SettledEvents) + One(e \in SettledEvents)
    BY <1>1, CountAppend
  <2>7. Number(log, StartedAt(1)) \in Nat /\ Number(log, SettledEvents) \in Nat
    BY <1>1, CountFinite
  <2>8. Number(log, StartedAt(1)) = Number(log, SettledEvents) + Cardinality(Busy)
    BY DEF BooksInv
  <2>9. Number(log', StartedAt(1)) = Number(log', SettledEvents) + Cardinality(D)
    <3>1. PICK st \in Nat : st = One(e \in StartedAt(1))
      BY <1>0
    <3>2. PICK en \in Nat : en = One(e \in SettledEvents)
      BY <1>0
    <3>3. PICK old \in Nat : old = One(BusyTask(i))
      BY <1>0
    <3>4. PICK new \in Nat : new = One(BusyTask(i)')
      BY <1>0
    <3>5. st + old = en + new
      BY <3>1, <3>2, <3>3, <3>4 DEF BusyBalance
    <3>6. Cardinality(D) + old = Cardinality(Busy) + new
      BY <2>5, <3>3, <3>4
    <3>7. Number(log', StartedAt(1)) = Number(log, StartedAt(1)) + st
      BY <2>6, <3>1
    <3>8. Number(log', SettledEvents) = Number(log, SettledEvents) + en
      BY <2>6, <3>2
    <3>9. PICK c \in Nat : c = Cardinality(Busy)
      BY <2>4
    <3>10. PICK d \in Nat : d = Cardinality(D)
      BY <2>4
    <3>11. PICK x \in Nat : x = Number(log, StartedAt(1))
      BY <2>7
    <3>12. PICK y \in Nat : y = Number(log, SettledEvents)
      BY <2>7
    <3>13. x = y + c /\ d + old = c + new
      BY <2>8, <3>6, <3>9, <3>10, <3>11, <3>12
    <3>14. x + st = y + en + d
      BY <3>5, <3>13, Balance
    <3> QED
      BY <3>7, <3>8, <3>10, <3>11, <3>12, <3>14
  <2> QED
    BY <2>3, <2>9 DEF StartedAt, SettledEvents
<1> QED
  BY <1>2, <1>3 DEF BooksInv

\* The books after a step of task i that logs nothing they count.
LEMMA NotBooked ==
  ASSUME Shape, BooksInv, NEW i \in tasks, UNCHANGED tasks,
         \A j \in Instances : j # i => pc'[j] = pc[j] /\ attempt'[j] = attempt[j],
         \A k \in 1..max_attempts : /\ DueTask(i, k)' <=> DueTask(i, k)
                                    /\ Number(log', AnnouncedAt(k)) = Number(log, AnnouncedAt(k))
                                    /\ Number(log', StartedAt(k + 1)) = Number(log, StartedAt(k + 1)),
         BusyTask(i)' <=> BusyTask(i), Number(log', StartedAt(1)) = Number(log, StartedAt(1)),
         Number(log', SettledEvents) = Number(log, SettledEvents)
  PROVE  BooksInv'
<1>1. tasks \subseteq Instances
  BY TaskSets
<1>2. ASSUME NEW k \in 1..max_attempts PROVE Due(k)' = Due(k)
  BY <1>1 DEF Due, DueTask
<1>3. Busy' = Busy
  BY <1>1 DEF Busy, BusyTask
<1>4. ASSUME NEW k \in 1..max_attempts
      PROVE  (Number(log, AnnouncedAt(k)) = Number(log, StartedAt(k + 1)) + Cardinality(Due(k)))'
  BY <1>2 DEF BooksInv, AnnouncedAt, StartedAt
<1>5. (Number(log, StartedAt(1)) = Number(log, SettledEvents) + Cardinality(Busy))'
  BY <1>3 DEF BooksInv, StartedAt, SettledEvents
<1> QED
  BY <1>4, <1>5 DEF BooksInv

\* A handler writes nothing to the log, and what the log owes is unchanged.
LEMMA HandledBooks ==
  ASSUME Shape, BooksInv, NEW i \in tasks, Handled(i)
  PROVE  BooksInv'
<1>1. i \in Instances
  BY TaskSets
<1>2. /\ pc[i] \in Handling /\ pc'[i] \in Handling \cup {"returned", "panicked"} /\ UNCHANGED <<tasks, log, attempt>>
      /\ \A j \in Instances : j # i => pc'[j] = pc[j]
  BY <1>1, HandledEffects DEF nodeVars
<1>3. \A k \in 1..max_attempts : ~DueTask(i, k) /\ ~DueTask(i, k)'
  BY <1>2 DEF DueTask, Handling
<1>4. BusyTask(i) /\ BusyTask(i)'
  BY <1>2 DEF BusyTask
<1> QED
  BY <1>2, <1>3, <1>4, NotBooked

\* The records of LLM calls count for nothing here.
LEMMA LlmEvents ==
  ASSUME Shape, NEW n \in Nat, NEW S, LlmInvocation \notin S
  PROVE  Number(log \o [k \in 1..n |-> LlmInvocation], S) = Number(log, S)
<1>1. PICK q : q = [k \in 1..n |-> LlmInvocation]
  OBVIOUS
<1>2. q \in Seq(Event) /\ \A k \in 1..Len(q) : q[k] = LlmInvocation
  <2>1. LlmInvocation \in Event
    BY FanOutFacts DEF LlmInvocation, Event
  <2> QED
    BY <1>1, <2>1
<1>3. log \in Seq(Event)
  BY DEF Shape, NodeShape
<1>4. Number(log \o q, S) = Number(log, S)
  BY <1>2, <1>3, CountConcat
<1> QED
  BY <1>1, <1>4

\* Each event of the attempt loop is written when it is due and is then no longer due.
LEMMA OutsideBooks ==
  ASSUME Shape, TasksInv, BooksInv, NEW i \in tasks,
         emit_started(i) \/ emit_outcome(i) \/ emit_checkpoint(i) \/ next_attempt(i) \/ collect(i)
  PROVE  BooksInv'
<1>1. i \in Instances /\ attempt[i] \in 1..max_attempts /\ max_attempts \in Nat /\ tasks' = tasks
  BY TaskSets, BoundsAssumption DEF Shape, TaskShape, emit_started, emit_outcome, emit_checkpoint, next_attempt, collect, nodeVars
<1>2. \A j \in Instances : j # i => pc'[j] = pc[j] /\ attempt'[j] = attempt[j]
  BY <1>1 DEF Shape, TaskShape, emit_started, emit_outcome, emit_checkpoint, next_attempt, collect
<1>3. CASE emit_started(i)
  <2>1. PICK e : e = NodeStarted(i, attempt[i])
    OBVIOUS
  <2>2. e \in Event /\ e.ev = "started" /\ e.attempt = attempt[i]
    BY <1>1, <2>1 DEF NodeStarted, Event
  <2>3. log' = Append(log, e) /\ pc[i] = "start" /\ pc'[i] = "run" /\ attempt'[i] = attempt[i]
    BY <1>1, <1>3, <2>1 DEF emit_started, Shape, TaskShape
  <2>4. ASSUME NEW k \in 1..max_attempts
        PROVE DueBalance(i, e, k)
    <3>1. e \notin AnnouncedAt(k) /\ ~DueTask(i, k)' /\ (DueTask(i, k) <=> e \in StartedAt(k + 1))
      BY <2>2, <2>3 DEF AnnouncedAt, StartedAt, DueTask
    <3> QED
      BY <3>1 DEF One, DueBalance, BusyBalance
  <2>5. BusyBalance(i, e)
    <3>1. e \notin SettledEvents /\ BusyTask(i)' /\ (BusyTask(i) <=> ~(e \in StartedAt(1)))
      BY <1>1, <2>2, <2>3 DEF SettledEvents, StartedAt, BusyTask, Handling
    <3> QED
      BY <3>1 DEF One, DueBalance, BusyBalance
  <2> QED
    BY <1>1, <1>2, <2>2, <2>3, <2>4, <2>5, Booked
<1>4. CASE emit_outcome(i)
  <2>1. PICK e \in Event :
           /\ log' = Append(log, e)
           /\ \/ /\ e.ev = "completed" /\ e.index = i /\ e.attempt = 0 /\ ~e.will_retry
                 /\ pc'[i] = "checkpoint" /\ result[i] = "ok"
              \/ /\ e.ev = "failed" /\ e.index = 0 /\ e.attempt = attempt[i] /\ e.will_retry
                 /\ pc'[i] = "backoff" /\ attempt[i] < max_attempts /\ result[i] = "retryable"
              \/ /\ e.ev = "failed" /\ e.index = 0 /\ e.attempt = attempt[i] /\ ~e.will_retry
                 /\ pc'[i] = "done" /\ result[i] # "ok"
    BY <1>1, <1>4, OutcomeEffects
  <2>2. pc[i] = "returned" /\ attempt'[i] = attempt[i]
    BY <1>4 DEF emit_outcome
  <2>3. ASSUME NEW k \in 1..max_attempts
        PROVE DueBalance(i, e, k)
    <3>1. e \notin StartedAt(k + 1) /\ ~DueTask(i, k) /\ (DueTask(i, k)' <=> e \in AnnouncedAt(k))
      BY <2>1, <2>2 DEF AnnouncedAt, StartedAt, DueTask
    <3> QED
      BY <3>1 DEF One, DueBalance, BusyBalance
  <2>4. BusyBalance(i, e)
    <3>1. e \notin StartedAt(1) /\ BusyTask(i) /\ (BusyTask(i)' <=> ~(e \in SettledEvents))
      BY <2>1, <2>2 DEF SettledEvents, StartedAt, BusyTask, Handling
    <3> QED
      BY <3>1 DEF One, DueBalance, BusyBalance
  <2> QED
    BY <1>1, <1>2, <2>1, <2>3, <2>4, Booked
<1>5. CASE emit_checkpoint(i)
  <2>1. PICK e : e = Checkpoint
    OBVIOUS
  <2>2. e \in Event /\ e.ev = "checkpoint"
    BY <2>1, FanOutFacts DEF Checkpoint, Event
  <2>3. log' = Append(log, e) /\ pc[i] = "checkpoint" /\ pc'[i] = "done"
    BY <1>1, <1>5, <2>1 DEF emit_checkpoint, Shape, TaskShape
  <2>4. ASSUME NEW k \in 1..max_attempts
        PROVE DueBalance(i, e, k)
    BY <2>2, <2>3 DEF AnnouncedAt, StartedAt, DueTask, One, DueBalance
  <2>5. BusyBalance(i, e)
    BY <2>2, <2>3 DEF SettledEvents, StartedAt, BusyTask, Handling, One, BusyBalance
  <2> QED
    BY <1>1, <1>2, <2>2, <2>3, <2>4, <2>5, Booked
<1>6. CASE next_attempt(i)
  <2>1. pc[i] = "backoff" /\ attempt[i] < max_attempts
    BY <1>1, <1>6 DEF next_attempt, TasksInv, TaskInv
  <2>2. pc'[i] = "start" /\ attempt'[i] = attempt[i] + 1 /\ log' = log
    BY <1>1, <1>6, <2>1 DEF next_attempt, Shape, TaskShape
  <2>3. \A k \in 1..max_attempts : DueTask(i, k)' <=> DueTask(i, k)
    BY <1>1, <2>1, <2>2 DEF DueTask
  <2>4. BusyTask(i) /\ BusyTask(i)'
    BY <1>1, <2>1, <2>2 DEF BusyTask
  <2> QED
    BY <1>1, <1>2, <2>2, <2>3, <2>4, NotBooked
<1>7. CASE collect(i)
  <2>1. PICK n \in Nat : n = llm_records[i]
    BY <1>1 DEF Shape, RecordShape
  <2>2. log' = log \o [k \in 1..n |-> LlmInvocation] /\ pc[i] = "done" /\ pc'[i] = "collected"
    BY <1>1, <1>7, <2>1 DEF collect, Shape, TaskShape
  <2>3. /\ \A k : LlmInvocation \notin AnnouncedAt(k) /\ LlmInvocation \notin StartedAt(k)
        /\ LlmInvocation \notin SettledEvents
    BY DEF LlmInvocation, AnnouncedAt, StartedAt, SettledEvents
  <2>4. /\ \A k : Number(log', AnnouncedAt(k)) = Number(log, AnnouncedAt(k))
        /\ \A k : Number(log', StartedAt(k)) = Number(log, StartedAt(k))
        /\ Number(log', SettledEvents) = Number(log, SettledEvents)
    BY <2>2, <2>3, LlmEvents
  <2>5. (\A k \in 1..max_attempts : ~DueTask(i, k)' /\ ~DueTask(i, k)) /\ ~BusyTask(i) /\ ~BusyTask(i)'
    BY <2>2 DEF DueTask, BusyTask, Handling
  <2> QED
    BY <1>1, <1>2, <2>4, <2>5, NotBooked
<1> QED
  BY <1>3, <1>4, <1>5, <1>6, <1>7

\* A cycle starts the node again when every task is settled.
LEMMA LoopBooks ==
  ASSUME Shape, TasksInv, BooksInv, provide_input \/ execute_again
  PROVE  BooksInv'
<1>1. CASE provide_input
  BY <1>1 DEF provide_input, BooksInv, Due, DueTask, Busy, BusyTask, nodeVars, taskVars
<1>2. CASE execute_again
  <2>1. tasks \subseteq Instances /\ tasks' \subseteq Instances /\ log' = log
    BY <1>2, TaskSets, FanOutFacts DEF execute_again
  <2>2. ASSUME NEW k \in 1..max_attempts PROVE Due(k) = {} /\ Due(k)' = {}
    BY <1>2, <2>1 DEF execute_again, Due, DueTask
  <2>3. Busy = {} /\ Busy' = {}
    BY <1>2, <2>1 DEF execute_again, Busy, BusyTask, Handling
  <2>4. ASSUME NEW k \in 1..max_attempts
        PROVE  (Number(log, AnnouncedAt(k)) = Number(log, StartedAt(k + 1)) + Cardinality(Due(k)))'
    BY <2>1, <2>2 DEF BooksInv, AnnouncedAt, StartedAt
  <2>5. (Number(log, StartedAt(1)) = Number(log, SettledEvents) + Cardinality(Busy))'
    BY <2>1, <2>3 DEF BooksInv, StartedAt, SettledEvents
  <2> QED
    BY <2>4, <2>5 DEF BooksInv
<1> QED
  BY <1>1, <1>2

\* An empty log owes nothing.
LEMMA InitBooks == Init => BooksInv
<1> SUFFICES ASSUME Init PROVE BooksInv
  OBVIOUS
<1>1. tasks \subseteq Instances /\ log = <<>>
  BY FanOutFacts DEF Init
<1>2. \A S : Number(log, S) = 0
  <2>1. \A S : Events(log, S) = {}
    BY <1>1 DEF Events
  <2> QED
    BY <2>1, FS_EmptySet DEF Number
<1>3. Busy = {} /\ \A k \in 1..max_attempts : Due(k) = {}
  BY <1>1 DEF Init, Busy, BusyTask, Due, DueTask, Handling
<1> QED
  BY <1>2, <1>3, FS_EmptySet DEF BooksInv

-----------------------------------------------------------------------------
(* Human input *)

\* Fewer tasks hold an answer, and nothing was completed.
LEMMA FewerAnswered ==
  ASSUME Shape, HumanInv, kind' = kind, accepted' = accepted, tasks' = tasks,
         Number(log', CompletedEvents) = Number(log, CompletedEvents),
         kind = "human" => \A j \in tasks : AnsweredTask(j)' => AnsweredTask(j)
  PROVE  HumanInv'
<1>1. SUFFICES ASSUME kind = "human"
               PROVE  (Number(log, CompletedEvents) + Cardinality(Answered) <= accepted)'
  BY DEF HumanInv
<1>2. PICK A : A = Answered'
  OBVIOUS
<1>3. A \subseteq Answered
  BY <1>1, <1>2 DEF Answered
<1>4. Cardinality(A) \in Nat /\ Cardinality(A) <= Cardinality(Answered) /\ Cardinality(Answered) \in Nat
  BY <1>3, TaskSets, FS_Subset, FS_CardinalityType
<1>5. Number(log, CompletedEvents) \in Nat /\ accepted \in Nat
  BY CountFinite, BoundsAssumption DEF Shape, NodeShape, HumanShape
<1>6. Number(log, CompletedEvents) + Cardinality(Answered) <= accepted
  BY <1>1 DEF HumanInv
<1>7. Number(log', CompletedEvents) + Cardinality(A) <= accepted'
  BY <1>4, <1>5, <1>6
<1> QED
  BY <1>2, <1>7 DEF CompletedEvents

\* A handler turns an answer into a result; the answers handed out stay within the ones accepted.
LEMMA HandledHuman ==
  ASSUME Shape, TasksInv, HumanInv, NEW i \in tasks, Handled(i)
  PROVE  HumanInv'
<1>1. tasks \subseteq Instances /\ i \in Instances
  BY TaskSets
<1>2. /\ UNCHANGED <<kind, tasks, log, accepted>> /\ pc[i] \in Handling
      /\ \A j \in Instances : j # i => pc'[j] = pc[j] /\ result'[j] = result[j]
  BY <1>1, HandledEffects DEF nodeVars
<1>3. ASSUME kind = "human", NEW j \in tasks, j # i, AnsweredTask(j)' PROVE AnsweredTask(j)
  <2>1. receiver'[j] = "value" => receiver[j] = "value"
    BY <1>1, <1>3 DEF Shape, HumanShape, Handled, handler_times_out, handler_panics, record_llm_call, register_human_input,
       human_returns, llm_load, llm_complete, llm_save, llm_record, other_returns, llm_fails, LeaveHandler, humanVars
  <2> QED
    BY <1>1, <1>2, <1>3, <2>1 DEF AnsweredTask
<1>4. ASSUME kind = "human", AnsweredTask(i)' PROVE AnsweredTask(i)
  <2>1. receiver'[i] = "value" => receiver[i] = "value"
    BY <1>1, <1>4 DEF Shape, HumanShape, Handled, handler_times_out, handler_panics, record_llm_call, register_human_input,
       human_returns, llm_load, llm_complete, llm_save, llm_record, other_returns, llm_fails, LeaveHandler, humanVars
  <2>2. pc'[i] = "returned" /\ result'[i] = "ok" => receiver[i] = "value"
    <3>1. pc[i] \notin {"call", "save", "record"} /\ pc[i] # "returned"
      BY <1>1, <1>2, <1>4 DEF TasksInv, TaskInv, Handling
    <3> QED
      BY <1>1, <1>2, <1>4, <3>1 DEF Shape, TaskShape, Handled, handler_times_out, handler_panics, record_llm_call, register_human_input,
       human_returns, llm_load, llm_complete, llm_save, llm_record, other_returns, llm_fails, LeaveHandler, taskVars, Answer
  <2> QED
    BY <1>4, <2>1, <2>2 DEF AnsweredTask
<1> QED
  BY <1>2, <1>3, <1>4, FewerAnswered

\* The attempt loop turns the result into a completion in the log.
LEMMA OutsideHuman ==
  ASSUME Shape, TasksInv, HumanInv, NEW i \in tasks,
         emit_started(i) \/ emit_outcome(i) \/ emit_checkpoint(i) \/ next_attempt(i) \/ collect(i)
  PROVE  HumanInv'
<1> USE DEF emit_started, emit_outcome, emit_checkpoint, next_attempt, collect
<1>1. tasks \subseteq Instances /\ i \in Instances /\ log \in Seq(Event)
  BY TaskSets DEF Shape, NodeShape
<1>2. /\ UNCHANGED <<kind, tasks, result, receiver, accepted>> /\ pc'[i] # "returned"
      /\ \A j \in Instances : j # i => pc'[j] = pc[j]
  BY <1>1 DEF Shape, TaskShape, nodeVars, humanVars
<1>3. receiver[i] = "none"
  BY <1>1 DEF TasksInv, TaskInv, Shape, HumanShape
<1>4. ASSUME NEW j \in tasks, AnsweredTask(j)' PROVE AnsweredTask(j) /\ j # i
  BY <1>1, <1>2, <1>3, <1>4 DEF AnsweredTask
<1>5. CASE emit_outcome(i) /\ result[i] = "ok"
  <2>1. PICK e \in Event : log' = Append(log, e) /\ e.ev = "completed"
    BY <1>1, <1>5, OutcomeEffects
  <2>2. Number(log', CompletedEvents) = Number(log, CompletedEvents) + 1
    <3>1. e \in CompletedEvents
      BY <2>1 DEF CompletedEvents
    <3> QED
      BY <1>1, <2>1, <3>1, CountAppend DEF One
  <2>3. PICK A : A = Answered'
    OBVIOUS
  <2>4. A \subseteq Answered \ {i} /\ i \in Answered
    BY <1>2, <1>4, <1>5, <2>3 DEF Answered, AnsweredTask
  <2>5. /\ Cardinality(Answered \ {i}) = Cardinality(Answered) - 1 /\ Cardinality(Answered) \in Nat
        /\ IsFiniteSet(Answered \ {i})
    BY <2>4, TaskSets, FS_RemoveElement
  <2>6. Cardinality(A) \in Nat /\ Cardinality(A) <= Cardinality(Answered) - 1
    BY <2>4, <2>5, FS_Subset, FS_CardinalityType
  <2>7. Number(log, CompletedEvents) \in Nat /\ accepted \in Nat
    BY <1>1, CountFinite, BoundsAssumption DEF Shape, HumanShape
  <2>8. kind = "human" => Number(log', CompletedEvents) + Cardinality(A) <= accepted
    BY <2>2, <2>5, <2>6, <2>7 DEF HumanInv
  <2> QED
    BY <1>2, <2>3, <2>8 DEF HumanInv, CompletedEvents
<1>6. CASE ~(emit_outcome(i) /\ result[i] = "ok")
  <2>1. Number(log', CompletedEvents) = Number(log, CompletedEvents)
    <3>1. CASE emit_outcome(i) \/ emit_started(i) \/ emit_checkpoint(i)
      <4>1. \E e \in Event : log' = Append(log, e) /\ e.ev # "completed"
        <5>1. CASE emit_outcome(i)
          BY <1>1, <1>6, <5>1, OutcomeEffects
        <5>2. CASE emit_started(i)
          <6>1. NodeStarted(i, attempt[i]) \in Event /\ NodeStarted(i, attempt[i]).ev # "completed"
            BY <1>1, BoundsAssumption DEF NodeStarted, Event, Shape, TaskShape
          <6> QED
            BY <5>2, <6>1
        <5>3. CASE emit_checkpoint(i)
          <6>1. Checkpoint \in Event /\ Checkpoint.ev # "completed"
            BY FanOutFacts DEF Checkpoint, Event
          <6> QED
            BY <5>3, <6>1
        <5> QED
          BY <3>1, <5>1, <5>2, <5>3
      <4>2. PICK e \in Event : log' = Append(log, e) /\ e.ev # "completed"
        BY <4>1
      <4>3. e \notin CompletedEvents
        BY <4>2 DEF CompletedEvents
      <4> QED
        BY <1>1, <4>2, <4>3, CountAppend, CountFinite DEF One
    <3>2. CASE next_attempt(i)
      BY <3>2
    <3>3. CASE collect(i)
      <4>1. PICK n \in Nat : n = llm_records[i]
        BY <1>1 DEF Shape, RecordShape
      <4>2. log' = log \o [k \in 1..n |-> LlmInvocation] /\ LlmInvocation \notin CompletedEvents
        BY <3>3, <4>1 DEF LlmInvocation, CompletedEvents
      <4> QED
        BY <4>2, LlmEvents
    <3> QED
      BY <3>1, <3>2, <3>3
  <2> QED
    BY <1>2, <1>4, <2>1, FewerAnswered
<1> QED
  BY <1>5, <1>6

\* An accepted answer goes to one registration; a new execution starts without.
LEMMA LoopHuman ==
  ASSUME Shape, TasksInv, HumanInv, provide_input \/ execute_again
  PROVE  HumanInv'
<1>1. Number(log, CompletedEvents) \in Nat /\ accepted \in Nat /\ tasks \subseteq Instances /\ Cardinality(Answered) \in Nat
  BY CountFinite, BoundsAssumption, TaskSets DEF Shape, HumanShape, NodeShape
<1>2. CASE provide_input /\ accepted' = accepted + 1
  <2>1. PICK i \in Instances : i = sender
    BY <1>2 DEF provide_input, Shape, HumanShape
  <2>2. /\ UNCHANGED <<kind, tasks, pc, result, log>>
        /\ \A j \in Instances : j # i => receiver'[j] = receiver[j]
    BY <1>2, <2>1 DEF provide_input, Shape, HumanShape, nodeVars, taskVars
  <2>3. PICK A : A = Answered'
    OBVIOUS
  <2>4. A \ {i} = Answered \ {i}
    BY <1>1, <2>2, <2>3 DEF Answered, AnsweredTask
  <2>5. A \subseteq Answered \cup {i}
    BY <2>4
  <2>6. /\ IsFiniteSet(Answered \cup {i}) /\ Cardinality(Answered \cup {i}) <= Cardinality(Answered) + 1
        /\ Cardinality(Answered \cup {i}) \in Nat
    <3>1. PICK B : B = Answered
      OBVIOUS
    <3>2. IsFiniteSet(B) /\ Cardinality(B) \in Nat
      BY <3>1, TaskSets
    <3>3. CASE i \in B
      <4>1. B \cup {i} = B
        BY <3>3
      <4>2. IsFiniteSet(B \cup {i}) /\ Cardinality(B \cup {i}) = Cardinality(B)
        BY <3>2, <4>1
      <4> QED
        BY <3>1, <3>2, <4>2
    <3>4. CASE i \notin B
      <4>1. IsFiniteSet(B \cup {i}) /\ Cardinality(B \cup {i}) = Cardinality(B) + 1
        BY <3>2, <3>4, FS_AddElement
      <4> QED
        BY <3>1, <3>2, <4>1
    <3> QED
      BY <3>3, <3>4
  <2>7. Cardinality(A) \in Nat /\ Cardinality(A) <= Cardinality(Answered) + 1
    BY <1>1, <2>5, <2>6, FS_Subset, FS_CardinalityType
  <2>8. kind = "human" => Number(log, CompletedEvents) + Cardinality(A) <= accepted + 1
    BY <1>1, <2>7 DEF HumanInv
  <2> QED
    BY <1>2, <2>2, <2>3, <2>8 DEF HumanInv, CompletedEvents
<1>3. CASE provide_input /\ accepted' # accepted + 1
  BY <1>3, FewerAnswered DEF provide_input, AnsweredTask, nodeVars, taskVars
<1>4. CASE execute_again
  <2>1. ASSUME NEW j \in Instances PROVE ~AnsweredTask(j)'
    <3>1. pc[j] \in {"collected", "absent"}
      BY <1>4 DEF execute_again, TasksInv, TaskInv
    <3>2. receiver[j] = "none"
      BY <3>1 DEF TasksInv, TaskInv
    <3> QED
      BY <1>4, <3>2 DEF execute_again, humanVars, AnsweredTask
  <2>2. Answered' = {}
    BY <1>4, <2>1, FanOutFacts DEF execute_again, Answered
  <2>3. Cardinality({}) = 0
    BY FS_EmptySet
  <2>4. UNCHANGED <<kind, accepted, log>>
    BY <1>4 DEF execute_again, humanVars
  <2>5. kind = "human" => Number(log, CompletedEvents) + 0 <= accepted
    BY <1>1 DEF HumanInv
  <2> QED
    BY <2>2, <2>3, <2>4, <2>5 DEF HumanInv, CompletedEvents
<1> QED
  BY <1>2, <1>3, <1>4

\* Nobody has answered yet.
LEMMA InitHuman == Init => HumanInv
<1> SUFFICES ASSUME Init PROVE HumanInv
  OBVIOUS
<1>1. Events(log, CompletedEvents) = {} /\ Answered = {} /\ accepted = 0
  <2>1. tasks \subseteq Instances /\ log = <<>>
    BY FanOutFacts DEF Init
  <2> QED
    BY <2>1 DEF Init, Events, Answered, AnsweredTask
<1> QED
  BY <1>1, FS_EmptySet DEF HumanInv, Number

-----------------------------------------------------------------------------
(* The log grows *)

\* The log as it was is the beginning of the log as it is.
Grown == /\ Len(log) \in Nat /\ Len(log') \in Nat /\ Len(log) <= Len(log')
         /\ \A k \in 1..Len(log) : log'[k] = log[k]

\* The log only grows, at its end.
LEMMA LogGrows ==
  ASSUME Shape, [Next]_vars
  PROVE  Grown
<1>1. log \in Seq(Event)
  BY DEF Shape, NodeShape
<1>2. ASSUME log' = log PROVE Grown
  BY <1>1, <1>2 DEF Grown
<1>3. ASSUME NEW e \in Event, log' = Append(log, e) PROVE Grown
  BY <1>1, <1>3 DEF Grown
<1>4. ASSUME NEW i \in tasks, collect(i) PROVE Grown
  <2>1. i \in Instances
    BY TaskSets
  <2>2. PICK n \in Nat : n = llm_records[i]
    BY <2>1 DEF Shape, RecordShape
  <2>3. PICK q : q = [k \in 1..n |-> LlmInvocation]
    OBVIOUS
  <2>4. q \in Seq(Event)
    <3>1. LlmInvocation \in Event
      BY FanOutFacts DEF LlmInvocation, Event
    <3> QED
      BY <2>3, <3>1
  <2>5. log' = log \o q
    BY <1>4, <2>2, <2>3 DEF collect
  <2> QED
    BY <1>1, <2>4, <2>5 DEF Grown
<1>5. ASSUME NEW i \in tasks, Handled(i) \/ next_attempt(i) PROVE Grown
  BY <1>2, <1>5, HandledEffects, TaskSets DEF next_attempt
<1>6. ASSUME NEW i \in tasks, emit_started(i) \/ emit_outcome(i) \/ emit_checkpoint(i) PROVE Grown
  <2>1. i \in Instances
    BY TaskSets
  <2>2. CASE emit_outcome(i)
    BY <1>3, <2>1, <2>2, OutcomeEffects
  <2>3. CASE emit_started(i)
    <3>1. NodeStarted(i, attempt[i]) \in Event
      BY <2>1, BoundsAssumption DEF NodeStarted, Event, Shape, TaskShape
    <3> QED
      BY <1>3, <2>3, <3>1 DEF emit_started
  <2>4. CASE emit_checkpoint(i)
    <3>1. Checkpoint \in Event
      BY FanOutFacts DEF Checkpoint, Event
    <3> QED
      BY <1>3, <2>4, <3>1 DEF emit_checkpoint
  <2> QED
    BY <1>6, <2>2, <2>3, <2>4
<1>7. CASE provide_input \/ execute_again
  BY <1>2, <1>7 DEF provide_input, execute_again
<1>8. CASE UNCHANGED vars \/ Terminated
  BY <1>2, <1>8 DEF Terminated, vars
<1> QED
  BY <1>4, <1>5, <1>6, <1>7, <1>8 DEF Next, TaskStep, Handled

\* A task that has started is in the log.
LEMMA TracedSteps ==
  ASSUME Shape, TracedInv, [Next]_vars
  PROVE  TracedInv'
<1>1. Grown /\ log \in Seq(Event) /\ tasks \subseteq Instances
  BY LogGrows, TaskSets DEF Shape, NodeShape
<1>2. ASSUME NEW j, \E k \in 1..Len(log) : log[k].index = j PROVE \E k \in 1..Len(log') : log'[k].index = j
  <2>1. PICK k \in 1..Len(log) : log[k].index = j
    BY <1>2
  <2>2. k \in 1..Len(log') /\ log'[k] = log[k]
    BY <1>1 DEF Grown
  <2> QED
    BY <2>1, <2>2
<1>3. ASSUME NEW i \in tasks, emit_started(i) PROVE TracedInv'
  <2>1. PICK e : e = NodeStarted(i, attempt[i])
    OBVIOUS
  <2>2. e.index = i /\ log' = Append(log, e)
    BY <1>3, <2>1 DEF NodeStarted, emit_started
  <2>3. Len(log) + 1 \in 1..Len(log') /\ log'[Len(log) + 1].index = i
    BY <1>1, <2>2
  <2>4. tasks' = tasks /\ \A j \in tasks : j # i => pc'[j] = pc[j]
    BY <1>1, <1>3 DEF emit_started, Shape, TaskShape, nodeVars
  <2> QED
    BY <1>2, <2>3, <2>4 DEF TracedInv
<1>4. ASSUME NEW i \in tasks, tasks' = tasks, pc[i] # "start", \A j \in tasks : j # i => pc'[j] = pc[j] PROVE TracedInv'
  BY <1>2, <1>4 DEF TracedInv
<1>5. ASSUME NEW i \in tasks, emit_outcome(i) \/ emit_checkpoint(i) \/ next_attempt(i) \/ collect(i) PROVE TracedInv'
  <2>1. tasks' = tasks /\ pc[i] # "start" /\ \A j \in tasks : j # i => pc'[j] = pc[j]
    BY <1>1, <1>5 DEF emit_outcome, emit_checkpoint, next_attempt, collect, Shape, TaskShape, nodeVars
  <2> QED
    BY <1>4, <2>1
<1>6. ASSUME NEW i \in tasks, Handled(i) PROVE TracedInv'
  <2>1. tasks' = tasks /\ pc[i] # "start" /\ \A j \in tasks : j # i => pc'[j] = pc[j]
    BY <1>1, <1>6, HandledEffects DEF nodeVars, Handling
  <2> QED
    BY <1>4, <2>1
<1>7. CASE execute_again
  <2>1. \A j \in tasks' : pc'[j] = "start"
    BY <1>7, FanOutFacts DEF execute_again
  <2> QED
    BY <2>1 DEF TracedInv
<1>8. CASE UNCHANGED vars \/ Terminated \/ provide_input
  BY <1>8 DEF Terminated, vars, provide_input, TracedInv, nodeVars, taskVars
<1> QED
  BY <1>3, <1>5, <1>6, <1>7, <1>8 DEF Next, TaskStep, Handled

-----------------------------------------------------------------------------
(* The conversation *)

\* One more turn.
LEMMA TurnAppended ==
  ASSUME NEW q \in Turns, NEW e \in Nat \ {0}, NEW n \in Nat, inputs[e][0] = n, ToldSoFar(q, e - 1)
  PROVE  ToldSoFar(Append(q \o [k \in 1..n |-> [by |-> e, of |-> k]], [by |-> e, of |-> n + 1]), e)
<1>1. PICK t : t = [k \in 1..n |-> [by |-> e, of |-> k]]
  OBVIOUS
<1>2. t \in Turns /\ Len(t) = n /\ \A k \in 1..n : t[k] = [by |-> e, of |-> k]
  <2>1. t \in [1..n -> Turn]
    BY <1>1 DEF Turn
  <2> QED BY <1>1, <2>1 DEF Turns
<1>3. PICK L \in Nat : L = Len(q)
  BY DEF Turns
<1>4. PICK r : r = Append(q \o t, [by |-> e, of |-> n + 1])
  OBVIOUS
<1>5. /\ r \in Turns /\ Len(r) = L + n + 1 /\ r[L + n + 1] = [by |-> e, of |-> n + 1]
      /\ \A k \in 1..L : r[k] = q[k]
      /\ \A k \in 1..n : r[L + k] = t[k]
  <2>1. PICK u : u = q \o t
    OBVIOUS
  <2>2. /\ u \in Turns /\ Len(u) = L + n
        /\ \A k \in 1..L : u[k] = q[k]
        /\ \A k \in 1..n : u[L + k] = t[k]
    <3>1. u \in Turns /\ Len(u) = Len(q) + Len(t)
      BY <1>2, <2>1, ConcatProperties DEF Turns
    <3>2. \A k \in 1..(Len(q) + Len(t)) : u[k] = IF k <= Len(q) THEN q[k] ELSE t[k - Len(q)]
      BY <1>2, <2>1, ConcatProperties DEF Turns
    <3>3. \A k \in 1..n : L + k \in 1..(Len(q) + Len(t)) /\ L + k > L /\ (L + k) - L = k
      BY <1>2, <1>3
    <3>4. \A k \in 1..L : u[k] = q[k]
      BY <1>2, <1>3, <3>2
    <3>5. \A k \in 1..n : u[L + k] = t[k]
      BY <1>3, <3>2, <3>3
    <3> QED BY <1>2, <1>3, <3>1, <3>4, <3>5
  <2>3. [by |-> e, of |-> n + 1] \in Turn
    BY DEF Turn
  <2>4. /\ r \in Turns /\ Len(r) = L + n + 1 /\ r[L + n + 1] = [by |-> e, of |-> n + 1]
        /\ \A k \in 1..(L + n) : r[k] = u[k]
    BY <1>4, <2>1, <2>2, <2>3 DEF Turns
  <2> QED BY <2>2, <2>4
<1>6. \A k \in 1..(n + 1) : r[L + k] = [by |-> e, of |-> k]
  BY <1>2, <1>5
<1>7. r # <<>> /\ e # 0
  BY <1>5
<1>8. r[1] = [by |-> 1, of |-> 1]
  <2>1. CASE L = 0
    <3>1. q = <<>>
      BY <1>3, <2>1, EmptySeq DEF Turns
    <3>2. e - 1 = 0
      BY <3>1 DEF ToldSoFar, Told
    <3>3. e = 1
      BY <3>2
    <3> QED BY <1>6, <2>1, <3>3
  <2>2. CASE L # 0
    BY <1>3, <1>5, <2>2 DEF ToldSoFar, Told
  <2> QED BY <2>1, <2>2
<1>9. r[Len(r)] = [by |-> e, of |-> LastOf(e)]
  BY <1>5 DEF LastOf
<1>10. ASSUME NEW k \in 1..(Len(r) - 1)
       PROVE  r[k + 1] = IF r[k].of < LastOf(r[k].by) THEN [by |-> r[k].by, of |-> r[k].of + 1]
                                                     ELSE [by |-> r[k].by + 1, of |-> 1]
  <2>1. CASE k < L
    <3>1. k \in 1..(Len(q) - 1) /\ r[k] = q[k] /\ r[k + 1] = q[k + 1]
      BY <1>3, <1>5, <2>1
    <3> QED BY <3>1 DEF ToldSoFar, Told
  <2>2. CASE k = L
    <3>1. q # <<>> /\ r[k] = q[Len(q)] /\ r[k + 1] = [by |-> e, of |-> 1]
      BY <1>3, <1>5, <1>6, <2>2
    <3>2. r[k] = [by |-> e - 1, of |-> LastOf(e - 1)]
      BY <3>1 DEF ToldSoFar, Told
    <3>3. r[k].by = e - 1 /\ r[k].of = LastOf(e - 1) /\ LastOf(e - 1) \in Nat
      <4>1. Len(q) \in 1..Len(q) /\ q[Len(q)] \in Turn
        BY <1>3, <1>10, <2>2 DEF Turns
      <4> QED BY <3>1, <3>2, <4>1 DEF Turn
    <3> QED BY <3>1, <3>3
  <2>3. CASE k > L
    <3>1. PICK j \in 1..n : k = L + j
      <4>1. k - L \in 1..n
        BY <1>5, <2>3
      <4> QED BY <4>1
    <3>2. r[k] = [by |-> e, of |-> j] /\ r[k + 1] = [by |-> e, of |-> j + 1]
      BY <1>6, <3>1
    <3>3. j < LastOf(e)
      BY <3>1 DEF LastOf
    <3> QED BY <3>2, <3>3
  <2> QED BY <2>1, <2>2, <2>3
<1>11. ASSUME NEW k \in 1..Len(r) PROVE r[k].by \in 1..e
  <2>1. CASE k <= L
    BY <1>3, <1>5, <2>1 DEF ToldSoFar
  <2>2. CASE k > L
    <3>1. PICK j \in 1..(n + 1) : k = L + j
      <4>1. k - L \in 1..(n + 1)
        BY <1>5, <2>2
      <4> QED BY <4>1
    <3>2. r[k] = [by |-> e, of |-> j]
      BY <1>6, <3>1
    <3>3. r[k].by = e
      BY <3>2
    <3> QED BY <3>3
  <2> QED BY <2>1, <2>2
<1>12. ToldSoFar(r, e)
  BY <1>7, <1>8, <1>9, <1>10, <1>11 DEF ToldSoFar, Told
<1> QED BY <1>1, <1>4, <1>12

\* A later execution changes nothing about the turns told.
LEMMA ToldStays ==
  ASSUME NEW n \in Nat, conversation \in Turns, ToldSoFar(conversation, n), conversation' = conversation,
         \A e \in 1..n : inputs'[e] = inputs[e]
  PROVE  (ToldSoFar(conversation, n))'
<1>1. \A k \in 1..Len(conversation) : conversation[k].by \in 1..n /\ LastOf(conversation[k].by)' = LastOf(conversation[k].by)
  BY DEF ToldSoFar, LastOf
<1>2. conversation # <<>> => n \in 1..n
  BY DEF ToldSoFar, Told
<1>3. conversation # <<>> => (LastOf(n))' = LastOf(n)
  BY <1>2 DEF LastOf
<1>4. \A k \in 1..(Len(conversation) - 1) : k \in 1..Len(conversation)
  BY DEF Turns
<1> QED BY <1>1, <1>3, <1>4 DEF ToldSoFar, Told

\* What TurnInv says of a node without fan-out.
TurnTold ==
  /\ ToldSoFar(conversation, executions - 1) \/ ToldSoFar(conversation, executions)
  /\ Saved => ToldSoFar(conversation, executions)
  /\ Unsaved => ToldSoFar(conversation, executions - 1)
  /\ pc[0] = "call" => messages[0] = conversation \o NewMessages(0)
  /\ pc[0] = "save" => messages[0] = Append(conversation \o NewMessages(0), Reply(0))

\* While neither the conversation nor the execution changes, what was told is told.
LEMMA ToldUnchanged ==
  ASSUME UNCHANGED <<conversation, executions, inputs>>
  PROVE  /\ ToldSoFar(conversation, executions) => (ToldSoFar(conversation, executions))'
         /\ ToldSoFar(conversation, executions - 1) => (ToldSoFar(conversation, executions - 1))'
         /\ (NewMessages(0))' = NewMessages(0) /\ (Reply(0))' = Reply(0)
BY DEF ToldSoFar, Told, LastOf, NewMessages, Reply, Message

\* Only a task of the kind llm_call touches the conversation.
LEMMA OnlyLlm ==
  ASSUME Shape, TasksInv, kind # "llm", [Next]_vars
  PROVE  UNCHANGED <<conversation, kind>>
<1>1. ASSUME NEW i \in tasks, Handled(i) PROVE UNCHANGED <<conversation, kind>>
  <2>1. i \in Instances
    BY TaskSets
  <2>2. pc[i] # "save"
    BY <2>1 DEF TasksInv, TaskInv
  <2> QED
    BY <1>1, <2>2 DEF Handled, handler_times_out, handler_panics, record_llm_call, register_human_input, human_returns,
       llm_load, llm_complete, llm_save, llm_record, other_returns, llm_fails, LeaveHandler, llmVars, nodeVars
<1>2. ASSUME NEW i \in tasks, emit_started(i) \/ emit_outcome(i) \/ emit_checkpoint(i) \/ next_attempt(i) \/ collect(i)
      PROVE UNCHANGED <<conversation, kind>>
  BY <1>2 DEF emit_started, emit_outcome, emit_checkpoint, next_attempt, collect, llmVars, nodeVars
<1>3. CASE provide_input \/ execute_again \/ Terminated \/ UNCHANGED vars
  BY <1>3 DEF provide_input, execute_again, Terminated, vars, llmVars, nodeVars
<1> QED
  BY <1>1, <1>2, <1>3 DEF Next, TaskStep, Handled

\* A step of the handler llm_call, or around it.
LEMMA TurnHandled ==
  ASSUME Shape, TasksInv, kind = "llm", TurnTold, Handled(0)
  PROVE  TurnTold'
<1>0. /\ 0 \in Instances /\ conversation \in Turns /\ executions \in Nat \ {0}
      /\ UNCHANGED <<executions, inputs>>
  BY FanOutFacts, HandledEffects DEF Shape, TurnShape, NodeShape, nodeVars
<1>1. CASE handler_times_out(0) \/ handler_panics(0)
  <2>1. UNCHANGED conversation /\ ~Saved' /\ ~Unsaved' /\ pc'[0] \notin {"call", "save"}
    BY <1>0, <1>1 DEF handler_times_out, handler_panics, LeaveHandler, Saved, Unsaved, Shape, TaskShape
  <2> QED
    BY <1>0, <2>1, ToldUnchanged DEF TurnTold
<1>2. CASE llm_load(0)
  <2>1. /\ UNCHANGED conversation /\ Unsaved /\ ~Saved' /\ pc'[0] = "call"
        /\ messages'[0] = conversation \o NewMessages(0)
    BY <1>0, <1>2 DEF llm_load, Saved, Unsaved, Shape, TaskShape, TurnShape
  <2> QED
    BY <1>0, <2>1, ToldUnchanged DEF TurnTold
<1>3. CASE llm_complete(0)
  <2>1. /\ UNCHANGED conversation /\ Unsaved /\ ~Saved' /\ pc'[0] = "save"
        /\ messages'[0] = Append(messages[0], Reply(0)) /\ pc[0] = "call"
    BY <1>0, <1>3 DEF llm_complete, Saved, Unsaved, Shape, TaskShape, TurnShape
  <2> QED
    BY <1>0, <2>1, ToldUnchanged DEF TurnTold
<1>4. CASE llm_save(0)
  <2>1. conversation' = messages[0] /\ Unsaved /\ pc[0] = "save" /\ pc'[0] = "record" /\ ~Unsaved'
    BY <1>0, <1>4 DEF llm_save, Saved, Unsaved, Shape, TaskShape
  <2>2. PICK n \in Nat : n = inputs[executions][0]
    <3>1. executions \in 1..executions
      BY <1>0
    <3> QED BY <1>0, <3>1, BoundsAssumption DEF Shape, NodeShape
  <2>3. conversation' = Append(conversation \o [k \in 1..n |-> [by |-> executions, of |-> k]],
                               [by |-> executions, of |-> n + 1])
    BY <2>1, <2>2 DEF TurnTold, NewMessages, Reply, Message
  <2>4. ToldSoFar(conversation, executions - 1)
    BY <2>1 DEF TurnTold
  <2>5. ToldSoFar(conversation', executions)
    BY <1>0, <2>2, <2>3, <2>4, TurnAppended
  <2>6. (ToldSoFar(conversation, executions))'
    BY <1>0, <2>5 DEF ToldSoFar, Told, LastOf
  <2> QED
    BY <2>1, <2>6 DEF TurnTold
<1>5. CASE llm_record(0)
  <2>1. UNCHANGED conversation /\ Saved /\ ~Unsaved' /\ pc'[0] = "returned"
    BY <1>0, <1>5 DEF llm_record, LeaveHandler, Saved, Unsaved, Shape, TaskShape
  <2> QED
    BY <1>0, <2>1, ToldUnchanged DEF TurnTold
<1>6. ASSUME NEW r \in {"ok", "fatal", "retryable"}, llm_fails(0, r) PROVE TurnTold'
  <2>1. UNCHANGED conversation /\ Unsaved /\ ~Saved' /\ pc'[0] = "returned"
    BY <1>0, <1>6 DEF llm_fails, LeaveHandler, Saved, Unsaved, Shape, TaskShape
  <2> QED
    BY <1>0, <2>1, ToldUnchanged DEF TurnTold
<1>7. CASE record_llm_call(0) \/ register_human_input(0) \/ human_returns(0)
           \/ \E r \in {"ok", "fatal", "retryable"} : other_returns(0, r)
  BY <1>0, <1>7 DEF record_llm_call, register_human_input, human_returns, other_returns, TasksInv, TaskInv
<1> QED
  BY <1>1, <1>2, <1>3, <1>4, <1>5, <1>6, <1>7 DEF Handled

\* The attempt loop leaves the conversation alone.
LEMMA TurnOutside ==
  ASSUME Shape, TasksInv, TurnTold,
         emit_started(0) \/ emit_outcome(0) \/ emit_checkpoint(0) \/ next_attempt(0) \/ collect(0)
  PROVE  TurnTold'
<1> USE DEF emit_started, emit_outcome, emit_checkpoint, next_attempt, collect
<1>1. 0 \in Instances /\ UNCHANGED <<conversation, executions, inputs, result>>
  BY FanOutFacts DEF llmVars, nodeVars
<1>2. pc'[0] \notin {"call", "save"}
  BY <1>1 DEF Shape, TaskShape
<1>3. Saved' => Saved
  <2>1. CASE emit_outcome(0)
    <3>1. pc[0] = "returned" /\ (pc'[0] = "checkpoint" \/ pc'[0] = "backoff" \/ (pc'[0] = "done" /\ result[0] # "ok"))
      BY <1>1, <2>1, OutcomeEffects
    <3> QED
      BY <1>1, <3>1 DEF Saved
  <2>2. CASE emit_started(0) \/ emit_checkpoint(0) \/ next_attempt(0) \/ collect(0)
    <3>1. next_attempt(0) => attempt[0] < max_attempts
      BY <1>1 DEF TasksInv, TaskInv
    <3> QED
      BY <1>1, <2>2, <3>1 DEF Saved, Shape, TaskShape
  <2> QED
    BY <2>1, <2>2
<1>4. Unsaved' => Unsaved
  <2>1. CASE emit_outcome(0)
    BY <1>1, <2>1, OutcomeEffects DEF Unsaved, Shape, TaskShape
  <2>2. CASE emit_started(0) \/ emit_checkpoint(0) \/ next_attempt(0) \/ collect(0)
    BY <1>1, <2>2 DEF Unsaved, Shape, TaskShape
  <2> QED
    BY <2>1, <2>2
<1> QED
  BY <1>1, <1>2, <1>3, <1>4, ToldUnchanged DEF TurnTold

\* A turn is added once per successful save, and a retry starts from what was saved.
LEMMA TurnSteps ==
  ASSUME Shape, TasksInv, TracedInv, TurnInv, [Next]_vars
  PROVE  TurnInv'
<1>1. CASE kind # "llm"
  BY <1>1, OnlyLlm DEF TurnInv
<1>2. CASE kind = "llm"
  <2>1. kind' = kind
    <3>1. ASSUME NEW i \in tasks, Handled(i) PROVE kind' = kind
      BY <3>1, HandledEffects, TaskSets DEF nodeVars
    <3>2. ASSUME NEW i \in tasks, emit_started(i) \/ emit_outcome(i) \/ emit_checkpoint(i) \/ next_attempt(i) \/ collect(i)
          PROVE kind' = kind
      BY <3>2 DEF emit_started, emit_outcome, emit_checkpoint, next_attempt, collect, nodeVars
    <3> QED
      BY <3>1, <3>2 DEF Next, TaskStep, Handled, provide_input, execute_again, Terminated, vars, nodeVars
  <2>2. SUFFICES ASSUME 0 \in tasks', Solo' PROVE TurnTold'
    BY <1>2, <2>1 DEF TurnInv, TurnTold
  <2>3. Solo
    BY <2>2, LogGrows DEF Solo, Grown
  <2>4. 0 \in tasks => tasks = {0}
    BY FanOutFacts DEF Shape, NodeShape
  <2>5. 0 \in tasks => TurnTold
    BY <1>2, <2>3 DEF TurnInv, TurnTold
  <2>6. ASSUME NEW i \in tasks, TaskStep(i) \/ handler_panics(i) \/ collect(i) PROVE TurnTold'
    <3>1. tasks' = tasks
      <4>1. CASE Handled(i)
        BY <4>1, HandledEffects, TaskSets DEF nodeVars
      <4>2. CASE emit_started(i) \/ emit_outcome(i) \/ emit_checkpoint(i) \/ next_attempt(i) \/ collect(i)
        BY <4>2 DEF emit_started, emit_outcome, emit_checkpoint, next_attempt, collect, nodeVars
      <4> QED
        BY <2>6, <4>1, <4>2 DEF TaskStep, Handled
    <3>2. i = 0 /\ TurnTold
      BY <2>2, <2>4, <2>5, <3>1
    <3>3. \/ Handled(0)
          \/ emit_started(0) \/ emit_outcome(0) \/ emit_checkpoint(0) \/ next_attempt(0) \/ collect(0)
      BY <2>6, <3>2 DEF TaskStep, Handled
    <3> QED
      BY <1>2, <3>2, <3>3, TurnHandled, TurnOutside
  <2>7. CASE execute_again
    <3>1. \A i \in tasks : i = 0
      BY <2>3, <2>7 DEF execute_again, TracedInv, Solo
    <3>2. tasks = {0}
      BY <3>1, FanOutFacts DEF Shape, NodeShape
    <3>3. Saved /\ ToldSoFar(conversation, executions)
      BY <2>5, <2>7, <3>2 DEF execute_again, Saved, TurnTold
    <3>4. conversation' = conversation /\ executions' = executions + 1 /\ pc'[0] = "start" /\ 0 \in Instances
      BY <2>2, <2>7, FanOutFacts DEF execute_again
    <3>5. executions' - 1 = executions /\ executions \in Nat /\ conversation \in Turns
      BY <3>4 DEF Shape, NodeShape, TurnShape
    <3>6. \A e \in 1..executions : inputs'[e] = inputs[e]
      <4>1. PICK f : inputs' = Append(inputs, f)
        BY <2>7 DEF execute_again
      <4> QED BY <3>5, <4>1, AppendToFunction DEF Shape, NodeShape
    <3>7. (ToldSoFar(conversation, executions - 1))'
      BY <3>3, <3>4, <3>5, <3>6, ToldStays DEF ToldSoFar, Told
    <3> QED
      BY <3>4, <3>7 DEF TurnTold, Saved, Unsaved
  <2>8. CASE provide_input \/ Terminated \/ UNCHANGED vars
    <3>1. UNCHANGED <<nodeVars, taskVars, llmVars>>
      BY <2>8 DEF provide_input, Terminated, vars
    <3> QED
      BY <2>2, <2>5, <3>1, ToldUnchanged DEF nodeVars, taskVars, llmVars, TurnTold, Saved, Unsaved
  <2> QED
    BY <2>6, <2>7, <2>8 DEF Next
<1> QED
  BY <1>1, <1>2

-----------------------------------------------------------------------------
(* What a reader of the log is told *)

\* Another event in the log.
LEMMA TellsAppend ==
  ASSUME NEW l \in Seq(Event), NEW e \in Event, NEW v
  PROVE  /\ e \in SettledEvents => Tells(Append(l, e), e.ev)
         /\ e \notin SettledEvents /\ Tells(l, v) => Tells(Append(l, e), v)
<1>1. /\ Len(Append(l, e)) = Len(l) + 1 /\ Len(l) \in Nat /\ Append(l, e)[Len(l) + 1] = e
      /\ \A k \in 1..Len(l) : Append(l, e)[k] = l[k]
  OBVIOUS
<1>2. ASSUME e \in SettledEvents PROVE Tells(Append(l, e), e.ev)
  <2>1. Len(l) + 1 \in Events(Append(l, e), SettledEvents)
    BY <1>1, <1>2 DEF Events
  <2>2. \A y \in Events(Append(l, e), SettledEvents) : Len(l) + 1 >= y
    BY <1>1 DEF Events
  <2> QED
    BY <1>1, <2>1, <2>2 DEF Tells
<1>3. ASSUME e \notin SettledEvents, Tells(l, v) PROVE Tells(Append(l, e), v)
  <2>1. Events(Append(l, e), SettledEvents) = Events(l, SettledEvents)
    BY <1>1, <1>3 DEF Events
  <2>2. \A x \in Events(l, SettledEvents) : Append(l, e)[x] = l[x]
    BY <1>1 DEF Events
  <2> QED
    BY <1>3, <2>1, <2>2 DEF Tells
<1> QED
  BY <1>2, <1>3

\* The records of LLM calls settle nothing.
LEMMA TellsLlm ==
  ASSUME NEW l \in Seq(Event), NEW n \in Nat, NEW v, Tells(l, v)
  PROVE  Tells(l \o [k \in 1..n |-> LlmInvocation], v)
<1>1. PICK q : q = [k \in 1..n |-> LlmInvocation]
  OBVIOUS
<1>2. q \in Seq(Event) /\ Len(q) = n /\ \A k \in 1..n : q[k] \notin SettledEvents
  BY <1>1, FanOutFacts DEF LlmInvocation, SettledEvents, Event
<1>3. /\ Len(l \o q) = Len(l) + n /\ Len(l) \in Nat
      /\ \A k \in 1..Len(l) : (l \o q)[k] = l[k]
      /\ \A k \in 1..n : (l \o q)[Len(l) + k] = q[k]
  BY <1>2
<1>4. ASSUME NEW k \in 1..Len(l \o q), k \notin 1..Len(l) PROVE (l \o q)[k] \notin SettledEvents
  <2>1. k - Len(l) \in 1..n /\ k = Len(l) + (k - Len(l))
    BY <1>3, <1>4
  <2> QED
    BY <1>2, <1>3, <2>1
<1>5. Events(l \o q, SettledEvents) = Events(l, SettledEvents)
  BY <1>3, <1>4 DEF Events
<1>6. \A x \in Events(l, SettledEvents) : (l \o q)[x] = l[x]
  BY <1>3 DEF Events
<1> QED
  BY <1>1, <1>5, <1>6 DEF Tells

\* Tells is what NodeStatus computes.
LEMMA TellsStatus ==
  ASSUME NEW l \in Seq(Event), NEW v, Tells(l, v)
  PROVE  NodeStatus(l) = v
<1>1. PICK S : S = Events(l, SettledEvents)
  OBVIOUS
<1>2. S = {k \in 1..Len(l) : l[k].ev = "completed" \/ (l[k].ev = "failed" /\ ~l[k].will_retry)}
  <2>1. \A k \in 1..Len(l) : l[k] \in Event
    OBVIOUS
  <2> QED
    BY <1>1, <2>1 DEF Events, SettledEvents
<1>3. NodeStatus(l) = IF S # {} THEN l[Max(S)].ev ELSE "running"
  BY <1>2 DEF NodeStatus
<1>4. CASE S = {}
  BY <1>1, <1>3, <1>4 DEF Tells
<1>5. CASE S # {}
  <2>1. PICK x \in S : (\A y \in S : x >= y) /\ v = l[x].ev
    BY <1>1, <1>5 DEF Tells
  <2>2. \A z \in S : z \in Nat
    BY <1>2
  <2>3. Max(S) \in S /\ \A y \in S : Max(S) >= y
    BY <2>1 DEF Max
  <2>4. Max(S) = x
    <3>1. Max(S) >= x /\ x >= Max(S) /\ Max(S) \in Nat /\ x \in Nat
      BY <2>1, <2>2, <2>3
    <3>2. PICK m \in Nat : m = Max(S)
      BY <3>1
    <3> QED
      BY <3>1, <3>2
  <2> QED
    BY <1>3, <1>5, <2>1, <2>4
<1> QED
  BY <1>4, <1>5

\* What StatusInv says of a node without fan-out.
StatusTold ==
  /\ pc[0] \in {"done", "collected"} => Tells(log, IF result[0] = "ok" THEN "completed" ELSE "failed")
  /\ pc[0] = "checkpoint" => Tells(log, "completed") /\ result[0] = "ok"
  /\ executions = 1 /\ pc[0] \notin {"checkpoint", "done", "collected"} => Tells(log, "running")
  /\ executions = 1 => \A k \in 1..Len(log) : log[k].attempt <= attempt[0]
  /\ executions = 1 /\ pc[0] # "start" => \E k \in 1..Len(log) : log[k].attempt = attempt[0]

\* Attempts in the log after one more event.
LEMMA AttemptsAppend ==
  ASSUME NEW l \in Seq(Event), NEW e \in Event, NEW n \in Nat, e.attempt <= n
  PROVE  /\ (\A k \in 1..Len(l) : l[k].attempt <= n) =>
              \A k \in 1..Len(Append(l, e)) : Append(l, e)[k].attempt <= n
         /\ (e.attempt = n \/ \E k \in 1..Len(l) : l[k].attempt = n) =>
              \E k \in 1..Len(Append(l, e)) : Append(l, e)[k].attempt = n
<1>1. /\ Len(Append(l, e)) = Len(l) + 1 /\ Len(l) \in Nat /\ Append(l, e)[Len(l) + 1] = e
      /\ \A k \in 1..Len(l) : Append(l, e)[k] = l[k]
  OBVIOUS
<1>2. Len(l) + 1 \in 1..Len(Append(l, e)) /\ \A k \in 1..Len(l) : k \in 1..Len(Append(l, e))
  BY <1>1
<1>3. \A k \in 1..Len(Append(l, e)) : k \in 1..Len(l) \/ k = Len(l) + 1
  BY <1>1
<1>4. ASSUME \A k \in 1..Len(l) : l[k].attempt <= n
      PROVE  \A k \in 1..Len(Append(l, e)) : Append(l, e)[k].attempt <= n
  BY <1>1, <1>3, <1>4
<1>5. ASSUME e.attempt = n \/ \E k \in 1..Len(l) : l[k].attempt = n
      PROVE  \E k \in 1..Len(Append(l, e)) : Append(l, e)[k].attempt = n
  BY <1>1, <1>2, <1>5
<1> QED
  BY <1>4, <1>5

\* A handler at work is shown as running.
LEMMA StatusHandled ==
  ASSUME Shape, StatusTold, Handled(0)
  PROVE  StatusTold'
<1>1. /\ pc[0] \in Handling /\ pc'[0] \in Handling \cup {"returned", "panicked"}
      /\ UNCHANGED <<executions, log, attempt>>
  BY FanOutFacts, HandledEffects DEF nodeVars
<1>2. /\ pc[0] \notin {"checkpoint", "done", "collected", "start"}
      /\ pc'[0] \notin {"checkpoint", "done", "collected", "start"}
  BY <1>1 DEF Handling
<1>3. executions' = 1 => Tells(log, "running")'
  BY <1>1, <1>2 DEF StatusTold, Tells, Events, SettledEvents
<1> QED
  BY <1>1, <1>2, <1>3 DEF StatusTold

\* Every event of the attempt loop moves the shown status with the task.
LEMMA StatusOutside ==
  ASSUME Shape, TasksInv, StatusTold,
         emit_started(0) \/ emit_outcome(0) \/ emit_checkpoint(0) \/ next_attempt(0) \/ collect(0)
  PROVE  StatusTold'
<1>1. /\ 0 \in Instances /\ log \in Seq(Event) /\ attempt[0] \in Nat /\ attempt[0] >= 1 /\ max_attempts \in Nat
  BY FanOutFacts, BoundsAssumption DEF Shape, NodeShape, TaskShape
<1>2. UNCHANGED <<executions, result>>
  BY DEF emit_started, emit_outcome, emit_checkpoint, next_attempt, collect, nodeVars
<1>3. CASE emit_started(0)
  <2>1. PICK e : e = NodeStarted(0, attempt[0])
    OBVIOUS
  <2>2. e \in Event /\ e.attempt = attempt[0] /\ e \notin SettledEvents
    BY <1>1, <2>1 DEF NodeStarted, Event, SettledEvents
  <2>3. log' = Append(log, e) /\ pc[0] = "start" /\ pc'[0] = "run" /\ attempt' = attempt
    BY <1>1, <1>3, <2>1 DEF emit_started, Shape, TaskShape
  <2>4. executions = 1 => Tells(Append(log, e), "running")
    BY <1>1, <2>2, <2>3, TellsAppend DEF StatusTold
  <2>5. executions = 1 => \A k \in 1..Len(Append(log, e)) : Append(log, e)[k].attempt <= attempt[0]
    BY <1>1, <2>2, AttemptsAppend DEF StatusTold
  <2>6. \E k \in 1..Len(Append(log, e)) : Append(log, e)[k].attempt = attempt[0]
    BY <1>1, <2>2, AttemptsAppend
  <2> QED
    BY <1>2, <2>3, <2>4, <2>5, <2>6 DEF StatusTold
<1>4. CASE emit_outcome(0)
  <2>1. PICK e \in Event :
           /\ log' = Append(log, e)
           /\ \/ /\ e.ev = "completed" /\ e.index = 0 /\ e.attempt = 0 /\ ~e.will_retry
                 /\ pc'[0] = "checkpoint" /\ result[0] = "ok"
              \/ /\ e.ev = "failed" /\ e.index = 0 /\ e.attempt = attempt[0] /\ e.will_retry
                 /\ pc'[0] = "backoff" /\ attempt[0] < max_attempts /\ result[0] = "retryable"
              \/ /\ e.ev = "failed" /\ e.index = 0 /\ e.attempt = attempt[0] /\ ~e.will_retry
                 /\ pc'[0] = "done" /\ result[0] # "ok"
    BY <1>1, <1>4, OutcomeEffects
  <2>2. pc[0] = "returned" /\ attempt' = attempt
    BY <1>4 DEF emit_outcome
  <2>3. e.attempt <= attempt[0]
    BY <1>1, <2>1
  <2>4. executions = 1 => \A k \in 1..Len(Append(log, e)) : Append(log, e)[k].attempt <= attempt[0]
    BY <1>1, <2>3, AttemptsAppend DEF StatusTold
  <2>5. executions = 1 => \E k \in 1..Len(Append(log, e)) : Append(log, e)[k].attempt = attempt[0]
    BY <1>1, <2>2, <2>3, AttemptsAppend DEF StatusTold
  <2>6. pc'[0] = "backoff" /\ executions = 1 => Tells(Append(log, e), "running")
    <3>1. pc'[0] = "backoff" => e \notin SettledEvents
      BY <2>1 DEF SettledEvents
    <3> QED
      BY <1>1, <2>2, <3>1, TellsAppend DEF StatusTold
  <2>7. /\ pc'[0] = "checkpoint" => Tells(Append(log, e), "completed") /\ result[0] = "ok"
        /\ pc'[0] = "done" => Tells(Append(log, e), "failed") /\ result[0] # "ok"
    <3>1. pc'[0] # "backoff" => e \in SettledEvents
      BY <2>1 DEF SettledEvents
    <3> QED
      BY <1>1, <2>1, <3>1, TellsAppend
  <2>8. pc'[0] \in {"checkpoint", "backoff", "done"}
    BY <2>1
  <2> QED
    BY <1>2, <2>1, <2>2, <2>4, <2>5, <2>6, <2>7, <2>8 DEF StatusTold
<1>5. CASE emit_checkpoint(0)
  <2>1. PICK e : e = Checkpoint
    OBVIOUS
  <2>2. e \in Event /\ e.attempt = 0 /\ e \notin SettledEvents
    BY <1>1, <2>1 DEF Checkpoint, Event, SettledEvents
  <2>3. log' = Append(log, e) /\ pc[0] = "checkpoint" /\ pc'[0] = "done" /\ attempt' = attempt
    BY <1>1, <1>5, <2>1 DEF emit_checkpoint, Shape, TaskShape
  <2>4. Tells(Append(log, e), "completed") /\ result[0] = "ok"
    BY <1>1, <2>2, <2>3, TellsAppend DEF StatusTold
  <2>5. e.attempt <= attempt[0]
    BY <1>1, <2>2
  <2>6. executions = 1 => \A k \in 1..Len(Append(log, e)) : Append(log, e)[k].attempt <= attempt[0]
    BY <1>1, <2>2, <2>5, AttemptsAppend DEF StatusTold
  <2>7. executions = 1 => \E k \in 1..Len(Append(log, e)) : Append(log, e)[k].attempt = attempt[0]
    BY <1>1, <2>2, <2>3, <2>5, AttemptsAppend DEF StatusTold
  <2> QED
    BY <1>2, <2>3, <2>4, <2>6, <2>7 DEF StatusTold
<1>6. CASE next_attempt(0)
  <2>1. pc[0] = "backoff" /\ attempt[0] < max_attempts
    BY <1>1, <1>6 DEF next_attempt, TasksInv, TaskInv
  <2>2. pc'[0] = "start" /\ attempt'[0] = attempt[0] + 1 /\ log' = log
    BY <1>1, <1>6, <2>1 DEF next_attempt, Shape, TaskShape
  <2>3. executions = 1 => Tells(log', "running")
    BY <2>1, <2>2 DEF StatusTold
  <2>4. ASSUME executions = 1, NEW k \in 1..Len(log) PROVE log[k].attempt <= attempt[0] + 1
    <3>1. log[k].attempt <= attempt[0] /\ log[k] \in Event
      BY <1>1, <2>4 DEF StatusTold
    <3> QED
      BY <1>1, <3>1 DEF Event
  <2> QED
    BY <1>2, <2>2, <2>3, <2>4 DEF StatusTold
<1>7. CASE collect(0)
  <2>1. PICK n \in Nat : n = llm_records[0]
    BY <1>1 DEF Shape, RecordShape
  <2>2. PICK q : q = [k \in 1..n |-> LlmInvocation]
    OBVIOUS
  <2>3. log' = log \o q /\ pc[0] = "done" /\ pc'[0] = "collected" /\ attempt' = attempt
    BY <1>1, <1>7, <2>1, <2>2 DEF collect, Shape, TaskShape
  <2>4. PICK v : v = IF result[0] = "ok" THEN "completed" ELSE "failed"
    OBVIOUS
  <2>5. Tells(log \o q, v)
    BY <1>1, <2>2, <2>3, <2>4, TellsLlm DEF StatusTold
  <2>6. q \in Seq(Event) /\ Len(q) = n /\ \A k \in 1..n : q[k].attempt = 0
    BY <1>1, <2>2 DEF LlmInvocation, Event
  <2>7. /\ Len(log \o q) = Len(log) + n /\ Len(log) \in Nat
        /\ \A k \in 1..Len(log) : (log \o q)[k] = log[k]
        /\ \A k \in 1..n : (log \o q)[Len(log) + k] = q[k]
    BY <1>1, <2>6
  <2>8. ASSUME executions = 1, NEW k \in 1..Len(log \o q) PROVE (log \o q)[k].attempt <= attempt[0]
    <3>1. CASE k \in 1..Len(log)
      BY <2>7, <2>8, <3>1 DEF StatusTold
    <3>2. CASE k \notin 1..Len(log)
      <4>1. k - Len(log) \in 1..n /\ k = Len(log) + (k - Len(log))
        BY <2>7, <3>2
      <4>2. (log \o q)[k].attempt = 0
        BY <2>6, <2>7, <4>1
      <4> QED
        BY <1>1, <4>2
    <3> QED
      BY <3>1, <3>2
  <2>9. ASSUME executions = 1 PROVE \E k \in 1..Len(log \o q) : (log \o q)[k].attempt = attempt[0]
    <3>1. PICK k \in 1..Len(log) : log[k].attempt = attempt[0]
      BY <2>3, <2>9 DEF StatusTold
    <3>2. k \in 1..Len(log \o q) /\ (log \o q)[k].attempt = attempt[0]
      BY <2>7, <3>1
    <3> QED
      BY <3>2
  <2> QED
    BY <1>2, <2>3, <2>4, <2>5, <2>8, <2>9 DEF StatusTold
<1> QED
  BY <1>3, <1>4, <1>5, <1>6, <1>7

\* The status read from the log follows the task.
LEMMA StatusSteps ==
  ASSUME Shape, TasksInv, StatusInv, [Next]_vars
  PROVE  StatusInv'
<1>1. SUFFICES ASSUME tasks' = {0} PROVE StatusTold'
  BY DEF StatusInv, StatusTold
<1>2. tasks = {0} => StatusTold
  BY DEF StatusInv, StatusTold
<1>3. ASSUME NEW i \in tasks, TaskStep(i) \/ handler_panics(i) \/ collect(i) PROVE StatusTold'
  <2>1. tasks' = tasks
    <3>1. CASE Handled(i)
      BY <3>1, HandledEffects, TaskSets DEF nodeVars
    <3>2. CASE emit_started(i) \/ emit_outcome(i) \/ emit_checkpoint(i) \/ next_attempt(i) \/ collect(i)
      BY <3>2 DEF emit_started, emit_outcome, emit_checkpoint, next_attempt, collect, nodeVars
    <3> QED
      BY <1>3, <3>1, <3>2 DEF TaskStep, Handled
  <2>2. i = 0 /\ StatusTold
    BY <1>1, <1>2, <2>1
  <2>3. \/ Handled(0)
        \/ emit_started(0) \/ emit_outcome(0) \/ emit_checkpoint(0) \/ next_attempt(0) \/ collect(0)
    BY <1>3, <2>2 DEF TaskStep, Handled
  <2> QED
    BY <2>2, <2>3, StatusHandled, StatusOutside
<1>4. CASE execute_again
  <2>1. pc'[0] = "start" /\ executions' # 1
    BY <1>1, <1>4, FanOutFacts DEF execute_again, Shape, NodeShape
  <2> QED
    BY <2>1 DEF StatusTold
<1>5. CASE provide_input \/ Terminated \/ UNCHANGED vars
  <2>1. UNCHANGED <<nodeVars, taskVars, log>>
    BY <1>5 DEF provide_input, Terminated, vars
  <2> QED
    BY <1>1, <1>2, <2>1 DEF nodeVars, taskVars, StatusTold, Tells, Events, SettledEvents
<1> QED
  BY <1>3, <1>4, <1>5 DEF Next

-----------------------------------------------------------------------------
(* The whole module *)

NodeInv == Shape /\ TasksInv /\ BooksInv /\ HumanInv /\ TracedInv /\ TurnInv /\ StatusInv

\* The invariant holds at the start.
LEMMA InitNode == Init => NodeInv
<1> SUFFICES ASSUME Init PROVE TracedInv /\ TurnInv /\ StatusInv
  BY InitShape, InitTasks, InitBooks, InitHuman DEF NodeInv
<1>1. 0 \in Instances /\ tasks \subseteq Instances /\ log = <<>> /\ conversation = <<>> /\ executions = 1
  BY FanOutFacts DEF Init
<1>2. TracedInv
  BY <1>1 DEF Init, TracedInv
<1>3. TurnInv
  BY <1>1 DEF Init, TurnInv, ToldSoFar, Told, Saved, Unsaved
<1>4. ASSUME tasks = {0} PROVE StatusTold
  <2>1. pc[0] = "start" /\ Len(log) = 0
    BY <1>1, <1>4 DEF Init
  <2>2. Tells(log, "running")
    BY <2>1 DEF Tells, Events
  <2> QED
    BY <2>1, <2>2 DEF StatusTold
<1> QED
  BY <1>2, <1>3, <1>4 DEF StatusInv, StatusTold

\* And every step keeps it.
LEMMA NodeSteps ==
  ASSUME NodeInv, [Next]_vars
  PROVE  NodeInv'
<1>1. TracedInv' /\ TurnInv' /\ StatusInv'
  BY TracedSteps, TurnSteps, StatusSteps DEF NodeInv
<1>2. ASSUME NEW i \in tasks, Handled(i) PROVE Shape' /\ TasksInv' /\ BooksInv' /\ HumanInv'
  BY <1>2, TaskSets, HandledShape, HandledTasks, HandledBooks, HandledHuman DEF NodeInv
<1>3. ASSUME NEW i \in tasks, emit_started(i) \/ emit_outcome(i) \/ emit_checkpoint(i) \/ next_attempt(i) \/ collect(i)
      PROVE Shape' /\ TasksInv' /\ BooksInv' /\ HumanInv'
  <2>1. i \in Instances
    BY TaskSets DEF NodeInv
  <2> QED
    BY <1>3, <2>1, OutsideShape, OutsideTasks, OutsideBooks, OutsideHuman DEF NodeInv
<1>4. CASE provide_input \/ execute_again
  BY <1>1, <1>4, LoopShape, LoopTasks, LoopBooks, LoopHuman DEF NodeInv
<1>5. CASE Terminated \/ UNCHANGED vars
  <2>1. UNCHANGED vars
    BY <1>5 DEF Terminated
  <2>2. Shape' /\ TasksInv'
    BY <2>1 DEF NodeInv, Shape, NodeShape, TaskShape, HumanShape, RecordShape, TurnShape, TasksInv, TaskInv,
       vars, nodeVars, taskVars, humanVars, llmVars
  <2>3. BooksInv' /\ HumanInv'
    BY <2>1 DEF NodeInv, BooksInv, HumanInv, Number, Events, Due, DueTask, Busy, BusyTask, Answered, AnsweredTask,
       vars, nodeVars, taskVars, humanVars
  <2> QED
    BY <1>1, <2>2, <2>3 DEF NodeInv
<1> QED
  BY <1>1, <1>2, <1>3, <1>4, <1>5 DEF NodeInv, Next, TaskStep, Handled

\* What the log says of retries and outcomes, read off the books.
LEMMA BooksTell ==
  ASSUME NodeInv
  PROVE  RetriesMatch
<1> USE DEF NodeInv
<1> DEFINE Started(k) == Count(LAMBDA e : e.ev = "started" /\ e.attempt = k)
           Announced(k) == Count(LAMBDA e : e.ev = "failed" /\ e.attempt = k /\ e.will_retry)
           Settled == Count(LAMBDA e : e.ev = "completed" \/ (e.ev = "failed" /\ ~e.will_retry))
           Panicked == Cardinality({i \in tasks : pc[i] = "panicked"})
<1>1. log \in Seq(Event) /\ \A k \in 1..Len(log) : log[k] \in Event
  BY DEF Shape, NodeShape
<1>2. ASSUME NEW k PROVE Started(k) = Number(log, StartedAt(k)) /\ Announced(k) = Number(log, AnnouncedAt(k))
  <2>1. {j \in 1..Len(log) : log[j].ev = "started" /\ log[j].attempt = k} = Events(log, StartedAt(k))
    BY <1>1 DEF Events, StartedAt
  <2>2. {j \in 1..Len(log) : log[j].ev = "failed" /\ log[j].attempt = k /\ log[j].will_retry} = Events(log, AnnouncedAt(k))
    BY <1>1 DEF Events, AnnouncedAt
  <2> QED
    BY <2>1, <2>2 DEF Count, Number
<1>3. Settled = Number(log, SettledEvents)
  <2>1. {j \in 1..Len(log) : log[j].ev = "completed" \/ (log[j].ev = "failed" /\ ~log[j].will_retry)}
          = Events(log, SettledEvents)
    BY <1>1 DEF Events, SettledEvents
  <2> QED
    BY <2>1 DEF Count, Number
<1> HIDE DEF Started, Announced, Settled
<1>4. ASSUME NEW k \in 1..max_attempts
      PROVE  /\ Started(k + 1) \in Nat /\ Announced(k) \in Nat /\ Cardinality(Due(k)) \in Nat
             /\ Announced(k) = Started(k + 1) + Cardinality(Due(k))
  BY <1>1, <1>2, CountFinite, TaskSets DEF BooksInv
<1>5. /\ Started(1) \in Nat /\ Settled \in Nat /\ Cardinality(Busy) \in Nat
      /\ Started(1) = Settled + Cardinality(Busy)
  BY <1>1, <1>2, <1>3, CountFinite, TaskSets DEF BooksInv
<1>6. \A k \in 1..max_attempts : Started(k + 1) <= Announced(k)
  BY <1>4
<1>7. ASSUME \A i \in tasks : pc[i] \in Fin
      PROVE  (\A k \in 1..max_attempts : Started(k + 1) = Announced(k)) /\ Settled = Started(1) - Panicked
  <2>1. ASSUME NEW k \in 1..max_attempts PROVE Started(k + 1) = Announced(k)
    <3>1. Due(k) = {}
      BY <1>7 DEF Due, DueTask, Fin
    <3>2. Cardinality(Due(k)) = 0
      BY <3>1, FS_EmptySet
    <3> QED
      BY <1>4, <3>2
  <2>2. Busy = {i \in tasks : pc[i] = "panicked"}
    BY <1>7 DEF Busy, BusyTask, Handling, Fin
  <2> QED
    BY <1>5, <2>1, <2>2
<1> QED
  BY <1>6, <1>7 DEF RetriesMatch, Started, Announced, Settled

\* What a reader is told is the status of the node and the number of its attempts.
LEMMA StatusRead ==
  ASSUME NodeInv
  PROVE  StatusAgrees
<1> USE DEF NodeInv
<1>1. SUFFICES ASSUME tasks = {0}
               PROVE  /\ pc[0] \in {"done", "collected"} =>
                           NodeStatus(log) = IF result[0] = "ok" THEN "completed" ELSE "failed"
                      /\ executions = 1 /\ pc[0] \notin {"checkpoint", "done", "collected"} =>
                           NodeStatus(log) = "running"
                      /\ executions = 1 /\ pc[0] # "start" => NodeAttempts(log) = attempt[0]
  BY DEF StatusAgrees
<1>2. StatusTold
  BY <1>1 DEF StatusInv, StatusTold
<1>3. log \in Seq(Event) /\ attempt[0] \in Nat /\ \A k \in 1..Len(log) : log[k].attempt \in Nat
  <2>1. log \in Seq(Event) /\ \A k \in 1..Len(log) : log[k] \in Event
    BY DEF Shape, NodeShape
  <2>2. attempt[0] \in Nat
    BY FanOutFacts, BoundsAssumption DEF Shape, TaskShape
  <2>3. \A e \in Event : e.attempt \in Nat
    BY DEF Event
  <2> QED
    BY <2>1, <2>2, <2>3
<1>4. pc[0] \in {"done", "collected"} => NodeStatus(log) = IF result[0] = "ok" THEN "completed" ELSE "failed"
  <2>1. PICK v : v = IF result[0] = "ok" THEN "completed" ELSE "failed"
    OBVIOUS
  <2>2. pc[0] \in {"done", "collected"} => Tells(log, v)
    BY <1>2, <2>1 DEF StatusTold
  <2> QED
    BY <1>3, <2>1, <2>2, TellsStatus
<1>5. executions = 1 /\ pc[0] \notin {"checkpoint", "done", "collected"} => NodeStatus(log) = "running"
  BY <1>2, <1>3, TellsStatus DEF StatusTold
<1>6. ASSUME executions = 1, pc[0] # "start" PROVE NodeAttempts(log) = attempt[0]
  <2>1. PICK A : A = {log[k].attempt : k \in 1..Len(log)} \cup {0}
    OBVIOUS
  <2>2. attempt[0] \in A /\ (\A y \in A : attempt[0] >= y) /\ \A y \in A : y \in Nat
    BY <1>2, <1>3, <1>6, <2>1 DEF StatusTold
  <2>3. Max(A) \in A /\ \A y \in A : Max(A) >= y
    BY <2>2 DEF Max
  <2>4. PICK m \in Nat : m = Max(A)
    BY <2>2, <2>3
  <2>5. m = attempt[0]
    BY <1>3, <2>2, <2>3, <2>4
  <2> QED
    BY <2>1, <2>4, <2>5 DEF NodeAttempts
<1> QED
  BY <1>4, <1>5, <1>6

-----------------------------------------------------------------------------
(* The attempts extract_node_detail lists *)

\* Every set of numbers has a least one.
LEMMA LeastOf ==
  ASSUME NEW S, S \subseteq Nat, S # {}
  PROVE  \E x \in S : \A y \in S : x <= y
<1>1. PICK x \in S : \A y \in S : ~(<<y, x>> \in OpToRel(<, Nat))
  BY WFMin, NatLessThanWellFounded
<1>2. ASSUME NEW y \in S PROVE x <= y
  <2>1. x \in Nat /\ y \in Nat
    OBVIOUS
  <2>2. ~(y < x)
    BY <1>1, <2>1 DEF OpToRel
  <2> QED
    BY <2>1, <2>2
<1> QED
  BY <1>2

\* The least of some positions, and what Min makes of one more position behind them.
LEMMA MinIs ==
  ASSUME NEW S \in SUBSET Nat, NEW m \in S, \A y \in S : m <= y
  PROVE  Min(S) = m
<1>1. Min(S) \in S /\ \A y \in S : Min(S) <= y
  BY DEF Min
<1>2. m <= Min(S) /\ Min(S) <= m /\ Min(S) \in Nat /\ m \in Nat
  BY <1>1
<1> QED
  BY <1>2

\* The greatest of some numbers up to m, if m is one of them.
LEMMA MaxIs ==
  ASSUME NEW m \in Nat, NEW s \in SUBSET (1..m), m \in s
  PROVE  Max(s) = m
<1>1. \A y \in s : m >= y /\ y \in Int
  OBVIOUS
<1>2. Max(s) \in s /\ \A y \in s : Max(s) >= y
  <2>1. \E x \in s : \A y \in s : x >= y
    BY <1>1
  <2> QED
    BY <2>1 DEF Max
<1>3. Max(s) >= m /\ m >= Max(s) /\ Max(s) \in Int
  BY <1>1, <1>2
<1> QED
  BY <1>3

\* What NodeDetail folds is what AddToDetail makes of the events one after the other.
LEMMA DetailFold ==
  ASSUME NEW events \in Seq(Event)
  PROVE  \E g : /\ g[0] = << >>
                /\ \A k \in 1..Len(events) : g[k] = AddToDetail(g[k - 1], events[k])
                /\ NodeDetail(events) = g[Len(events)]
<1> DEFINE L == Len(events)
           Rec(h, m) == h = [s \in SUBSET (1..m) |-> IF s = {} THEN << >>
                               ELSE AddToDetail(h[s \ {Max(s)}], events[Max(s)])]
           bad == {m \in 0..L : ~\E h : Rec(h, m)}
<1>0. L \in Nat /\ DOMAIN events = 1..L
  OBVIOUS
<1>1. \A m \in 0..L : \E h : Rec(h, m)
  <2> SUFFICES ASSUME bad # {} PROVE FALSE
    OBVIOUS
  <2>1. PICK m \in bad : \A x \in bad : m <= x
    <3>1. bad \subseteq Nat
      BY <1>0
    <3> HIDE DEF bad
    <3> QED
      BY <3>1, LeastOf
  <2>2. m \in 0..L /\ ~\E h : Rec(h, m)
    OBVIOUS
  <2>3. CASE m = 0
    <3> DEFINE h0 == [s \in SUBSET (1..0) |-> << >>]
    <3>1. \A s \in SUBSET (1..0) : s = {}
      OBVIOUS
    <3>2. Rec(h0, 0)
      BY <3>1
    <3> QED
      BY <2>2, <2>3, <3>2
  <2>4. CASE m # 0
    <3>1. m - 1 \in 0..L /\ ~(m <= m - 1) /\ m \in Nat
      BY <1>0, <2>2, <2>4
    <3>2. m - 1 \notin bad
      <4> HIDE DEF bad
      <4> QED
        BY <2>1, <3>1
    <3>3. PICK h : Rec(h, m - 1)
      BY <3>1, <3>2
    <3> DEFINE h2 == [s \in SUBSET (1..m) |-> IF m \in s THEN AddToDetail(h[s \ {m}], events[m]) ELSE h[s]]
    <3>4. ASSUME NEW s \in SUBSET (1..m)
          PROVE  h2[s] = IF s = {} THEN << >> ELSE AddToDetail(h2[s \ {Max(s)}], events[Max(s)])
      <4>1. CASE m \in s
        <5>1. Max(s) = m
          BY <3>1, <4>1, MaxIs
        <5>2. s \ {m} \in SUBSET (1..m) /\ m \notin s \ {m}
          OBVIOUS
        <5>3. h2[s \ {m}] = h[s \ {m}] /\ h2[s] = AddToDetail(h[s \ {m}], events[m])
          BY <4>1, <5>2
        <5> HIDE DEF h2
        <5> QED
          BY <4>1, <5>1, <5>3
      <4>2. CASE m \notin s
        <5>1. s \in SUBSET (1..(m - 1)) /\ s \ {Max(s)} \in SUBSET (1..m) /\ m \notin s \ {Max(s)}
          <6>1. \A x \in s : x \in 1..m /\ x # m
            BY <4>2
          <6>2. \A x \in s : x \in 1..(m - 1)
            BY <3>1, <6>1
          <6> QED
            BY <4>2, <6>2
        <5>2. h[s] = IF s = {} THEN << >> ELSE AddToDetail(h[s \ {Max(s)}], events[Max(s)])
          BY <3>3, <5>1
        <5>3. h2[s] = h[s] /\ h2[s \ {Max(s)}] = h[s \ {Max(s)}]
          BY <4>2, <5>1
        <5> HIDE DEF h2
        <5> QED
          BY <5>2, <5>3
      <4> QED
        BY <4>1, <4>2
    <3>5. h2 = [s \in SUBSET (1..m) |-> h2[s]]
      OBVIOUS
    <3> HIDE DEF h2
    <3>6. Rec(h2, m)
      BY <3>4, <3>5
    <3> QED
      BY <2>2, <3>6
  <2> QED
    BY <2>3, <2>4
<1>2. NodeDetail(events) = (CHOOSE h : Rec(h, L))[1..L]
  BY <1>0 DEF NodeDetail, FoldLeft, MapThenFoldSet
<1>3. \E h : Rec(h, L)
  <2>1. L \in 0..L
    BY <1>0
  <2> HIDE DEF L, Rec
  <2> QED
    BY <1>1, <2>1
<1>4. PICK h : Rec(h, L) /\ NodeDetail(events) = h[1..L]
  <2> HIDE DEF Rec
  <2> QED
    BY <1>2, <1>3
<1> DEFINE g == [k \in 0..L |-> h[1..k]]
<1>5. g[0] = << >>
  <2>1. 1..0 = {} /\ {} \in SUBSET (1..L) /\ 0 \in 0..L
    BY <1>0
  <2>2. h[{}] = << >>
    BY <1>4, <2>1
  <2> QED
    BY <2>1, <2>2
<1>6. ASSUME NEW k \in 1..L PROVE g[k] = AddToDetail(g[k - 1], events[k])
  <2>1. /\ 1..k \in SUBSET (1..L) /\ 1..k # {} /\ (1..k) \ {k} = 1..(k - 1) /\ k \in 0..L /\ k - 1 \in 0..L
    <3>1. k \in Nat /\ 1 <= k /\ k <= L
      BY <1>0
    <3>2. 1..k \subseteq 1..L
      BY <1>0, <3>1
    <3>3. (1..k) \ {k} = 1..(k - 1)
      BY <3>1
    <3>4. 1 \in 1..k /\ k \in 0..L /\ k - 1 \in 0..L
      BY <1>0, <3>1
    <3> QED
      BY <3>2, <3>3, <3>4
  <2>2. Max(1..k) = k
    <3> DEFINE s == 1..k
    <3>1. s \in SUBSET (1..k) /\ k \in s /\ k \in Nat
      BY <1>0
    <3> HIDE DEF s
    <3>2. Max(s) = k
      BY <3>1, MaxIs
    <3> QED
      BY <3>2 DEF s
  <2>3. h[1..k] = AddToDetail(h[(1..k) \ {Max(1..k)}], events[Max(1..k)])
    BY <1>4, <2>1
  <2> QED
    BY <2>1, <2>2, <2>3
<1>7. NodeDetail(events) = g[L]
  BY <1>0, <1>4
<1> HIDE DEF g
<1> QED
  BY <1>5, <1>6, <1>7

\* One more event adds to the attempts listed so far.
LEMMA DetailAppend ==
  ASSUME NEW l \in Seq(Event), NEW e \in Event
  PROVE  NodeDetail(Append(l, e)) = AddToDetail(NodeDetail(l), e)
<1>1. PICK m : m = Append(l, e)
  OBVIOUS
<1>2. m \in Seq(Event) /\ Len(m) = Len(l) + 1 /\ Len(l) \in Nat /\ m[Len(l) + 1] = e /\ \A k \in 1..Len(l) : m[k] = l[k]
  BY <1>1
<1>3. PICK g : /\ g[0] = << >> /\ \A k \in 1..Len(l) : g[k] = AddToDetail(g[k - 1], l[k])
               /\ NodeDetail(l) = g[Len(l)]
  BY DetailFold
<1>4. PICK h : /\ h[0] = << >> /\ \A k \in 1..Len(m) : h[k] = AddToDetail(h[k - 1], m[k])
               /\ NodeDetail(m) = h[Len(m)]
  BY <1>2, DetailFold
<1> DEFINE bad == {k \in 0..Len(l) : g[k] # h[k]}
<1>5. bad = {}
  <2> SUFFICES ASSUME bad # {} PROVE FALSE
    OBVIOUS
  <2>1. PICK k \in bad : \A x \in bad : k <= x
    <3>1. bad \subseteq Nat
      BY <1>2
    <3> HIDE DEF bad
    <3> QED
      BY <3>1, LeastOf
  <2>2. k \in 0..Len(l) /\ g[k] # h[k]
    OBVIOUS
  <2>3. k # 0 /\ k \in 1..Len(l) /\ k \in 1..Len(m) /\ k - 1 \in 0..Len(l) /\ ~(k <= k - 1)
    BY <1>2, <1>3, <1>4, <2>2
  <2>4. g[k - 1] = h[k - 1]
    <3>1. k - 1 \notin bad
      <4> HIDE DEF bad
      <4> QED
        BY <2>1, <2>3
    <3> QED
      BY <2>3, <3>1
  <2>5. g[k] = AddToDetail(g[k - 1], l[k])
    BY <1>3, <2>3
  <2>6. h[k] = AddToDetail(h[k - 1], m[k])
    BY <1>4, <2>3
  <2>7. m[k] = l[k]
    BY <1>2, <2>3
  <2> QED
    BY <2>2, <2>4, <2>5, <2>6, <2>7
<1>6. g[Len(l)] = h[Len(l)]
  <2>1. Len(l) \in 0..Len(l)
    BY <1>2
  <2> QED
    BY <1>5, <2>1
<1>7. h[Len(l) + 1] = AddToDetail(h[(Len(l) + 1) - 1], m[Len(l) + 1])
  <2>1. Len(l) + 1 \in 1..Len(m)
    BY <1>2
  <2> QED
    BY <1>4, <2>1
<1>8. (Len(l) + 1) - 1 = Len(l)
  BY <1>2
<1> QED
  BY <1>1, <1>2, <1>3, <1>4, <1>6, <1>7, <1>8

\* Attempts without an end in the log.
Unended(l) == {p \in Starts(l) : EndsAfter(l, p) = {}}
Attempts == [index : Instances, attempt : Nat, end : {"open", "completed", "failed"}]
\* d lists the attempts of the log l, the k-th of which starts at at[k].
Placed(l, d, at) ==
  /\ d \in Seq(Attempts) /\ at \in Seq(Nat) /\ Len(at) = Len(d)
  /\ \A j, k \in 1..Len(at) : j < k => at[j] < at[k]
  /\ \A k \in 1..Len(at) : at[k] \in Starts(l) /\ d[k] = AttemptAt(l, at[k])
  /\ \A p \in Starts(l) : \E k \in 1..Len(at) : at[k] = p

\* The same log with one more event.
LEMMA MoreFacts ==
  ASSUME NEW l \in Seq(Event), NEW e \in Event
  PROVE  /\ Append(l, e) \in Seq(Event) /\ Len(l) \in Nat /\ Len(Append(l, e)) = Len(l) + 1
         /\ Append(l, e)[Len(l) + 1] = e /\ \A k \in 1..Len(l) : Append(l, e)[k] = l[k]
         /\ Len(l) + 1 \notin Starts(l) /\ Starts(l) \subseteq 1..Len(l)
         /\ \A p \in Starts(l) : p \in Nat /\ p \in 1..Len(l) /\ l[p] \in Event
         /\ Starts(Append(l, e)) = IF e.ev = "started" THEN Starts(l) \cup {Len(l) + 1} ELSE Starts(l)
<1>1. /\ Append(l, e) \in Seq(Event) /\ Len(l) \in Nat /\ Len(Append(l, e)) = Len(l) + 1
      /\ Append(l, e)[Len(l) + 1] = e /\ \A k \in 1..Len(l) : Append(l, e)[k] = l[k]
  OBVIOUS
<1>2. Len(l) + 1 \notin Starts(l) /\ Starts(l) \subseteq 1..Len(l)
  BY <1>1 DEF Starts
<1>3. \A p \in Starts(l) : p \in Nat /\ p \in 1..Len(l) /\ l[p] \in Event
  BY <1>1, <1>2
<1>4. 1..Len(Append(l, e)) = 1..Len(l) \cup {Len(l) + 1}
  BY <1>1
<1>5. Starts(Append(l, e)) = IF e.ev = "started" THEN Starts(l) \cup {Len(l) + 1} ELSE Starts(l)
  BY <1>1, <1>4 DEF Starts
<1> QED
  BY <1>1, <1>2, <1>3, <1>5

\* The ends an attempt has, and the attempt, with one more event.
LEMMA EndsAppend ==
  ASSUME NEW l \in Seq(Event), NEW e \in Event, NEW p \in 1..Len(l)
  PROVE  /\ EndsAfter(l, p) \subseteq 1..Len(l)
         /\ EndsAfter(Append(l, e), p) =
              IF e.ev \in {"completed", "failed"} /\ e.index = l[p].index
              THEN EndsAfter(l, p) \cup {Len(l) + 1} ELSE EndsAfter(l, p)
<1> DEFINE m == Append(l, e)
<1>1. /\ Len(l) \in Nat /\ Len(m) = Len(l) + 1 /\ m[Len(l) + 1] = e /\ \A k \in 1..Len(l) : m[k] = l[k]
      /\ p \in Nat /\ 1 <= p /\ p <= Len(l)
  OBVIOUS
<1> HIDE DEF m
<1>2. (p + 1)..Len(m) = (p + 1)..Len(l) \cup {Len(l) + 1} /\ (p + 1)..Len(l) \subseteq 1..Len(l)
  BY <1>1
<1>3. EndsAfter(l, p) \subseteq 1..Len(l)
  BY <1>2 DEF EndsAfter
<1>4. m[p] = l[p]
  BY <1>1
<1>5. ASSUME NEW q
      PROVE  q \in EndsAfter(m, p) <=>
               (q \in EndsAfter(l, p) \/ (q = Len(l) + 1 /\ e.ev \in {"completed", "failed"} /\ e.index = l[p].index))
  BY <1>1, <1>2, <1>4 DEF EndsAfter
<1>6. EndsAfter(m, p) = IF e.ev \in {"completed", "failed"} /\ e.index = l[p].index
                        THEN EndsAfter(l, p) \cup {Len(l) + 1} ELSE EndsAfter(l, p)
  BY <1>5
<1> QED
  BY <1>3, <1>6 DEF m

\* An attempt changes with an event only if that is its first end.
LEMMA AttemptAppend ==
  ASSUME NEW l \in Seq(Event), NEW e \in Event, NEW p \in Starts(l)
  PROVE  AttemptAt(Append(l, e), p) =
           IF p \in Unended(l) /\ e.ev \in {"completed", "failed"} /\ e.index = l[p].index
           THEN [AttemptAt(l, p) EXCEPT !.end = e.ev] ELSE AttemptAt(l, p)
<1> DEFINE m == Append(l, e)
           E == EndsAfter(l, p)
           F == EndsAfter(m, p)
<1>1. /\ Len(l) \in Nat /\ m[Len(l) + 1] = e /\ m[p] = l[p] /\ p \in 1..Len(l)
      /\ \A k \in 1..Len(l) : m[k] = l[k]
  BY MoreFacts
<1>2. E \subseteq 1..Len(l) /\ F = IF e.ev \in {"completed", "failed"} /\ e.index = l[p].index
                                   THEN E \cup {Len(l) + 1} ELSE E
  BY <1>1, EndsAppend
<1>3. p \in Unended(l) <=> E = {}
  BY DEF Unended
<1>4. /\ AttemptAt(l, p) = [index |-> l[p].index, attempt |-> l[p].attempt, end |-> IF E = {} THEN "open" ELSE l[Min(E)].ev]
      /\ AttemptAt(m, p) = [index |-> l[p].index, attempt |-> l[p].attempt, end |-> IF F = {} THEN "open" ELSE m[Min(F)].ev]
  BY <1>1 DEF AttemptAt
<1> HIDE DEF m, E, F
<1>5. ASSUME E # {} PROVE Min(F) = Min(E) /\ Min(E) \in 1..Len(l)
  <2>0. 1..Len(l) \subseteq Nat /\ Len(l) + 1 \in Nat
    BY <1>1
  <2>1. E \subseteq Nat /\ F \subseteq Nat
    BY <1>2, <2>0
  <2>2. PICK x \in E : \A y \in E : x <= y
    BY <1>5, <2>1, LeastOf
  <2>3. x \in F /\ x <= Len(l) /\ x \in Nat /\ x \in 1..Len(l)
    BY <1>1, <1>2
  <2>4. \A y \in F : x <= y
    BY <1>1, <1>2, <2>2, <2>3
  <2>5. Min(E) = x
    BY <2>1, <2>2, MinIs
  <2>6. Min(F) = x
    BY <2>1, <2>3, <2>4, MinIs
  <2> QED
    BY <2>3, <2>5, <2>6
<1>6. CASE E # {}
  <2>1. F # {} /\ m[Min(F)] = l[Min(E)]
    BY <1>1, <1>2, <1>5, <1>6
  <2> QED
    BY <1>3, <1>4, <1>6, <2>1 DEF m
<1>7. CASE E = {} /\ e.ev \in {"completed", "failed"} /\ e.index = l[p].index
  <2>1. F = {Len(l) + 1}
    BY <1>2, <1>7
  <2>2. Min(F) = Len(l) + 1
    <3>1. F \in SUBSET Nat /\ Len(l) + 1 \in F /\ \A y \in F : Len(l) + 1 <= y
      BY <1>1, <2>1
    <3> QED
      BY <3>1, MinIs
  <2>3. AttemptAt(m, p) = [AttemptAt(l, p) EXCEPT !.end = e.ev]
    BY <1>1, <1>4, <1>7, <2>1, <2>2
  <2> QED
    BY <1>3, <1>7, <2>3 DEF m
<1>8. CASE E = {} /\ ~(e.ev \in {"completed", "failed"} /\ e.index = l[p].index)
  BY <1>2, <1>3, <1>4, <1>8 DEF m
<1> QED
  BY <1>6, <1>7, <1>8

\* The attempts without an end, after one more event.
LEMMA UnendedAppend ==
  ASSUME NEW l \in Seq(Event), NEW e \in Event
  PROVE  /\ Unended(l) \subseteq Starts(l)
         /\ e.ev = "started" => Unended(Append(l, e)) = Unended(l) \cup {Len(l) + 1}
         /\ e.ev \in {"completed", "failed"} => Unended(Append(l, e)) = {p \in Unended(l) : l[p].index # e.index}
         /\ e.ev \notin {"started", "completed", "failed"} => Unended(Append(l, e)) = Unended(l)
<1> DEFINE m == Append(l, e)
<1>1. /\ Len(l) \in Nat /\ Len(m) = Len(l) + 1 /\ Len(l) + 1 \notin Starts(l) /\ Starts(l) \subseteq 1..Len(l)
      /\ Starts(m) = IF e.ev = "started" THEN Starts(l) \cup {Len(l) + 1} ELSE Starts(l)
  BY MoreFacts
<1>2. ASSUME NEW p \in Starts(l)
      PROVE  EndsAfter(m, p) = IF e.ev \in {"completed", "failed"} /\ e.index = l[p].index
                               THEN EndsAfter(l, p) \cup {Len(l) + 1} ELSE EndsAfter(l, p)
  BY <1>1, EndsAppend
<1>3. EndsAfter(m, Len(l) + 1) = {}
  <2>1. ((Len(l) + 1) + 1)..Len(m) = {}
    BY <1>1
  <2> QED
    BY <2>1 DEF EndsAfter
<1> HIDE DEF m
<1>4. Unended(l) \subseteq Starts(l)
  BY DEF Unended
<1>5. e.ev = "started" => Unended(m) = Unended(l) \cup {Len(l) + 1}
  BY <1>1, <1>2, <1>3 DEF Unended
<1>6. e.ev \in {"completed", "failed"} => Unended(m) = {p \in Unended(l) : l[p].index # e.index}
  BY <1>1, <1>2 DEF Unended
<1>7. e.ev \notin {"started", "completed", "failed"} => Unended(m) = Unended(l)
  BY <1>1, <1>2 DEF Unended
<1> QED
  BY <1>4, <1>5, <1>6, <1>7 DEF m

\* An attempt started now is the last of the list.
LEMMA PlacedStart ==
  ASSUME NEW l \in Seq(Event), NEW e \in Event, NEW d, NEW at, Placed(l, d, at), e.ev = "started"
  PROVE  Placed(Append(l, e), AddToDetail(d, e), Append(at, Len(l) + 1))
<1> DEFINE m == Append(l, e)
           n == Len(l) + 1
           x == [index |-> e.index, attempt |-> e.attempt, end |-> "open"]
           c == Append(d, x)
           bt == Append(at, n)
<1>1. /\ n \in Nat /\ Starts(m) = Starts(l) \cup {n} /\ m[n] = e /\ n \notin Starts(l)
      /\ \A p \in Starts(l) : p \in Nat /\ p < n
  BY MoreFacts
<1>2. AddToDetail(d, e) = c
  BY DEF AddToDetail
<1>3. d \in Seq(Attempts) /\ at \in Seq(Nat) /\ Len(at) = Len(d) /\ x \in Attempts
  BY DEF Placed, Attempts, Event
<1>4. AttemptAt(m, n) = x
  <2>1. Len(m) = n
    BY MoreFacts
  <2>2. EndsAfter(m, n) = {}
    <3>1. (n + 1)..Len(m) = {}
      BY <1>1, <2>1
    <3> QED
      BY <3>1 DEF EndsAfter
  <2> QED
    BY <1>1, <2>2 DEF AttemptAt
<1>5. \A p \in Starts(l) : AttemptAt(m, p) = AttemptAt(l, p)
  BY AttemptAppend
<1>6. /\ Len(bt) = Len(at) + 1 /\ Len(c) = Len(d) + 1 /\ bt \in Seq(Nat) /\ c \in Seq(Attempts) /\ Len(at) \in Nat
      /\ bt[Len(at) + 1] = n /\ c[Len(at) + 1] = x
      /\ \A k \in 1..Len(at) : bt[k] = at[k] /\ c[k] = d[k]
  BY <1>1, <1>3
<1> HIDE DEF m, n, x, c, bt
<1>7. 1..Len(bt) = 1..Len(at) \cup {Len(at) + 1}
  BY <1>6
<1>8. ASSUME NEW j \in 1..Len(bt), NEW k \in 1..Len(bt), j < k PROVE bt[j] < bt[k]
  <2>1. j \in 1..Len(at)
    BY <1>6, <1>8
  <2>2. CASE k \in 1..Len(at)
    BY <1>6, <1>8, <2>1, <2>2 DEF Placed
  <2>3. CASE k = Len(at) + 1
    <3>1. at[j] \in Starts(l)
      BY <2>1 DEF Placed
    <3> QED
      BY <1>1, <1>6, <2>1, <2>3, <3>1
  <2> QED
    BY <1>7, <2>2, <2>3
<1>9. ASSUME NEW k \in 1..Len(bt) PROVE bt[k] \in Starts(m) /\ c[k] = AttemptAt(m, bt[k])
  <2>1. CASE k \in 1..Len(at)
    <3>1. at[k] \in Starts(l) /\ d[k] = AttemptAt(l, at[k])
      BY <2>1 DEF Placed
    <3> QED
      BY <1>1, <1>5, <1>6, <2>1, <3>1
  <2>2. CASE k = Len(at) + 1
    BY <1>1, <1>4, <1>6, <2>2
  <2> QED
    BY <1>7, <2>1, <2>2
<1>10. ASSUME NEW p \in Starts(m) PROVE \E k \in 1..Len(bt) : bt[k] = p
  <2>1. CASE p = n
    BY <1>6, <1>7, <2>1
  <2>2. CASE p \in Starts(l)
    <3>1. PICK k \in 1..Len(at) : at[k] = p
      BY <2>2 DEF Placed
    <3> QED
      BY <1>6, <1>7, <3>1
  <2> QED
    BY <1>1, <2>1, <2>2
<1>11. Placed(m, c, bt)
  BY <1>3, <1>6, <1>8, <1>9, <1>10 DEF Placed
<1> QED
  BY <1>2, <1>11 DEF m, n, bt

\* An end event ends its attempt, if the reader can tell which one that is.
LEMMA PlacedEnd ==
  ASSUME NEW l \in Seq(Event), NEW e \in Event, NEW d, NEW at, Placed(l, d, at), e.ev \in {"completed", "failed"},
         NEW p \in Unended(l), l[p].index = e.index,
         \A q \in Unended(l) : (e.ev = "completed" => l[q].index = e.index) => q = p
  PROVE  Placed(Append(l, e), AddToDetail(d, e), at)
<1> DEFINE m == Append(l, e)
           c == AddToDetail(d, e)
<1>1. Starts(m) = Starts(l) /\ p \in Starts(l)
  BY MoreFacts, UnendedAppend
<1>2. d \in Seq(Attempts) /\ at \in Seq(Nat) /\ Len(at) = Len(d) /\ Len(d) \in Nat
  BY DEF Placed
<1>3. PICK r \in 1..Len(at) : at[r] = p
  BY <1>1 DEF Placed
<1>4. ASSUME NEW k \in 1..Len(at), at[k] = p PROVE k = r
  <2>1. k \in Nat /\ r \in Nat /\ at[k] \in Nat /\ ~(at[k] < at[r]) /\ ~(at[r] < at[k])
    BY <1>2, <1>3, <1>4
  <2>2. ~(k < r) /\ ~(r < k)
    BY <2>1 DEF Placed
  <2> QED
    BY <2>1, <2>2
<1>5. ASSUME NEW k \in 1..Len(at)
      PROVE  /\ at[k] \in Starts(l) /\ d[k] = AttemptAt(l, at[k])
             /\ d[k].index = l[at[k]].index /\ (d[k].end = "open" <=> at[k] \in Unended(l))
  <2>1. at[k] \in Starts(l) /\ d[k] = AttemptAt(l, at[k])
    BY DEF Placed
  <2>2. d[k].index = l[at[k]].index
    BY <2>1 DEF AttemptAt
  <2>3. at[k] \in Unended(l) => d[k].end = "open"
    BY <2>1 DEF AttemptAt, Unended
  <2>4. ASSUME at[k] \notin Unended(l) PROVE d[k].end # "open"
    <3> DEFINE E == EndsAfter(l, at[k])
    <3>1. E # {} /\ E \subseteq Nat /\ \A q \in E : l[q].ev \in {"completed", "failed"}
      <4>1. E \subseteq 1..Len(l)
        BY <2>1, MoreFacts, EndsAppend
      <4>2. E # {}
        BY <2>1, <2>4 DEF Unended
      <4> QED
        BY <4>1, <4>2 DEF EndsAfter
    <3>2. PICK y \in E : \A z \in E : y <= z
      <4> HIDE DEF E
      <4> QED
        BY <3>1, LeastOf
    <3>3. Min(E) = y
      <4> HIDE DEF E
      <4> QED
        BY <3>1, <3>2, MinIs
    <3>4. d[k].end = l[y].ev
      BY <2>1, <3>1, <3>3 DEF AttemptAt
    <3> QED
      BY <3>1, <3>4
  <2> QED
    BY <2>1, <2>2, <2>3, <2>4
<1>6. OpenAttempt(d, e) = {r}
  <2>1. ASSUME NEW k \in OpenAttempt(d, e) PROVE k = r
    <3>1. k \in 1..Len(at) /\ d[k].end = "open" /\ (e.ev = "completed" => d[k].index = e.index)
      BY <1>2 DEF OpenAttempt
    <3>2. at[k] \in Unended(l) /\ (e.ev = "completed" => l[at[k]].index = e.index)
      BY <1>5, <3>1
    <3> QED
      BY <1>4, <3>1, <3>2
  <2>2. r \in OpenAttempt(d, e)
    BY <1>2, <1>3, <1>5 DEF OpenAttempt
  <2> QED
    BY <2>1, <2>2
<1>7. Max({r}) = r
  <2>1. r \in Nat /\ {r} \in SUBSET (1..r) /\ r \in {r}
    BY <1>2
  <2> DEFINE s == {r}
  <2>2. s \in SUBSET (1..r) /\ r \in s
    BY <2>1
  <2> HIDE DEF s
  <2>3. Max(s) = r
    BY <2>1, <2>2, MaxIs
  <2> QED
    BY <2>3 DEF s
<1>8. c = [d EXCEPT ![r].end = e.ev]
  <2>1. e.ev # "started" /\ OpenAttempt(d, e) # {}
    BY <1>6
  <2> QED
    BY <1>6, <1>7, <2>1 DEF AddToDetail
<1>9. d[r] \in Attempts /\ [d[r] EXCEPT !.end = e.ev] \in Attempts
  <2>1. d[r] \in Attempts
    BY <1>2, <1>3
  <2> QED
    BY <2>1 DEF Attempts
<1>10. /\ c \in Seq(Attempts) /\ Len(c) = Len(d) /\ c[r] = [d[r] EXCEPT !.end = e.ev]
       /\ \A k \in 1..Len(d) : k # r => c[k] = d[k]
  BY <1>2, <1>3, <1>8, <1>9
<1> HIDE DEF c
<1>11. ASSUME NEW k \in 1..Len(at) PROVE c[k] = AttemptAt(m, at[k])
  <2>1. at[k] \in Starts(l) /\ d[k] = AttemptAt(l, at[k])
    BY <1>5
  <2>2. AttemptAt(m, at[k]) = IF at[k] \in Unended(l) /\ e.ev \in {"completed", "failed"} /\ e.index = l[at[k]].index
                              THEN [AttemptAt(l, at[k]) EXCEPT !.end = e.ev] ELSE AttemptAt(l, at[k])
    BY <2>1, AttemptAppend
  <2>3. CASE k = r
    BY <1>3, <1>10, <2>1, <2>2, <2>3
  <2>4. CASE k # r
    <3>1. ~(at[k] \in Unended(l) /\ e.index = l[at[k]].index)
      BY <1>4, <2>4
    <3>2. c[k] = d[k]
      BY <1>2, <1>10, <2>4
    <3> QED
      BY <2>1, <2>2, <3>1, <3>2
  <2> QED
    BY <2>3, <2>4
<1> HIDE DEF m
<1>12. Placed(m, c, at)
  BY <1>1, <1>2, <1>10, <1>11 DEF Placed
<1> QED
  BY <1>12 DEF m, c

\* Any other event changes nothing in the list.
LEMMA PlacedOther ==
  ASSUME NEW l \in Seq(Event), NEW e \in Event, NEW d, NEW at, Placed(l, d, at),
         e.ev \notin {"started", "completed", "failed"}
  PROVE  Placed(Append(l, e), AddToDetail(d, e), at) /\ AddToDetail(d, e) = d
<1>1. AddToDetail(d, e) = d
  BY DEF AddToDetail
<1>2. Starts(Append(l, e)) = Starts(l)
  BY MoreFacts
<1>3. \A p \in Starts(l) : AttemptAt(Append(l, e), p) = AttemptAt(l, p)
  BY AttemptAppend
<1> QED
  BY <1>1, <1>2, <1>3 DEF Placed

\* Records of LLM calls change nothing in it.
LEMMA PlacedLlm ==
  ASSUME NEW l \in Seq(Event), NEW at, Placed(l, NodeDetail(l), at), NEW n \in Nat
  PROVE  LET m == l \o [k \in 1..n |-> LlmInvocation]
         IN  Placed(m, NodeDetail(m), at) /\ Unended(m) = Unended(l)
<1> DEFINE d == NodeDetail(l)
           O == Unended(l)
           Q(j) == l \o [k \in 1..j |-> LlmInvocation]
           Same(j) == /\ Q(j) \in Seq(Event) /\ NodeDetail(Q(j)) = d /\ Unended(Q(j)) = O
                      /\ Placed(Q(j), d, at)
           bad == {j \in 0..n : ~Same(j)}
<1>1. LlmInvocation \in Event /\ LlmInvocation.ev = "llm"
  BY EventFacts, FanOutFacts DEF LlmInvocation
<1>2. ASSUME NEW j \in Nat PROVE [k \in 1..j |-> LlmInvocation] \in Seq(Event)
  BY <1>1
<1>3. ASSUME NEW j \in Nat, j # 0 PROVE Q(j) = Append(Q(j - 1), LlmInvocation)
  <2> DEFINE a == [k \in 1..(j - 1) |-> LlmInvocation]
             b == [k \in 1..j |-> LlmInvocation]
  <2>1. j - 1 \in Nat
    BY <1>3
  <2>2. a \in Seq(Event) /\ b \in Seq(Event) /\ Len(a) = j - 1 /\ Len(b) = j
    <3>1. a \in Seq(Event) /\ b \in Seq(Event)
      BY <1>2, <2>1
    <3>2. DOMAIN a = 1..(j - 1) /\ DOMAIN b = 1..j
      OBVIOUS
    <3> HIDE DEF a, b
    <3> QED
      BY <2>1, <3>1, <3>2
  <2>3. b = Append(a, LlmInvocation)
    BY <1>1, <2>1, <2>2
  <2> HIDE DEF a, b
  <2>4. l \o Append(a, LlmInvocation) = Append(l \o a, LlmInvocation)
    BY <1>1, <2>2
  <2> QED
    BY <2>3, <2>4 DEF a, b
<1>4. Q(0) = l
  <2>1. [k \in 1..0 |-> LlmInvocation] = << >>
    OBVIOUS
  <2> QED
    BY <2>1
<1>5. bad = {}
  <2> SUFFICES ASSUME bad # {} PROVE FALSE
    OBVIOUS
  <2>1. PICK j \in bad : \A x \in bad : j <= x
    <3>1. bad \subseteq Nat
      OBVIOUS
    <3> HIDE DEF bad
    <3> QED
      BY <3>1, LeastOf
  <2>2. j \in 0..n /\ ~Same(j)
    OBVIOUS
  <2> HIDE DEF Q
  <2>3. j # 0
    BY <1>4, <2>2
  <2>4. j \in Nat /\ j - 1 \in 0..n /\ ~(j <= j - 1)
    BY <2>2, <2>3
  <2>5. Same(j - 1)
    <3>1. j - 1 \notin bad
      <4> HIDE DEF bad
      <4> QED
        BY <2>1, <2>4
    <3> HIDE DEF Same
    <3> QED
      BY <2>4, <3>1
  <2>6. PICK r : r = Q(j - 1)
    OBVIOUS
  <2>7. r \in Seq(Event) /\ NodeDetail(r) = d /\ Unended(r) = O /\ Placed(r, d, at) /\ Q(j) = Append(r, LlmInvocation)
    BY <1>3, <2>3, <2>4, <2>5, <2>6
  <2>8. Placed(Append(r, LlmInvocation), AddToDetail(d, LlmInvocation), at) /\ AddToDetail(d, LlmInvocation) = d
    <3>1. LlmInvocation.ev \notin {"started", "completed", "failed"}
      BY <1>1
    <3> HIDE DEF d
    <3> QED
      BY <1>1, <2>7, <3>1, PlacedOther
  <2>9. NodeDetail(Append(r, LlmInvocation)) = d
    BY <1>1, <2>7, <2>8, DetailAppend
  <2>10. Unended(Append(r, LlmInvocation)) = O /\ Append(r, LlmInvocation) \in Seq(Event)
    BY <1>1, <2>7, UnendedAppend
  <2> QED
    BY <2>2, <2>7, <2>8, <2>9, <2>10
<1>6. Same(n)
  <2>1. n \in 0..n
    OBVIOUS
  <2> HIDE DEF Same
  <2> QED
    BY <1>5, <2>1
<1> QED
  BY <1>6

\* The log of a node without fan-out, or of one without a failure.
Plain(l) == \A k \in 1..Len(l) : l[k].ev = "failed" => \A j \in 1..Len(l) : l[j].index = 0
\* Task i has started an attempt that has no end in the log.
Tried == Handling \cup {"returned", "panicked"}
Trying(i) == pc[i] \in Tried
UnendedInv ==
  /\ \A p \in Unended(log) : log[p].index \in tasks /\ Trying(log[p].index)
  /\ \A i \in tasks : Trying(i) => \E p \in Unended(log) : log[p].index = i
  /\ \A p, q \in Unended(log) : log[p].index = log[q].index => p = q
DetailInv == Plain(log) => (\E at : Placed(log, NodeDetail(log), at)) /\ UnendedInv

\* A longer log is plain only if the log was.
LEMMA PlainGrows ==
  ASSUME Grown, Plain(log')
  PROVE  Plain(log)
<1>1. \A k \in 1..Len(log) : k \in 1..Len(log') /\ log'[k] = log[k]
  BY DEF Grown
<1> QED
  BY <1>1 DEF Plain

\* Nothing is logged and no attempt starts or ends.
LEMMA DetailStays ==
  ASSUME DetailInv, log' = log, tasks' = tasks, \A j \in tasks : Trying(j)' <=> Trying(j)
  PROVE  DetailInv'
<1> SUFFICES ASSUME Plain(log) PROVE UnendedInv'
  BY DEF DetailInv
<1>1. UnendedInv
  BY DEF DetailInv
<1>2. \A p \in Unended(log) : log[p].index \in tasks /\ Trying(log[p].index)'
  BY <1>1 DEF UnendedInv
<1>3. \A i \in tasks : Trying(i)' => \E p \in Unended(log) : log[p].index = i
  BY <1>1 DEF UnendedInv
<1> QED
  BY <1>1, <1>2, <1>3 DEF UnendedInv, Trying

\* An attempt starts.
LEMMA DetailStarted ==
  ASSUME Shape, DetailInv, NEW i \in tasks, emit_started(i), Grown
  PROVE  DetailInv'
<1> SUFFICES ASSUME Plain(log') PROVE (\E at : Placed(log', NodeDetail(log'), at)) /\ UnendedInv'
  BY DEF DetailInv
<1>1. log \in Seq(Event) /\ i \in Instances /\ tasks \subseteq Instances /\ pc \in [Instances -> Stages]
  BY TaskSets DEF Shape, NodeShape, TaskShape
<1>2. PICK e : e = NodeStarted(i, attempt[i])
  OBVIOUS
<1>3. e \in Event /\ e.ev = "started" /\ e.index = i /\ log' = Append(log, e)
  <2>1. attempt[i] \in Nat
    BY <1>1, BoundsAssumption DEF Shape, TaskShape
  <2> QED
    BY <1>1, <1>2, <2>1, EventFacts DEF NodeStarted, emit_started
<1>4. PICK at : Placed(log, NodeDetail(log), at)
  BY PlainGrows DEF DetailInv
<1>5. UnendedInv
  BY PlainGrows DEF DetailInv
<1>6. Placed(log', NodeDetail(log'), Append(at, Len(log) + 1))
  BY <1>1, <1>3, <1>4, PlacedStart, DetailAppend
<1>7. /\ Unended(log') = Unended(log) \cup {Len(log) + 1} /\ log'[Len(log) + 1] = e
      /\ \A p \in Unended(log) : log'[p] = log[p]
  BY <1>1, <1>3, MoreFacts, UnendedAppend
<1>8. tasks' = tasks /\ ~Trying(i) /\ Trying(i)' /\ \A j \in tasks : j # i => (Trying(j)' <=> Trying(j))
  BY <1>1 DEF emit_started, nodeVars, Trying, Tried, Handling
<1>9. \A p \in Unended(log) : log[p].index \in tasks /\ Trying(log[p].index) /\ log[p].index # i
  BY <1>5, <1>8 DEF UnendedInv
<1>10. \A p \in Unended(log') : log'[p].index \in tasks' /\ pc'[log'[p].index] \in Tried
  BY <1>3, <1>7, <1>8, <1>9 DEF Trying
<1>11. \A j \in tasks' : Trying(j)' => \E p \in Unended(log') : log'[p].index = j
  <2> SUFFICES ASSUME NEW j \in tasks, Trying(j)' PROVE \E p \in Unended(log') : log'[p].index = j
    BY <1>8
  <2>1. CASE j = i
    BY <1>3, <1>7, <2>1
  <2>2. CASE j # i
    <3>1. PICK p \in Unended(log) : log[p].index = j
      BY <1>5, <1>8, <2>2 DEF UnendedInv
    <3> QED
      BY <1>7, <3>1
  <2> QED
    BY <2>1, <2>2
<1>12. \A p, q \in Unended(log') : log'[p].index = log'[q].index => p = q
  <2>1. \A p, q \in Unended(log) : log[p].index = log[q].index => p = q
    BY <1>5 DEF UnendedInv
  <2>2. \A p \in Unended(log) : log'[p].index = log[p].index /\ log[p].index # i
    BY <1>7, <1>9
  <2>3. log'[Len(log) + 1].index = i
    BY <1>3, <1>7
  <2> QED
    BY <1>7, <2>1, <2>2, <2>3
<1>13. UnendedInv'
  BY <1>10, <1>11, <1>12 DEF UnendedInv, Trying
<1> QED
  BY <1>6, <1>13

\* An attempt ends.
LEMMA DetailEnded ==
  ASSUME Shape, DetailInv, NEW i \in tasks, emit_outcome(i), Grown
  PROVE  DetailInv'
<1> SUFFICES ASSUME Plain(log') PROVE (\E at : Placed(log', NodeDetail(log'), at)) /\ UnendedInv'
  BY DEF DetailInv
<1>1. log \in Seq(Event) /\ i \in Instances /\ tasks \subseteq Instances /\ pc \in [Instances -> Stages]
  BY TaskSets DEF Shape, NodeShape, TaskShape
<1>2. PICK e \in Event : /\ log' = Append(log, e) /\ e.ev \in {"completed", "failed"}
                         /\ (e.ev = "completed" => e.index = i) /\ (e.ev = "failed" => e.index = 0)
                         /\ pc'[i] \in {"checkpoint", "backoff", "done"}
  <2>1. PICK e \in Event : /\ log' = Append(log, e)
           /\ \/ /\ e.ev = "completed" /\ e.index = i /\ e.attempt = 0 /\ ~e.will_retry
                 /\ pc'[i] = "checkpoint" /\ result[i] = "ok"
              \/ /\ e.ev = "failed" /\ e.index = 0 /\ e.attempt = attempt[i] /\ e.will_retry
                 /\ pc'[i] = "backoff" /\ attempt[i] < max_attempts /\ result[i] = "retryable"
              \/ /\ e.ev = "failed" /\ e.index = 0 /\ e.attempt = attempt[i] /\ ~e.will_retry
                 /\ pc'[i] = "done" /\ result[i] # "ok"
    BY <1>1, OutcomeEffects
  <2> QED
    BY <2>1
<1>3. PICK at : Placed(log, NodeDetail(log), at)
  BY PlainGrows DEF DetailInv
<1>4. UnendedInv
  BY PlainGrows DEF DetailInv
<1>5. tasks' = tasks /\ Trying(i) /\ ~Trying(i)' /\ \A j \in tasks : j # i => (Trying(j)' <=> Trying(j))
  <2>1. pc[i] = "returned" /\ tasks' = tasks /\ \A j \in tasks : j # i => pc'[j] = pc[j]
    BY <1>1 DEF emit_outcome, nodeVars
  <2> QED
    BY <1>2, <2>1 DEF Trying, Tried, Handling
<1>6. PICK p \in Unended(log) : log[p].index = i
  BY <1>4, <1>5 DEF UnendedInv
<1>7. /\ Unended(log') = {q \in Unended(log) : log[q].index # e.index} /\ Unended(log) \subseteq 1..Len(log)
      /\ \A q \in 1..Len(log) : log'[q] = log[q] /\ q \in 1..Len(log')
      /\ Len(log) + 1 \in 1..Len(log') /\ log'[Len(log) + 1] = e
  <2>1. /\ Unended(log) \subseteq Starts(log) /\ Starts(log) \subseteq 1..Len(log)
        /\ Unended(log') = {q \in Unended(log) : log[q].index # e.index}
    BY <1>1, <1>2, MoreFacts, UnendedAppend
  <2>2. Len(log) \in Nat /\ Len(log') = Len(log) + 1 /\ log'[Len(log) + 1] = e /\ \A q \in 1..Len(log) : log'[q] = log[q]
    BY <1>1, <1>2, MoreFacts
  <2> QED
    BY <2>1, <2>2
<1>8. ASSUME e.ev = "failed" PROVE \A q \in 1..Len(log) : log[q].index = 0
  BY <1>7, <1>8 DEF Plain
<1>9. e.index = i
  BY <1>2, <1>6, <1>7, <1>8
<1>10. \A q \in Unended(log) : (e.ev = "completed" => log[q].index = e.index) => q = p
  <2> SUFFICES ASSUME NEW q \in Unended(log), e.ev = "completed" => log[q].index = e.index PROVE log[q].index = log[p].index
    BY <1>4 DEF UnendedInv
  <2> QED
    BY <1>2, <1>6, <1>7, <1>8, <1>9
<1>11. Placed(log', NodeDetail(log'), at)
  <2>1. log[p].index = e.index
    BY <1>6, <1>9
  <2>2. PICK d : d = NodeDetail(log)
    OBVIOUS
  <2>3. Placed(Append(log, e), AddToDetail(d, e), at)
    BY <1>1, <1>2, <1>3, <1>10, <2>1, <2>2, PlacedEnd
  <2>4. NodeDetail(log') = AddToDetail(d, e)
    BY <1>1, <1>2, <2>2, DetailAppend
  <2> QED
    BY <1>2, <2>3, <2>4
<1>12. \A q \in Unended(log') : log'[q].index \in tasks' /\ pc'[log'[q].index] \in Tried
  BY <1>4, <1>5, <1>7, <1>9 DEF UnendedInv, Trying
<1>13. \A j \in tasks' : Trying(j)' => \E q \in Unended(log') : log'[q].index = j
  <2> SUFFICES ASSUME NEW j \in tasks, Trying(j)' PROVE \E q \in Unended(log') : log'[q].index = j
    BY <1>5
  <2>1. j # i
    BY <1>5
  <2>2. PICK q \in Unended(log) : log[q].index = j
    BY <1>4, <1>5, <2>1 DEF UnendedInv
  <2> QED
    BY <1>7, <1>9, <2>1, <2>2
<1>14. \A q, r \in Unended(log') : log'[q].index = log'[r].index => q = r
  BY <1>4, <1>7 DEF UnendedInv
<1>15. UnendedInv'
  BY <1>12, <1>13, <1>14 DEF UnendedInv, Trying
<1> QED
  BY <1>11, <1>15

\* Something else is logged.
LEMMA DetailOther ==
  ASSUME Shape, DetailInv, NEW i \in tasks, emit_checkpoint(i) \/ collect(i), Grown
  PROVE  DetailInv'
<1> SUFFICES ASSUME Plain(log') PROVE (\E at : Placed(log', NodeDetail(log'), at)) /\ UnendedInv'
  BY DEF DetailInv
<1>1. log \in Seq(Event) /\ i \in Instances /\ tasks \subseteq Instances /\ pc \in [Instances -> Stages]
  BY TaskSets DEF Shape, NodeShape, TaskShape
<1>2. PICK at : Placed(log, NodeDetail(log), at)
  BY PlainGrows DEF DetailInv
<1>3. UnendedInv
  BY PlainGrows DEF DetailInv
<1>4. Placed(log', NodeDetail(log'), at) /\ Unended(log') = Unended(log)
  <2>1. CASE emit_checkpoint(i)
    <3>1. Checkpoint \in Event /\ Checkpoint.ev \notin {"started", "completed", "failed"} /\ log' = Append(log, Checkpoint)
      BY <2>1, FanOutFacts, EventFacts DEF Checkpoint, emit_checkpoint
    <3> QED
      BY <1>1, <1>2, <3>1, PlacedOther, DetailAppend, UnendedAppend
  <2>2. CASE collect(i)
    <3>1. PICK n \in Nat : n = llm_records[i]
      BY <1>1 DEF Shape, RecordShape
    <3>2. log' = log \o [k \in 1..n |-> LlmInvocation]
      BY <2>2, <3>1 DEF collect
    <3> QED
      BY <1>1, <1>2, <3>2, PlacedLlm
  <2> QED
    BY <2>1, <2>2
<1>5. tasks' = tasks /\ \A j \in tasks : Trying(j)' <=> Trying(j)
  <2>1. tasks' = tasks /\ pc[i] \in {"checkpoint", "done"} /\ pc'[i] \in {"done", "collected"} /\ \A j \in tasks : j # i => pc'[j] = pc[j]
    BY <1>1 DEF emit_checkpoint, collect, nodeVars
  <2> QED
    BY <2>1 DEF Trying, Tried, Handling
<1>6. \A p \in Unended(log) : log'[p] = log[p]
  <2>1. Unended(log) \subseteq Starts(log) /\ Starts(log) \subseteq 1..Len(log)
    BY DEF Unended, Starts
  <2> QED
    BY <2>1 DEF Grown
<1>7. \A p \in Unended(log') : log'[p].index \in tasks' /\ pc'[log'[p].index] \in Tried
  BY <1>3, <1>4, <1>5, <1>6 DEF UnendedInv, Trying
<1>8. \A j \in tasks' : Trying(j)' => \E p \in Unended(log') : log'[p].index = j
  BY <1>3, <1>4, <1>5, <1>6 DEF UnendedInv
<1>9. \A p, q \in Unended(log') : log'[p].index = log'[q].index => p = q
  BY <1>3, <1>4, <1>6 DEF UnendedInv
<1>10. UnendedInv'
  BY <1>7, <1>8, <1>9 DEF UnendedInv, Trying
<1> QED
  BY <1>4, <1>10

\* The node is executed again: no attempt is without its end.
LEMMA DetailAgain ==
  ASSUME Shape, DetailInv, execute_again
  PROVE  DetailInv'
<1> SUFFICES ASSUME Plain(log) PROVE UnendedInv'
  BY DEF DetailInv, execute_again
<1>1. UnendedInv /\ log' = log
  BY DEF DetailInv, execute_again
<1>2. \A j \in tasks : ~Trying(j)
  BY DEF execute_again, Trying, Tried, Handling
<1>3. Unended(log) = {}
  BY <1>1, <1>2 DEF UnendedInv
<1>4. \A j \in tasks' : ~Trying(j)'
  <2>1. tasks' \subseteq Instances
    BY FanOutFacts DEF execute_again
  <2> QED
    BY <2>1 DEF execute_again, Trying, Tried, Handling
<1> QED
  BY <1>1, <1>3, <1>4 DEF UnendedInv

\* Every step keeps the list right.
LEMMA DetailSteps ==
  ASSUME Shape, DetailInv, [Next]_vars
  PROVE  DetailInv'
<1>1. Grown /\ tasks \subseteq Instances /\ pc \in [Instances -> Stages]
  BY LogGrows, TaskSets DEF Shape, TaskShape
<1>2. ASSUME NEW i \in tasks, Handled(i) PROVE DetailInv'
  <2>1. /\ pc[i] \in Handling /\ pc'[i] \in Handling \cup {"returned", "panicked"} /\ log' = log /\ tasks' = tasks
        /\ \A j \in tasks : j # i => pc'[j] = pc[j]
    BY <1>1, <1>2, HandledEffects DEF nodeVars
  <2>2. \A j \in tasks : Trying(j)' <=> Trying(j)
    BY <2>1 DEF Trying, Tried
  <2> QED
    BY <2>1, <2>2, DetailStays
<1>3. ASSUME NEW i \in tasks, next_attempt(i) PROVE DetailInv'
  <2>1. /\ pc[i] = "backoff" /\ pc'[i] \in {"start", "done"} /\ log' = log /\ tasks' = tasks
        /\ \A j \in tasks : j # i => pc'[j] = pc[j]
    BY <1>1, <1>3 DEF next_attempt, nodeVars
  <2>2. \A j \in tasks : Trying(j)' <=> Trying(j)
    BY <2>1 DEF Trying, Tried, Handling
  <2> QED
    BY <2>1, <2>2, DetailStays
<1>4. CASE provide_input \/ Terminated \/ UNCHANGED vars
  <2>1. log' = log /\ tasks' = tasks /\ pc' = pc
    BY <1>4 DEF provide_input, Terminated, vars, nodeVars, taskVars
  <2>2. \A j \in tasks : Trying(j)' <=> Trying(j)
    BY <2>1 DEF Trying
  <2> QED
    BY <2>1, <2>2, DetailStays
<1>5. ASSUME NEW i \in tasks, emit_started(i) \/ emit_outcome(i) \/ emit_checkpoint(i) \/ collect(i) PROVE DetailInv'
  BY <1>1, <1>5, DetailStarted, DetailEnded, DetailOther
<1> QED
  BY <1>2, <1>3, <1>4, <1>5, DetailAgain DEF Next, TaskStep, Handled

\* An empty log lists no attempts.
LEMMA InitDetail == Init => DetailInv
<1> SUFFICES ASSUME Init PROVE (\E at : Placed(log, NodeDetail(log), at)) /\ UnendedInv
  BY DEF DetailInv
<1>1. log = << >> /\ log \in Seq(Event) /\ Len(log) = 0
  BY DEF Init
<1>2. Starts(log) = {} /\ Unended(log) = {}
  BY <1>1 DEF Starts, Unended
<1>3. NodeDetail(log) = << >>
  <2>1. PICK g : g[0] = << >> /\ NodeDetail(log) = g[Len(log)]
    BY <1>1, DetailFold
  <2> QED
    BY <1>1, <2>1
<1>4. Placed(log, << >>, << >>)
  BY <1>2 DEF Placed
<1>5. \A i \in tasks : ~Trying(i)
  <2>1. tasks \subseteq Instances
    BY FanOutFacts DEF Init
  <2> QED
    BY <2>1 DEF Init, Trying, Tried, Handling
<1> QED
  BY <1>2, <1>3, <1>4, <1>5 DEF UnendedInv

\* The k-th attempt listed is the one whose start is the k-th.
LEMMA DetailRead ==
  ASSUME Shape, DetailInv
  PROVE  DetailFaithful
<1> SUFFICES ASSUME Plain(log)
             PROVE  /\ Len(NodeDetail(log)) = Cardinality(Starts(log))
                    /\ \A p \in Starts(log) :
                         NodeDetail(log)[Cardinality({q \in Starts(log) : q <= p})] = AttemptAt(log, p)
  BY DEF DetailFaithful, Plain
<1>1. PICK at : Placed(log, NodeDetail(log), at)
  BY DEF DetailInv
<1>2. /\ at \in Seq(Nat) /\ Len(at) = Len(NodeDetail(log)) /\ Len(at) \in Nat
      /\ \A j, k \in 1..Len(at) : j < k => at[j] < at[k]
      /\ \A k \in 1..Len(at) : at[k] \in Starts(log) /\ NodeDetail(log)[k] = AttemptAt(log, at[k])
      /\ \A p \in Starts(log) : \E k \in 1..Len(at) : at[k] = p
  BY <1>1 DEF Placed
<1>3. ASSUME NEW n \in 0..Len(at), NEW S, \A p : p \in S <=> \E k \in 1..n : at[k] = p PROVE Cardinality(S) = n
  <2> DEFINE f == [k \in 1..n |-> at[k]]
  <2>1. n \in Nat /\ 1..n \subseteq 1..Len(at)
    BY <1>2
  <2>2. \A k \in 1..n : at[k] \in S
    BY <1>3
  <2>3. \A j, k \in 1..n : at[j] = at[k] => j = k
    <3> SUFFICES ASSUME NEW j \in 1..n, NEW k \in 1..n, j # k PROVE at[j] # at[k]
      OBVIOUS
    <3>1. at[j] \in Nat /\ at[k] \in Nat /\ j \in 1..Len(at) /\ k \in 1..Len(at)
      BY <1>2, <2>1
    <3>2. j < k \/ k < j
      BY <2>1
    <3>3. at[j] < at[k] \/ at[k] < at[j]
      BY <1>2, <3>1, <3>2
    <3> QED
      BY <3>1, <3>3
  <2>4. f \in Bijection(1..n, S)
    <3>1. f \in [1..n -> S] /\ \A k \in 1..n : f[k] = at[k]
      BY <2>2
    <3> HIDE DEF f
    <3> QED
      BY <1>3, <2>3, <3>1 DEF Bijection, Injection, Surjection, IsInjective
  <2>5. ExistsBijection(1..n, S)
    BY <2>4 DEF ExistsBijection
  <2>6. IsFiniteSet(1..n) /\ Cardinality(1..n) = n
    <3>1. IsFiniteSet(1..n) /\ Cardinality(1..n) = IF 1 > n THEN 0 ELSE n - 1 + 1
      BY <2>1, FS_Interval
    <3> QED
      BY <2>1, <3>1
  <2> QED
    BY <2>5, <2>6, FS_Bijection
<1>4. Cardinality(Starts(log)) = Len(at)
  <2>1. \A p : p \in Starts(log) <=> \E k \in 1..Len(at) : at[k] = p
    BY <1>2
  <2>2. Len(at) \in 0..Len(at)
    BY <1>2
  <2> QED
    BY <1>3, <2>1, <2>2
<1>5. ASSUME NEW p \in Starts(log)
      PROVE  NodeDetail(log)[Cardinality({q \in Starts(log) : q <= p})] = AttemptAt(log, p)
  <2>1. PICK n \in 1..Len(at) : at[n] = p
    BY <1>2
  <2> DEFINE S == {q \in Starts(log) : q <= p}
  <2>2. ASSUME NEW q PROVE q \in S <=> \E k \in 1..n : at[k] = q
    <3>1. n \in Nat /\ n <= Len(at) /\ 1..n \subseteq 1..Len(at)
      BY <1>2
    <3>2. ASSUME q \in S PROVE \E k \in 1..n : at[k] = q
      <4>1. PICK k \in 1..Len(at) : at[k] = q
        BY <1>2, <3>2
      <4>2. at[k] <= at[n] /\ at[k] \in Nat /\ at[n] \in Nat
        BY <1>2, <2>1, <3>2, <4>1
      <4>3. ~(n < k)
        BY <1>2, <4>2
      <4>4. k \in 1..n
        BY <1>2, <3>1, <4>3
      <4> QED
        BY <4>1, <4>4
    <3>3. ASSUME NEW k \in 1..n, at[k] = q PROVE q \in S
      <4>1. k \in 1..Len(at) /\ q \in Starts(log) /\ at[k] \in Nat /\ at[n] \in Nat
        <5>1. k \in 1..Len(at) /\ n \in 1..Len(at)
          BY <3>1
        <5>2. at[k] \in Starts(log)
          BY <1>2, <5>1
        <5>3. \A j \in 1..Len(at) : at[j] \in Nat
          BY <1>2
        <5> QED
          BY <3>3, <5>1, <5>2, <5>3
      <4>2. CASE k = n
        BY <2>1, <3>3, <4>1, <4>2
      <4>3. CASE k # n
        <5>1. k < n
          BY <3>1, <4>3
        <5>2. at[k] < at[n]
          BY <1>2, <4>1, <5>1
        <5> QED
          BY <2>1, <3>3, <4>1, <5>2
      <4> QED
        BY <4>2, <4>3
    <3> QED
      BY <3>2, <3>3
  <2>3. n \in 0..Len(at)
    BY <1>2
  <2>4. Cardinality(S) = n
    <3> HIDE DEF S
    <3> QED
      BY <1>3, <2>2, <2>3
  <2> QED
    BY <1>2, <2>1, <2>4
<1> QED
  BY <1>2, <1>4, <1>5

-----------------------------------------------------------------------------
(* The theorems *)

\* Whatever handlers do, however often attempts are retried and the node executed again: the
\* state is well typed, execute_node makes exactly the retries it announces and settles every
\* task that does not panic once, no recorded LLM call is lost, extract_node_results reads the
\* real status and number of attempts from the log, and extract_node_detail lists the attempts
\* that were made with the ends they had (of a fan-out: unless one failed).
THEOREM LogIsFaithful == Spec => []LogFaithful
<1>1. NodeInv => TypeOK
  <2> SUFFICES ASSUME NodeInv PROVE TypeOK
    OBVIOUS
  <2>1. executions \in 1..MaxTasks /\ spawned \in 1..MaxTasks
    BY BoundsAssumption DEF NodeInv, Shape, NodeShape
  <2>2. pc \in [Instances -> {"absent", "start", "run", "wait", "call", "save", "record",
                              "returned", "checkpoint", "backoff"} \cup Fin]
    BY DEF NodeInv, Shape, TaskShape, Stages, Handling
  <2> QED
    BY <2>1, <2>2 DEF NodeInv, Shape, NodeShape, TaskShape, HumanShape, RecordShape, TypeOK
<1>2. NodeInv => RecordsKept
  <2> SUFFICES ASSUME NodeInv, NEW i \in tasks, pc[i] \in {"done", "collected"} PROVE llm_records[i] = recorded[i]
    BY DEF RecordsKept
  <2>1. i \in Instances
    BY TaskSets DEF NodeInv
  <2>2. llm_records[i] + channel[i] = recorded[i] /\ channel[i] = 0 /\ llm_records[i] \in Nat
    BY <2>1 DEF NodeInv, TasksInv, TaskInv, Handling, Shape, RecordShape
  <2> QED
    BY <2>2
<1>3. NodeInv /\ DetailInv => LogFaithful
  BY <1>1, <1>2, BooksTell, StatusRead, DetailRead DEF LogFaithful, NodeInv
<1>4. Init => NodeInv /\ DetailInv
  BY InitNode, InitDetail
<1>5. NodeInv /\ DetailInv /\ [Next]_vars => (NodeInv /\ DetailInv)'
  BY NodeSteps, DetailSteps DEF NodeInv
<1> QED
  BY <1>3, <1>4, <1>5, PTL DEF Spec

\* However registrations of fan-out instances overwrite each other, attempts time out with an
\* answer in the channel and the node is executed again, human_in_loop never completes more
\* often than provide_input accepted a value.
THEOREM HumanNodesAnswered == Spec => []HumanAnswered
<1>1. ASSUME NodeInv PROVE HumanAnswered
  <2>1. log \in Seq(Event) /\ \A k \in 1..Len(log) : log[k] \in Event
    BY <1>1 DEF NodeInv, Shape, NodeShape
  <2>2. {k \in 1..Len(log) : log[k].ev = "completed"} = Events(log, CompletedEvents)
    BY <2>1 DEF Events, CompletedEvents
  <2>3. Number(log, CompletedEvents) \in Nat /\ Cardinality(Answered) \in Nat /\ accepted \in Nat
    BY <1>1, <2>1, CountFinite, TaskSets, BoundsAssumption DEF NodeInv, Shape, HumanShape
  <2>4. kind = "human" => Number(log, CompletedEvents) <= accepted
    BY <1>1, <2>3 DEF NodeInv, HumanInv
  <2> QED
    BY <2>2, <2>4 DEF HumanAnswered, Count, Number
<1> QED
  BY <1>1, InitNode, NodeSteps, PTL DEF Spec

\* However often an llm_call without fan-out is retried, times out and is executed again, and
\* whatever number of messages it makes of its inputs, the conversation in the state store tells
\* every execution that saved its turn once, in order and whole, and nothing else.
THEOREM ConversationsFaithful == Spec => []ConversationFaithful
<1>1. ASSUME NodeInv PROVE ConversationFaithful
  <2> SUFFICES ASSUME kind = "llm", 0 \in tasks, Solo
               PROVE  \E n \in {executions - 1, executions} :
                         /\ Told(conversation, n)
                         /\ pc[0] \in {"start", "run", "backoff"} => n = executions - 1
                         /\ pc[0] \in {"checkpoint", "done", "collected"} /\ result[0] = "ok" => n = executions
    BY DEF ConversationFaithful, Solo
  <2>1. CASE Saved
    BY <1>1, <2>1 DEF NodeInv, TurnInv, Saved, ToldSoFar
  <2>2. CASE Unsaved
    BY <1>1, <2>2 DEF NodeInv, TurnInv, Unsaved, ToldSoFar
  <2>3. CASE ~Saved /\ ~Unsaved
    BY <1>1, <2>3 DEF NodeInv, TurnInv, Saved, Unsaved, ToldSoFar
  <2> QED
    BY <2>1, <2>2, <2>3
<1> QED
  BY <1>1, InitNode, NodeSteps, PTL DEF Spec
=============================================================================
