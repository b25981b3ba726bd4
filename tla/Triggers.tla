------------------------------- MODULE Triggers -------------------------------
(***************************************************************************)
(* The trigger system of the engine: trigger tasks that produce events, the *)
(* bounded event channel, the dispatch loop that turns events into runs,    *)
(* the broadcast of run completions back to the flow trigger, and start and *)
(* shutdown of it all.                                                      *)
(*                                                                          *)
(* There are two flows.  Main is versioned by FlowVersioning while the      *)
(* triggers run and is started by cron triggers, by a custom trigger and    *)
(* through the API; Chained has a fixed version and is started by a flow    *)
(* trigger when a run of Main completes.  The HTTP trigger has no steps: it *)
(* waits for shutdown, requests come in through the API.                    *)
(*                                                                          *)
(* A run is here only what triggers see of it: who holds its handle, and    *)
(* the status it ends with.  Once the cancel sender in the handle is gone   *)
(* the run loop takes it for a cancel request (check_cancel).               *)
(***************************************************************************)
EXTENDS FlowVersioning, Sequences, FiniteSets

CONSTANTS
    Crons,          \* cron triggers, all on Main
    EventCap,       \* capacity of the event channel (1000 in the code)
    BroadcastCap,   \* capacity of the completion broadcast (256 in the code)
    MaxSeconds,     \* bound: seconds the clock runs
    MaxEvents,      \* bound: events of the cron and custom triggers
    MaxRuns         \* bound: runs started, by events or through the API

ASSUME TriggerAssumption ==
    /\ {"custom", "flow"} \cap Crons = {}
    /\ EventCap \in Nat \ {0} /\ BroadcastCap \in Nat \ {0}
    /\ MaxSeconds \in Nat /\ MaxEvents \in Nat /\ MaxRuns \in Nat

VARIABLES
    second,         \* the clock, as far as cron triggers have seen it
    start,          \* start_triggers: no, spawned (handles not stored yet), stored
    shutdown,       \* Engine::shutdown: no, signalled, aborting, returned
    in_order,       \* start_triggers had returned when shutdown was called (history)
    trigger,        \* per trigger task: off, select, send or stopped
    pending,        \* per trigger task: the event it is sending
    fired,          \* last second each cron trigger fired in
    made,           \* events the cron and custom triggers have made
    completions,    \* the flow trigger's unread part of the broadcast
    events,         \* the event channel
    seen_keys,
    dispatch,       \* the dispatch loop: off, recv, resolve, execute, handle or stopped
    event,          \* the event being dispatched
    runs            \* the runs, in the order they were started

clockVars == <<second, made>>
lifeVars == <<start, shutdown, in_order>>
taskVars == <<trigger, pending, fired, completions>>
dispatchVars == <<seen_keys, dispatch, event>>
vars == <<storeVars, clockVars, lifeVars, taskVars, events, dispatchVars, runs>>

TriggerTasks == Crons \cup {"custom", "flow"}
NoEvent == [flow |-> "none", key |-> 0, version |-> NoVersion, source |-> 0]

\* key 0: no idempotency key; version: pinned, or NoVersion; source: the completed run.
Event(flow, key, version, source) ==
    [flow |-> flow, key |-> key, version |-> version, source |-> source]

-----------------------------------------------------------------------------
(* Trigger tasks *)

\* The body of a select arm: the event is made, then sent when the channel has room.
Emit(t, ev) ==
    /\ trigger[t] = "select"
    /\ trigger' = [trigger EXCEPT ![t] = "send"]
    /\ pending' = [pending EXCEPT ![t] = ev]

\* The sleep of a cron trigger is over; the key is the second it wakes in.
cron_tick(t) ==
    /\ made < MaxEvents /\ made' = made + 1
    /\ second' \in second..MaxSeconds /\ fired[t] < second'
    /\ fired' = [fired EXCEPT ![t] = second']
    /\ Emit(t, Event("Main", second', NoVersion, 0))
    /\ UNCHANGED <<storeVars, lifeVars, completions, events, dispatchVars, runs>>

\* A custom trigger; unlike the built-in ones it may pin a version.
custom_fires ==
    /\ made < MaxEvents /\ made' = made + 1
    /\ \E v \in Graphs : Emit("custom", Event("Main", 0, v, 0))
    /\ UNCHANGED <<storeVars, second, lifeVars, fired, completions, events, dispatchVars, runs>>

\* Source flow and the default status filter, [completed].
matches(r) == runs[r].flow = "Main" /\ runs[r].status = "Completed"

\* The flow trigger reads a completion; one that does not match is dropped.
flow_trigger_recv ==
    /\ trigger["flow"] = "select" /\ completions # <<>>
    /\ completions' = Tail(completions)
    /\ IF matches(Head(completions))
       THEN Emit("flow", Event("Chained", 0, NoVersion, Head(completions)))
       ELSE UNCHANGED <<trigger, pending>>
    /\ UNCHANGED <<storeVars, clockVars, lifeVars, fired, events, dispatchVars, runs>>

send_event(t) ==
    /\ trigger[t] = "send" /\ Len(events) < EventCap
    /\ events' = Append(events, pending[t])
    /\ trigger' = [trigger EXCEPT ![t] = "select"]
    /\ pending' = [pending EXCEPT ![t] = NoEvent]
    /\ UNCHANGED <<storeVars, clockVars, lifeVars, fired, completions, dispatchVars, runs>>

\* Tasks that await hear the shutdown signal and return.  Nothing depends on the order in
\* which they do, so it is one step.  (A task that is sending is aborted before the
\* receiver goes, and never finds the channel closed.)
triggers_stop ==
    /\ shutdown # "no" /\ \E t \in TriggerTasks : trigger[t] = "select"
    /\ trigger' = [t \in TriggerTasks |-> IF trigger[t] = "select" THEN "stopped" ELSE trigger[t]]
    /\ UNCHANGED <<storeVars, clockVars, lifeVars, pending, fired, completions, events,
                   dispatchVars, runs>>

-----------------------------------------------------------------------------
(* The dispatch loop of start_triggers *)

\* Defect: the key is not remembered.
remember_never(k) == seen_keys

remember(k) == IF k = 0 THEN seen_keys ELSE seen_keys \cup {k}

\* The next event; one with a key seen before is skipped.
dispatch_recv ==
    /\ dispatch = "recv" /\ events # <<>>
    /\ events' = Tail(events)
    /\ seen_keys' = remember(Head(events).key)
    /\ IF Head(events).key \in seen_keys
       THEN UNCHANGED <<dispatch, event>>
       ELSE dispatch' = "resolve" /\ event' = Head(events)
    /\ UNCHANGED <<storeVars, clockVars, lifeVars, taskVars, runs>>

Resolvable(ev) ==
    CASE ev.flow = "Chained" -> TRUE
      [] ev.flow = "Main" /\ ev.version # NoVersion -> ev.version \in versions
      [] OTHER -> get_current # NoVersion

\* Defect: an event that cannot be resolved ends the loop.
Break == "stopped"

\* An event that is skipped leaves the loop where it was.
Continue == "recv"

\* The version is resolved; a failing store or an unknown version skips the event.
dispatch_resolve ==
    /\ dispatch = "resolve"
    /\ \/ Resolvable(event) /\ dispatch' = "execute" /\ UNCHANGED event
       \/ dispatch' = Continue /\ event' = NoEvent
    /\ UNCHANGED <<storeVars, clockVars, lifeVars, taskVars, events, seen_keys, runs>>

Run(flow, key, source, trig) ==
    [flow |-> flow, key |-> key, source |-> source, triggered |-> trig,
     version |-> IF flow = "Main" THEN get_current ELSE NoVersion,
     held |-> TRUE, status |-> "Running"]

\* Engine::execute resolves the current version again, whatever was pinned; on an error
\* the event is gone.
dispatch_execute ==
    /\ dispatch = "execute"
    /\ \/ /\ Len(runs) < MaxRuns
          /\ Resolvable([event EXCEPT !.version = NoVersion])
          /\ runs' = Append(runs, Run(event.flow, event.key, event.source, TRUE))
          /\ dispatch' = "handle" /\ UNCHANGED event
       \/ dispatch' = "recv" /\ event' = NoEvent /\ UNCHANGED runs
    /\ UNCHANGED <<storeVars, clockVars, lifeVars, taskVars, events, seen_keys>>

\* The ExecutionHandle, and the cancel sender in it, goes out of scope.
dispatch_drops_handle ==
    /\ dispatch = "handle"
    /\ runs' = [runs EXCEPT ![Len(runs)].held = FALSE]
    /\ dispatch' = "recv" /\ event' = NoEvent
    /\ UNCHANGED <<storeVars, clockVars, lifeVars, taskVars, events, seen_keys>>

-----------------------------------------------------------------------------
(* Runs *)

\* A caller of Engine::execute, who keeps the handle.
api_execute ==
    /\ Len(runs) < MaxRuns
    /\ dispatch # "handle" /\ get_current # NoVersion
    /\ runs' = Append(runs, Run("Main", 0, 0, FALSE))
    /\ UNCHANGED <<storeVars, clockVars, lifeVars, taskVars, events, dispatchVars>>

\* The caller cancels, or drops its handle.
api_cancel(r) ==
    /\ ~runs[r].triggered /\ runs[r].status = "Running" /\ runs[r].held
    /\ runs' = [runs EXCEPT ![r].held = FALSE]
    /\ UNCHANGED <<storeVars, clockVars, lifeVars, taskVars, events, dispatchVars>>

Newest(s) == IF Len(s) > BroadcastCap THEN Tail(s) ELSE s

\* The run loop ends and the completion is broadcast.  It is Cancelled if the handle is
\* gone, unless it was dropped after the last look at it.  A receiver that lags behind
\* loses the oldest completions.
run_ends(r) ==
    /\ runs[r].status = "Running"
    /\ \E s \in {"Completed", "Failed"} \cup (IF runs[r].held THEN {} ELSE {"Cancelled"}) :
           runs' = [runs EXCEPT ![r].status = s]
    /\ completions' = IF trigger["flow"] \in {"select", "send"}
                      THEN Newest(Append(completions, r)) ELSE completions
    /\ UNCHANGED <<storeVars, clockVars, lifeVars, trigger, pending, fired, events, dispatchVars>>

-----------------------------------------------------------------------------
(* Start and shutdown *)

\* The receiver is taken, the trigger tasks and the dispatch loop are spawned ...
\* (A task is taken to have subscribed to its broadcast when it is spawned; completions
\* before its first poll are missed, as they are before start_triggers.)
start_triggers ==
    /\ start = "no"
    /\ start' = "spawned"
    /\ trigger' = [t \in TriggerTasks |-> "select"]
    /\ dispatch' = "recv"
    /\ UNCHANGED <<storeVars, clockVars, shutdown, in_order, pending, fired, completions,
                   events, seen_keys, event, runs>>

\* ... and their handles are stored.
store_handles ==
    /\ start = "spawned"
    /\ start' = "stored"
    /\ UNCHANGED <<storeVars, clockVars, shutdown, in_order, taskVars, events, dispatchVars, runs>>

\* shutdown signals the trigger tasks, then takes the stored handles.  (A second call
\* finds nothing to take.  Signals sent before the tasks subscribed are not modelled.)
shutdown_signal ==
    /\ shutdown = "no" /\ start # "no"
    /\ shutdown' = "signalled"
    /\ in_order' = (start = "stored")
    /\ UNCHANGED <<storeVars, clockVars, start, taskVars, events, dispatchVars, runs>>

\* The tasks are aborted in the order of their handles, the dispatch loop last.
shutdown_aborts_triggers ==
    /\ shutdown = "signalled"
    /\ IF start = "stored"
       THEN /\ shutdown' = "aborting"
            /\ trigger' = [t \in TriggerTasks |-> "stopped"]
            /\ pending' = [t \in TriggerTasks |-> NoEvent]
       ELSE shutdown' = "returned" /\ UNCHANGED <<trigger, pending>>
    /\ UNCHANGED <<storeVars, clockVars, start, in_order, fired, completions, events,
                   dispatchVars, runs>>

\* Whatever the loop was awaiting is dropped: the event, or the handle it held.
shutdown_aborts_dispatch ==
    /\ shutdown = "aborting"
    /\ shutdown' = "returned"
    /\ dispatch' = "stopped" /\ event' = NoEvent
    /\ runs' = IF dispatch = "handle" THEN [runs EXCEPT ![Len(runs)].held = FALSE] ELSE runs
    /\ UNCHANGED <<storeVars, clockVars, start, in_order, taskVars, events, seen_keys>>

-----------------------------------------------------------------------------

Init ==
    /\ StoreInit
    /\ second = 1 /\ made = 0
    /\ start = "no" /\ shutdown = "no" /\ in_order = FALSE
    /\ trigger = [t \in TriggerTasks |-> "off"]
    /\ pending = [t \in TriggerTasks |-> NoEvent]
    /\ fired = [t \in Crons |-> 0]
    /\ completions = <<>> /\ events = <<>>
    /\ seen_keys = {} /\ dispatch = "off" /\ event = NoEvent
    /\ runs = <<>>

DispatchStep ==
    dispatch_recv \/ dispatch_resolve \/ dispatch_execute \/ dispatch_drops_handle

Next ==
    \/ StoreNext /\ UNCHANGED <<clockVars, lifeVars, taskVars, events, dispatchVars, runs>>
    \/ \E t \in Crons : cron_tick(t)
    \/ \E t \in TriggerTasks : send_event(t)
    \/ custom_fires \/ flow_trigger_recv \/ triggers_stop
    \/ DispatchStep
    \/ api_execute
    \/ \E r \in 1..Len(runs) : api_cancel(r) \/ run_ends(r)
    \/ start_triggers \/ store_handles
    \/ shutdown_signal \/ shutdown_aborts_triggers \/ shutdown_aborts_dispatch

Spec == Init /\ [][Next]_vars

(* Fairness: the dispatch loop is a spawned task and is scheduled.  Nothing  *)
(* is assumed of clients, triggers, runs and shutdown.                        *)
FairSpec == Spec /\ WF_vars(DispatchStep)

-----------------------------------------------------------------------------
(* Properties *)

\* Type invariant of the trigger system.
TypeOK ==
    /\ trigger \in [TriggerTasks -> {"off", "select", "send", "stopped"}]
    /\ dispatch \in {"off", "recv", "resolve", "execute", "handle", "stopped"}
    /\ Len(events) <= EventCap /\ Len(completions) <= BroadcastCap
    /\ seen_keys \subseteq 1..MaxSeconds
    /\ \A r \in 1..Len(runs) : runs[r].version \in Graphs \cup {NoVersion}

\* The idempotency key works (dispatch loop): however many cron triggers fire in the same
\* second, at most one run carries its key.
OncePerKey ==
    \A r, s \in 1..Len(runs) : runs[r].key # 0 /\ runs[r].key = runs[s].key => r = s

\* Chaining is exact (flow trigger): a chained run has one source, a completed run of the
\* source flow, and a completed run starts at most one.
ChainOnce ==
    \A r \in 1..Len(runs) : runs[r].flow = "Chained" =>
        /\ runs[runs[r].source].flow = "Main" /\ runs[runs[r].source].status = "Completed"
        /\ \A s \in 1..Len(runs) : s # r => runs[s].source # runs[r].source

\* After shutdown has returned no trigger task and no dispatch loop is left, so no run is
\* started by an event any more; provided that start_triggers had returned before.
QuietAfterShutdown ==
    shutdown = "returned" /\ in_order =>
        dispatch = "stopped" /\ \A t \in TriggerTasks : trigger[t] = "stopped"

\* The dispatch loop starts what it should: one run per idempotency key, one per completed
\* source of a flow trigger, none after shutdown has returned.
StartsOnce == TypeOK /\ OncePerKey /\ ChainOnce /\ QuietAfterShutdown

\* Every event in the channel is taken, unless shutdown ends the loop first: no event
\* that is skipped or fails stops the ones behind it.
EventsDispatched == events # <<>> ~> (events = <<>> \/ shutdown # "no")

\* Doc comment of start_triggers: the dispatch loop "executes flows in response to trigger
\* events".  A run that nobody cancels is not Cancelled, unless shutdown ended its
\* dispatch.
TriggeredRunsExecute ==
    \A r \in 1..Len(runs) : runs[r].triggered /\ shutdown = "no" => runs[r].status # "Cancelled"
=============================================================================
