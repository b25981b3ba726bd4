---------------------------- MODULE WritePipeline ----------------------------
(***************************************************************************)
(* The durable event log of one run: the dual-channel WriteHandle that      *)
(* numbers and enqueues events, the background flush loop that batches them *)
(* into the RunStore, and the ExecutionSession that opens the log with      *)
(* RunStarted and closes it with RunCompleted.                              *)
(*                                                                          *)
(* Concurrency.  The session owner and every node task hold a clone of the  *)
(* WriteHandle; the flush loop is a tokio task of its own.  A write is two  *)
(* steps (the sequence number is taken by an atomic fetch_add, the event is *)
(* enqueued later), every poll of the select! is a step, every try_recv of  *)
(* a drain is a step and every insert of a batch is a step, because writers *)
(* run between all of them.                                                 *)
(*                                                                          *)
(* Data.  An event is its sequence number and the class of its type; the    *)
(* payload and its redaction play no role in what is kept or lost.          *)
(*                                                                          *)
(* A definition commented "Defect:" is a plausible bug, used to show that a *)
(* property can fail; no action of Next uses it.                            *)
(***************************************************************************)
EXTENDS Naturals, Sequences, FiniteSets, Functions

CONSTANTS
    Writers,            \* node tasks that hold a clone of the write handle
    Session,            \* the owner of the ExecutionSession
    CriticalCapacity,   \* ExecutionConfig.critical_capacity
    AdvisoryCapacity,   \* ExecutionConfig.advisory_capacity
    BatchSize,          \* WritePipelineConfig.batch_size
    AdaptiveLimit,      \* the literal 10 of the adaptive flush
    MaxRecords,         \* bound: records written besides RunStarted/RunCompleted
    MaxFailures         \* bound: write_batch calls that return an error

ASSUME SessionAssumption == Session \notin Writers
ASSUME CapacityAssumption ==
    /\ CriticalCapacity \in Nat \ {0}
    /\ AdvisoryCapacity \in Nat \ {0}
    /\ BatchSize \in Nat
    /\ AdaptiveLimit \in Nat
ASSUME BoundAssumption == MaxRecords \in Nat /\ MaxFailures \in Nat

Procs == Writers \cup {Session}
Channels == {"critical", "advisory"}
Kinds == {"RunStarted", "RunCompleted", "Record", "Diagnostic"}
Event == [seq : Nat, kind : Kinds]

VARIABLES
    seq,        \* the shared AtomicU64: the next number to hand out
    pending,    \* per holder: the event it has numbered and not yet enqueued
    chan,       \* contents of the two bounded channels
    handles,    \* holders of a clone of the write handle
    session,    \* where the session's owner is in its lifecycle
    shutdown,   \* the pipeline's oneshot was sent to, or its sender dropped
    pc,         \* where the flush loop is
    open,       \* critical_open and advisory_open
    drains,     \* channels the current arm still has to drain
    after,      \* where flush_batch, or the drains, return to
    batch,      \* the batch being collected
    redacted,   \* the events handed to write_batch
    cursor,     \* position in redacted: of the next insert, or of the re-buffering
    attempt,    \* 1 or 2: the write_batch call in progress
    refused,    \* history: what both calls of the flush in progress, or of the last one
                \* of a loop that has returned, failed to write
    durable,    \* what the RunStore holds, in order of insertion
    failures,   \* failed write_batch calls so far
    records,    \* records written so far (bounded by MaxRecords)
    sent,       \* history: events accepted by each channel, in order
    promised    \* history: critical events accepted when shutdown was signalled

handleVars == <<seq, pending, chan, handles, sent, records>>
sessionVars == <<session, shutdown, promised>>
loopVars == <<pc, open, drains, after>>
flushVars == <<batch, redacted, cursor, attempt, refused>>
storeVars == <<durable, failures>>
vars == <<handleVars, sessionVars, loopVars, flushVars, storeVars>>

Idle == [chan |-> "none", ev |-> [seq |-> 0, kind |-> "none"]]
IsIdle(p) == pending[p].chan = "none"

-----------------------------------------------------------------------------
(* WriteHandle *)

is_critical(ev) == ev.kind # "Diagnostic"

\* The receivers live in the flush loop's task and are dropped when it returns.
ReceiversDropped == pc = "done"

\* set_seq(next_seq()): p numbers an event of kind k meant for channel c.
next_seq(p, c, k) ==
    /\ pending' = [pending EXCEPT ![p] = [chan |-> c, ev |-> [seq |-> seq, kind |-> k]]]
    /\ seq' = seq + 1
    /\ UNCHANGED <<chan, handles, sent>>

\* The channel takes the event p numbered.
Enqueue(p, c) ==
    /\ chan' = [chan EXCEPT ![c] = Append(@, pending[p].ev)]
    /\ sent' = [sent EXCEPT ![c] = Append(@, pending[p].ev)]
    /\ pending' = [pending EXCEPT ![p] = Idle]
    /\ UNCHANGED <<seq, handles, records>>

\* The event is given up: ChannelClosed, or Full on the advisory channel.
Discard(p) ==
    /\ pending' = [pending EXCEPT ![p] = Idle]
    /\ UNCHANGED <<seq, chan, handles, sent, records>>

\* WriteHandle::write, second half: send().await, which blocks while full.
SendCritical(p) ==
    /\ pending[p].chan = "critical"
    /\ \/ ReceiversDropped /\ Discard(p)
       \/ /\ ~ReceiversDropped
          /\ Len(chan["critical"]) < CriticalCapacity
          /\ Enqueue(p, "critical")
    /\ UNCHANGED <<sessionVars, loopVars, flushVars, storeVars>>

\* Defect: the advisory channel takes events beyond its capacity.
SendAdvisoryUnbounded(p) ==
    /\ pending[p].chan = "advisory"
    /\ IF ReceiversDropped THEN Discard(p) ELSE Enqueue(p, "advisory")
    /\ UNCHANGED <<sessionVars, loopVars, flushVars, storeVars>>

\* WriteHandle::try_write, second half: try_send, which never waits.
SendAdvisory(p) ==
    /\ pending[p].chan = "advisory"
    /\ IF ReceiversDropped \/ Len(chan["advisory"]) >= AdvisoryCapacity
       THEN Discard(p)
       ELSE Enqueue(p, "advisory")
    /\ UNCHANGED <<sessionVars, loopVars, flushVars, storeVars>>

\* A record_* call of the session, or a node task's own write.
BeginRecord(p) ==
    /\ p \in handles /\ IsIdle(p)
    /\ p = Session => session = "open"
    /\ records < MaxRecords
    /\ records' = records + 1
    /\ \/ next_seq(p, "critical", "Record")
       \/ next_seq(p, "advisory", "Diagnostic")
    /\ UNCHANGED <<sessionVars, loopVars, flushVars, storeVars>>

\* A node task ends and drops its clone of the handle.
TaskEnds(w) ==
    /\ w \in handles /\ IsIdle(w)
    /\ handles' = handles \ {w}
    /\ UNCHANGED <<seq, pending, chan, sent, records,
                   sessionVars, loopVars, flushVars, storeVars>>

-----------------------------------------------------------------------------
(* ExecutionSession *)

\* The session's owner numbers RunStarted or RunCompleted.
Announce(c, k) ==
    /\ next_seq(Session, c, k)
    /\ UNCHANGED <<records, shutdown, promised, loopVars, flushVars, storeVars>>

\* start: RunStarted goes through the critical channel ...
start ==
    /\ session = "new"
    /\ session' = "starting"
    /\ Announce("critical", "RunStarted")

\* ... and only then do node tasks get their clones of the handle.
start_returns ==
    /\ session = "starting" /\ IsIdle(Session)
    /\ session' = "open"
    /\ handles' = handles \cup Writers
    /\ UNCHANGED <<seq, pending, chan, sent, records, shutdown, promised,
                   loopVars, flushVars, storeVars>>

\* finish: RunCompleted is written through the critical channel ...
finish ==
    /\ session = "open" /\ IsIdle(Session)
    /\ session' = "finishing"
    /\ Announce("critical", "RunCompleted")

\* The critical events both channels have accepted so far.
AcceptedCritical == {ev \in Range(sent["critical"]) \cup Range(sent["advisory"]) : is_critical(ev)}

\* ... then the pipeline is told to shut down ...
SignalShutdown ==
    /\ session = "finishing" /\ IsIdle(Session)
    /\ session' = "joining"
    /\ shutdown' = TRUE
    /\ promised' = AcceptedCritical
    /\ UNCHANGED <<handleVars, loopVars, flushVars, storeVars>>

\* ... and finish returns once the flush loop's task has been joined.
finish_returns ==
    /\ session = "joining" /\ pc = "done"
    /\ session' = "finished"
    /\ handles' = handles \ {Session}
    /\ UNCHANGED <<seq, pending, chan, sent, records, shutdown, promised,
                   loopVars, flushVars, storeVars>>

\* Drop without finish: RunCompleted(Failed) goes through the advisory channel.
drop ==
    /\ session = "open" /\ IsIdle(Session)
    /\ session' = "dropping"
    /\ Announce("advisory", "RunCompleted")

\* Fields drop in declaration order: the write handle ...
DropWriteHandle ==
    /\ session = "dropping" /\ IsIdle(Session)
    /\ session' = "closing"
    /\ handles' = handles \ {Session}
    /\ UNCHANGED <<seq, pending, chan, sent, records, shutdown, promised,
                   loopVars, flushVars, storeVars>>

\* ... and later the pipeline handle, whose oneshot sender resolves the receiver.
DropPipelineHandle ==
    /\ session = "closing"
    /\ session' = "dropped"
    /\ shutdown' = TRUE
    /\ promised' = AcceptedCritical
    /\ UNCHANGED <<handleVars, loopVars, flushVars, storeVars>>

-----------------------------------------------------------------------------
(* The flush loop: select! polls its arms in order (biased) *)

\* Enter flush_batch: std::mem::take(batch), then the first write_batch call.
EnterFlush(return) ==
    /\ pc' = "write"
    /\ after' = return
    /\ redacted' = batch
    /\ batch' = <<>>
    /\ cursor' = 1
    /\ attempt' = 1
    /\ refused' = {}

FlushIfNonEmpty(return) ==
    IF batch # <<>>
    THEN EnterFlush(return)
    ELSE pc' = return /\ UNCHANGED <<after, flushVars>>

\* The shutdown arm: drain critical, drain advisory, flush once, return.
ShutdownDrains == <<"critical", "advisory">>

\* Defect: a select! without the shutdown arm, which relies on the channels closing.
poll_without_shutdown ==
    /\ pc = "shutdown"
    /\ pc' = "critical"
    /\ UNCHANGED <<handleVars, sessionVars, open, drains, after, flushVars, storeVars>>

poll_shutdown ==
    /\ pc = "shutdown"
    /\ IF shutdown
       THEN pc' = "drain" /\ drains' = ShutdownDrains /\ after' = "done"
       ELSE pc' = "critical" /\ UNCHANGED <<drains, after>>
    /\ UNCHANGED <<handleVars, sessionVars, open, flushVars, storeVars>>

Other(c) == IF c = "critical" THEN "advisory" ELSE "critical"
NextPoll(c) == IF c = "critical" THEN "advisory" ELSE "tick"

\* recv() yields Some(ev): push it, then drain this channel and the other one.
RecvSome(c) ==
    /\ chan[c] # <<>>
    /\ chan' = [chan EXCEPT ![c] = Tail(@)]
    /\ batch' = Append(batch, Head(chan[c]))
    /\ pc' = "drain" /\ drains' = <<c, Other(c)>> /\ after' = "adaptive"
    /\ UNCHANGED <<seq, pending, handles, sent, records, open, redacted, cursor, attempt, refused>>

\* recv() yields None: every sender is gone and the channel is empty.
RecvNone(c) ==
    /\ chan[c] = <<>> /\ handles = {}
    /\ open' = [open EXCEPT ![c] = FALSE]
    /\ IF open[Other(c)] THEN pc' = "adaptive" /\ UNCHANGED <<after, flushVars>>
                         ELSE FlushIfNonEmpty("done")
    /\ UNCHANGED <<handleVars, drains>>

\* One arm for both channels; a closed channel's arm is disabled (`if ..._open`).
poll_channel(c) ==
    /\ pc = c
    /\ \/ open[c] /\ RecvSome(c)
       \/ open[c] /\ RecvNone(c)
       \/ /\ ~open[c] \/ (chan[c] = <<>> /\ handles # {})
          /\ pc' = NextPoll(c)
          /\ UNCHANGED <<handleVars, open, drains, after, flushVars>>
    /\ UNCHANGED <<sessionVars, storeVars>>

\* Defect: the interval tick flushes nothing.
tick_idle ==
    /\ pc = "tick"
    /\ pc' = "adaptive"
    /\ UNCHANGED <<handleVars, sessionVars, open, drains, after, flushVars, storeVars>>

\* interval.tick() has elapsed.
tick_fires ==
    /\ pc = "tick"
    /\ FlushIfNonEmpty("adaptive")
    /\ UNCHANGED <<handleVars, sessionVars, open, drains, storeVars>>

\* Nothing is ready: the task waits for a wake-up and polls again from the top.
tick_pending ==
    /\ pc = "tick"
    /\ pc' = "shutdown"
    /\ UNCHANGED <<handleVars, sessionVars, open, drains, after, flushVars, storeVars>>

\* drain_channel: while let Ok(ev) = try_recv() { batch.push(ev) }.
drain_channel ==
    /\ pc = "drain" /\ drains # <<>>
    /\ LET c == Head(drains) IN
       IF chan[c] # <<>>
       THEN /\ chan' = [chan EXCEPT ![c] = Tail(@)]
            /\ batch' = Append(batch, Head(chan[c]))
            /\ UNCHANGED drains
       ELSE drains' = Tail(drains) /\ UNCHANGED <<chan, batch>>
    /\ UNCHANGED <<seq, pending, handles, sent, records, sessionVars, pc, open, after,
                   redacted, cursor, attempt, refused, storeVars>>

\* Defect: the shutdown arm returns without the last flush.
drained_unflushed ==
    /\ pc = "drain" /\ drains = <<>>
    /\ IF after # "done" /\ Len(batch) >= BatchSize
       THEN FlushIfNonEmpty(after)
       ELSE /\ pc' = IF after = "done" THEN "done" ELSE "adaptive"
            /\ after' = "shutdown" /\ UNCHANGED flushVars
    /\ UNCHANGED <<handleVars, sessionVars, open, drains, storeVars>>

\* Both drained: the shutdown arm flushes and returns, the others flush a full batch.
drained ==
    /\ pc = "drain" /\ drains = <<>>
    /\ IF after = "done" \/ Len(batch) >= BatchSize
       THEN FlushIfNonEmpty(after)
       ELSE pc' = "adaptive" /\ after' = "shutdown" /\ UNCHANGED flushVars
    /\ UNCHANGED <<handleVars, sessionVars, open, drains, storeVars>>

\* After the select: flush a small batch at once when both channels are empty.
adaptive_flush ==
    /\ pc = "adaptive"
    /\ IF /\ batch # <<>> /\ Len(batch) < AdaptiveLimit
          /\ chan["critical"] = <<>> /\ chan["advisory"] = <<>>
       THEN EnterFlush("shutdown")
       ELSE pc' = "shutdown" /\ UNCHANGED <<after, flushVars>>
    /\ UNCHANGED <<handleVars, sessionVars, open, drains, storeVars>>

-----------------------------------------------------------------------------
(* flush_batch and the RunStore *)

\* The store inserts the batch event by event and ignores a seq it already holds.
insert_event ==
    /\ pc = "write" /\ cursor <= Len(redacted)
    /\ durable' = IF redacted[cursor] \in Range(durable)
                  THEN durable ELSE Append(durable, redacted[cursor])
    /\ cursor' = cursor + 1
    /\ UNCHANGED <<handleVars, sessionVars, loopVars, batch, redacted, attempt, refused, failures>>

\* write_batch returns Ok.
write_batch_ok ==
    /\ pc = "write" /\ cursor > Len(redacted)
    /\ pc' = after
    /\ redacted' = <<>> /\ cursor' = 1 /\ attempt' = 1 /\ after' = "shutdown"
    /\ UNCHANGED <<handleVars, sessionVars, open, drains, batch, refused, storeVars>>

\* write_batch returns an error after some prefix was inserted: retry once, then re-buffer.
write_batch_err ==
    /\ pc = "write" /\ cursor <= Len(redacted)
    /\ failures < MaxFailures
    /\ failures' = failures + 1
    /\ cursor' = 1
    /\ IF attempt = 1 THEN attempt' = 2 /\ UNCHANGED <<pc, refused>>
                      ELSE pc' = "rebuffer" /\ refused' = Range(redacted) /\ UNCHANGED attempt
    /\ UNCHANGED <<handleVars, sessionVars, open, drains, after, batch, redacted, durable>>

\* Defect: persistent failure drops the batch whole.
rebuffer_none ==
    /\ pc = "rebuffer" /\ cursor <= Len(redacted)
    /\ cursor' = cursor + 1
    /\ UNCHANGED <<handleVars, sessionVars, loopVars, batch, redacted, attempt, refused, storeVars>>

\* Defect: re-buffering pushes at the front.
rebuffer_reversed ==
    /\ pc = "rebuffer" /\ cursor <= Len(redacted)
    /\ batch' = IF is_critical(redacted[cursor]) THEN <<redacted[cursor]>> \o batch ELSE batch
    /\ cursor' = cursor + 1
    /\ UNCHANGED <<handleVars, sessionVars, loopVars, redacted, attempt, refused, storeVars>>

\* for ev in redacted: critical events go back into the batch, advisory ones are dropped.
rebuffer ==
    /\ pc = "rebuffer" /\ cursor <= Len(redacted)
    /\ batch' = IF is_critical(redacted[cursor]) THEN Append(batch, redacted[cursor]) ELSE batch
    /\ cursor' = cursor + 1
    /\ UNCHANGED <<handleVars, sessionVars, loopVars, redacted, attempt, refused, storeVars>>

rebuffered ==
    /\ pc = "rebuffer" /\ cursor > Len(redacted)
    /\ pc' = after
    /\ redacted' = <<>> /\ cursor' = 1 /\ attempt' = 1 /\ after' = "shutdown"
    /\ refused' = IF after = "done" THEN refused ELSE {}
    /\ UNCHANGED <<handleVars, sessionVars, open, drains, batch, storeVars>>

-----------------------------------------------------------------------------

Init ==
    /\ seq = 1
    /\ pending = [p \in Procs |-> Idle]
    /\ chan = [c \in Channels |-> <<>>]
    /\ handles = {Session}
    /\ session = "new"
    /\ shutdown = FALSE
    /\ pc = "shutdown"
    /\ open = [c \in Channels |-> TRUE]
    /\ drains = <<>>
    /\ after = "shutdown"
    /\ batch = <<>> /\ redacted = <<>> /\ cursor = 1 /\ attempt = 1 /\ refused = {}
    /\ durable = <<>> /\ failures = 0 /\ records = 0
    /\ sent = [c \in Channels |-> <<>>]
    /\ promised = {}

SessionStep == \/ start \/ start_returns
               \/ finish \/ SignalShutdown \/ finish_returns
               \/ drop \/ DropWriteHandle \/ DropPipelineHandle

Send(p) == SendCritical(p) \/ SendAdvisory(p)

FlushLoop == \/ poll_shutdown \/ poll_channel("critical") \/ poll_channel("advisory")
             \/ tick_fires \/ tick_pending
             \/ drain_channel \/ drained \/ adaptive_flush
             \/ insert_event \/ write_batch_ok \/ write_batch_err
             \/ rebuffer \/ rebuffered

\* Everything the run started has ended.
Terminated ==
    /\ session \in {"finished", "dropped"}
    /\ handles = {} /\ pc = "done"
    /\ UNCHANGED vars

Next == \/ SessionStep
        \/ \E p \in Procs : BeginRecord(p) \/ Send(p)
        \/ \E w \in Writers : TaskEnds(w)
        \/ FlushLoop
        \/ Terminated

Spec == Init /\ [][Next]_vars

-----------------------------------------------------------------------------
(* Fairness.  The runtime polls every spawned task and every awaited future: *)
(* the flush loop and a started send, finish or drop go on.  The interval    *)
(* timer is polled again and again and fires while it is, hence SF.  Nobody  *)
(* is obliged to record, to finish or to drop.                               *)

LifecycleStep == \/ start \/ start_returns \/ SignalShutdown \/ finish_returns
                 \/ DropWriteHandle \/ DropPipelineHandle

Fairness ==
    /\ WF_vars(FlushLoop) /\ SF_vars(tick_fires)
    /\ WF_vars(LifecycleStep)
    /\ \A p \in Procs : WF_vars(Send(p))

FairSpec == Spec /\ Fairness

-----------------------------------------------------------------------------
(* Properties *)

Ops == [chan : Channels, ev : Event] \cup {Idle}

\* Type invariant: the variables stay in their types and the channels within the
\* capacities WriteHandle::new gives them.
TypeOK ==
    /\ seq \in Nat /\ records \in Nat /\ failures \in Nat
    /\ pending \in [Procs -> Ops]
    /\ chan \in [Channels -> Seq(Event)] /\ sent \in [Channels -> Seq(Event)]
    /\ Len(chan["critical"]) <= CriticalCapacity /\ Len(chan["advisory"]) <= AdvisoryCapacity
    /\ handles \subseteq Procs
    /\ session \in {"new", "starting", "open", "finishing", "joining", "finished",
                    "dropping", "closing", "dropped"}
    /\ shutdown \in BOOLEAN /\ open \in [Channels -> BOOLEAN]
    /\ pc \in Channels \cup {"shutdown", "tick", "drain", "adaptive", "write", "rebuffer", "done"}
    /\ drains \in Seq(Channels)
    /\ after \in {"shutdown", "adaptive", "done"}
    /\ batch \in Seq(Event) /\ redacted \in Seq(Event) /\ durable \in Seq(Event)
    /\ cursor \in Nat \ {0} /\ attempt \in {1, 2}
    /\ refused \subseteq Event /\ promised \subseteq Event

\* Everything the flush loop still holds or has stored.
Held == Range(chan["critical"]) \cup Range(chan["advisory"])
        \cup Range(batch) \cup Range(redacted) \cup Range(durable)

\* Invariant I2 as the loop keeps it (write_pipeline.rs, flush_batch): while the loop
\* runs, a critical event a channel has accepted is in a channel, in a batch or in the
\* store, however often write_batch fails and whatever prefix a failed call inserted.
CriticalConserved == pc # "done" => AcceptedCritical \subseteq Held

\* How far flush_batch has got with the events it took out of the batch: what the store
\* holds of them, or what is back in the batch.  Strengthens CriticalConserved to an
\* inductive invariant.
FlushProgress ==
    /\ pc \notin {"write", "rebuffer"} => redacted = <<>>
    /\ pc = "write" => \A i \in 1..Len(redacted) : i < cursor => redacted[i] \in Range(durable)
    /\ pc = "rebuffer" => \A i \in 1..Len(redacted) :
           i < cursor /\ is_critical(redacted[i]) => redacted[i] \in Range(batch)

\* Graceful shutdown (write_pipeline.rs, the shutdown arm of flush_loop and flush_batch):
\* once the loop has returned, every critical event accepted before finish or drop signalled
\* shutdown is stored, unless it is one of the events that both write_batch calls of the
\* loop's last flush failed to write, which flush_batch put back into the batch.  (That such
\* an event is lost with the loop is what CriticalNeverDropped, below, shows.)
GracefulShutdown == pc = "done" => promised \subseteq Range(durable) \cup (refused \cap Range(batch))

\* Session::finish returns: the backpressure on RunCompleted, the drain and the last
\* flush all end, whether or not the store works.
FinishReturns == session = "finishing" ~> session = "finished"

\* Dropping a session ends the flush loop's task even if node tasks keep their handles.
DropStopsPipeline == session = "dropping" ~> pc = "done"

\* A writer blocked by backpressure is released, with its event accepted or an error.
WriterReleased == \A p \in Procs : (pending[p].chan = "critical") ~> IsIdle(p)

\* Nobody waits for the flush loop for ever: not finish, not the task of a dropped session,
\* not a writer in want of room.
EveryoneReturns == FinishReturns /\ DropStopsPipeline /\ WriterReleased

\* A critical event accepted by the channel reaches the store (or the loop has
\* returned): re-buffered events are flushed again once the store works.
EventuallyDurable ==
    \A n \in 1..(MaxRecords + 2) :
        (\E ev \in AcceptedCritical : ev.seq = n)
            ~> (pc = "done" \/ \E ev \in Range(durable) : ev.seq = n)

\* Module doc of write_pipeline.rs, I2: "Critical events are NEVER dropped, even on
\* RunStore failure".  Once the loop has returned only the store still holds events.
CriticalNeverDropped == pc = "done" => AcceptedCritical \subseteq Range(durable)
=============================================================================
