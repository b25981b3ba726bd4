------------------------- MODULE WritePipelineProofs -------------------------
(***************************************************************************)
(* Theorems about WritePipeline, for every number of writers, every channel *)
(* capacity, batch size and number of records and store failures.           *)
(***************************************************************************)
EXTENDS MCWritePipeline, FiniteSetTheorems, TLAPS

-----------------------------------------------------------------------------
(* Type correctness *)

\* Entering flush_batch keeps the types of what it assigns (flush_loop's four call sites
\* reach it directly or through the non-empty test).
LEMMA FlushTypes ==
    ASSUME TypeOK, NEW STATE return, return \in {"shutdown", "adaptive", "done"},
           EnterFlush(return) \/ FlushIfNonEmpty(return)
    PROVE  /\ pc' \in Channels \cup {"shutdown", "tick", "drain", "adaptive", "write", "rebuffer", "done"}
           /\ after' \in {"shutdown", "adaptive", "done"}
           /\ batch' \in Seq(Event) /\ redacted' \in Seq(Event)
           /\ cursor' \in Nat \ {0} /\ attempt' \in {1, 2} /\ refused' \subseteq Event
<1>1. CASE EnterFlush(return)
  <2>1. batch' \in Seq(Event)
    BY <1>1 DEF EnterFlush
  <2> QED BY <1>1, <2>1 DEF TypeOK, EnterFlush
<1>2. CASE pc' = return /\ UNCHANGED <<after, flushVars>>
  BY <1>2 DEF TypeOK, flushVars
<1> QED BY <1>1, <1>2 DEF FlushIfNonEmpty

\* Every initial state is well typed: the channels, batch and store start empty.
LEMMA InitTypeOK == Init => TypeOK
<1> SUFFICES ASSUME Init PROVE TypeOK
  OBVIOUS
<1>1. Idle \in Ops /\ Session \in Procs
  BY DEF Ops, Procs
<1>2. /\ chan["critical"] = <<>> /\ chan["advisory"] = <<>>
      /\ chan \in [Channels -> Seq(Event)] /\ sent \in [Channels -> Seq(Event)]
  BY DEF Init, Channels
<1>3. Len(chan["critical"]) <= CriticalCapacity /\ Len(chan["advisory"]) <= AdvisoryCapacity
  BY <1>2, CapacityAssumption
<1>4. /\ drains \in Seq(Channels)
      /\ batch \in Seq(Event) /\ redacted \in Seq(Event) /\ durable \in Seq(Event)
  BY DEF Init
<1>5. open \in [Channels -> BOOLEAN] /\ pending \in [Procs -> Ops]
  BY <1>1 DEF Init
<1>6. /\ seq \in Nat /\ records \in Nat /\ failures \in Nat
      /\ cursor \in Nat \ {0} /\ attempt \in {1, 2} /\ refused \subseteq Event /\ promised \subseteq Event
  BY DEF Init
<1> QED BY <1>1, <1>2, <1>3, <1>4, <1>5, <1>6 DEF Init, TypeOK

\* Numbering an event keeps the pending operations well typed (WriteHandle::next_seq).
LEMMA NextSeqTypes ==
    ASSUME TypeOK, NEW p \in Procs, NEW c \in Channels, NEW k \in Kinds, next_seq(p, c, k)
    PROVE  /\ pending' \in [Procs -> Ops] /\ seq' \in Nat
           /\ chan' = chan /\ handles' = handles /\ sent' = sent
BY DEF TypeOK, next_seq, Ops, Event

\* Enqueuing keeps types, and the capacity of a channel that had room.
LEMMA EnqueueTypes ==
    ASSUME TypeOK, NEW p \in Procs, NEW c \in Channels, pending[p].chan = c, Enqueue(p, c)
    PROVE  /\ pending' \in [Procs -> Ops]
           /\ chan' \in [Channels -> Seq(Event)] /\ sent' \in [Channels -> Seq(Event)]
           /\ Len(chan[c]) \in Nat /\ Len(chan'[c]) = Len(chan[c]) + 1
           /\ \A d \in Channels \ {c} : chan'[d] = chan[d]
<1>1. pending[p].ev \in Event
  BY DEF TypeOK, Ops, Idle, Channels
<1>2. Idle \in Ops
  BY DEF Ops
<1>3. /\ pending' \in [Procs -> Ops]
      /\ chan' \in [Channels -> Seq(Event)] /\ sent' \in [Channels -> Seq(Event)]
  BY <1>1, <1>2 DEF TypeOK, Enqueue
<1>4. chan[c] \in Seq(Event) /\ chan'[c] = Append(chan[c], pending[p].ev)
      /\ \A d \in Channels \ {c} : chan'[d] = chan[d]
  BY DEF TypeOK, Enqueue
<1>5. Len(chan[c]) \in Nat /\ Len(chan'[c]) = Len(chan[c]) + 1
  BY <1>1, <1>4
<1> QED
  BY <1>3, <1>4, <1>5

\* Receiving the head of a channel keeps types and capacities (recv and try_recv).
LEMMA ReceiveTypes ==
    ASSUME TypeOK, NEW STATE c, c \in Channels, chan[c] # <<>>,
           chan' = [chan EXCEPT ![c] = Tail(@)]
    PROVE  /\ Head(chan[c]) \in Event
           /\ chan' \in [Channels -> Seq(Event)]
           /\ Len(chan'["critical"]) <= CriticalCapacity
           /\ Len(chan'["advisory"]) <= AdvisoryCapacity
<1>1. /\ Tail(chan[c]) \in Seq(Event) /\ Len(Tail(chan[c])) = Len(chan[c]) - 1
      /\ Head(chan[c]) \in Event /\ Len(chan[c]) \in Nat
  BY DEF TypeOK
<1>2. /\ chan' \in [Channels -> Seq(Event)] /\ chan'[c] = Tail(chan[c])
      /\ \A d \in Channels \ {c} : chan'[d] = chan[d]
  BY <1>1 DEF TypeOK
<1>3. CASE c = "critical"
  BY <1>1, <1>2, <1>3, CapacityAssumption DEF TypeOK, Channels
<1>4. CASE c = "advisory"
  BY <1>1, <1>2, <1>4, CapacityAssumption DEF TypeOK, Channels
<1> QED BY <1>1, <1>2, <1>3, <1>4 DEF Channels

\* No step of the session, of a writer or of the flush loop breaks the types.
LEMMA NextTypeOK == TypeOK /\ [Next]_vars => TypeOK'
<1> SUFFICES ASSUME TypeOK, [Next]_vars PROVE TypeOK'
  OBVIOUS
<1> USE DEF sessionVars, loopVars, flushVars, storeVars, handleVars
<1>1. CASE SessionStep
  <2>0. Session \in Procs /\ "critical" \in Channels /\ "advisory" \in Channels
    BY DEF Procs, Channels
  <2>1. CASE start
    BY <2>0, <2>1, NextSeqTypes DEF start, Announce, TypeOK, Kinds
  <2>2. CASE start_returns
    BY <2>2 DEF start_returns, TypeOK, Procs
  <2>3. CASE finish
    BY <2>0, <2>3, NextSeqTypes DEF finish, Announce, TypeOK, Kinds
  <2>4. CASE SignalShutdown
    BY <2>4 DEF SignalShutdown, TypeOK, AcceptedCritical, Range, Channels
  <2>5. CASE finish_returns
    BY <2>5 DEF finish_returns, TypeOK
  <2>6. CASE drop
    BY <2>0, <2>6, NextSeqTypes DEF drop, Announce, TypeOK, Kinds
  <2>7. CASE DropWriteHandle
    BY <2>7 DEF DropWriteHandle, TypeOK
  <2>8. CASE DropPipelineHandle
    BY <2>8 DEF DropPipelineHandle, TypeOK, AcceptedCritical, Range, Channels
  <2> QED BY <1>1, <2>1, <2>2, <2>3, <2>4, <2>5, <2>6, <2>7, <2>8 DEF SessionStep
<1>2. ASSUME NEW p \in Procs, BeginRecord(p) PROVE TypeOK'
  BY <1>2, NextSeqTypes DEF BeginRecord, TypeOK, Kinds, Channels
<1>3. ASSUME NEW p \in Procs, Send(p) PROVE TypeOK'
  <2>0. "critical" \in Channels /\ "advisory" \in Channels
    BY DEF Channels
  <2>1. CASE Discard(p) /\ UNCHANGED <<sessionVars, loopVars, flushVars, storeVars>>
    BY <2>1 DEF Discard, TypeOK, Ops
  <2>2. CASE /\ pending[p].chan = "critical" /\ Len(chan["critical"]) < CriticalCapacity
             /\ Enqueue(p, "critical") /\ UNCHANGED <<sessionVars, loopVars, flushVars, storeVars>>
    <3>1. Len(chan'["critical"]) <= CriticalCapacity
      <4>1. Len(chan["critical"]) \in Nat /\ Len(chan'["critical"]) = Len(chan["critical"]) + 1
        BY <2>0, <2>2, EnqueueTypes
      <4> QED BY <2>2, <4>1, CapacityAssumption
    <3>2. /\ pending' \in [Procs -> Ops] /\ chan' \in [Channels -> Seq(Event)]
          /\ sent' \in [Channels -> Seq(Event)] /\ chan'["advisory"] = chan["advisory"]
      BY <2>0, <2>2, EnqueueTypes
    <3>3. UNCHANGED <<seq, handles, records>>
      BY <2>2 DEF Enqueue
    <3>4. UNCHANGED <<session, shutdown, promised, pc, open, drains, after, batch, redacted,
                      cursor, attempt, refused, durable, failures>>
      BY <2>2
    <3> HIDE DEF sessionVars, loopVars, flushVars, storeVars, handleVars
    <3> QED BY <3>1, <3>2, <3>3, <3>4 DEF TypeOK
  <2>3. CASE /\ pending[p].chan = "advisory" /\ ~ Len(chan["advisory"]) >= AdvisoryCapacity
             /\ Enqueue(p, "advisory") /\ UNCHANGED <<sessionVars, loopVars, flushVars, storeVars>>
    <3>1. Len(chan'["advisory"]) <= AdvisoryCapacity
      <4>1. Len(chan["advisory"]) \in Nat /\ Len(chan'["advisory"]) = Len(chan["advisory"]) + 1
        BY <2>0, <2>3, EnqueueTypes
      <4> QED BY <2>3, <4>1, CapacityAssumption
    <3>2. /\ pending' \in [Procs -> Ops] /\ chan' \in [Channels -> Seq(Event)]
          /\ sent' \in [Channels -> Seq(Event)] /\ chan'["critical"] = chan["critical"]
      BY <2>0, <2>3, EnqueueTypes
    <3>3. UNCHANGED <<seq, handles, records>>
      BY <2>3 DEF Enqueue
    <3>4. UNCHANGED <<session, shutdown, promised, pc, open, drains, after, batch, redacted,
                      cursor, attempt, refused, durable, failures>>
      BY <2>3
    <3> HIDE DEF sessionVars, loopVars, flushVars, storeVars, handleVars
    <3> QED BY <3>1, <3>2, <3>3, <3>4 DEF TypeOK
  <2> QED BY <1>3, <2>1, <2>2, <2>3 DEF Send, SendCritical, SendAdvisory
<1>4. ASSUME NEW w \in Writers, TaskEnds(w) PROVE TypeOK'
  BY <1>4 DEF TaskEnds, TypeOK
<1>5. CASE FlushLoop
  <2>1. CASE poll_shutdown
    <3>1. ShutdownDrains \in Seq(Channels)
      BY DEF ShutdownDrains, Channels
    <3> QED BY <2>1, <3>1 DEF poll_shutdown, TypeOK, Channels
  <2>2. ASSUME NEW c \in Channels, poll_channel(c) PROVE TypeOK'
    <3>1. CASE RecvSome(c) /\ UNCHANGED <<sessionVars, storeVars>>
      <4>1. /\ Head(chan[c]) \in Event
            /\ chan' \in [Channels -> Seq(Event)]
            /\ Len(chan'["critical"]) <= CriticalCapacity
            /\ Len(chan'["advisory"]) <= AdvisoryCapacity
        BY <3>1, ReceiveTypes DEF RecvSome
      <4>2. Other(c) \in Channels /\ <<c, Other(c)>> \in Seq(Channels)
        BY DEF Other, Channels
      <4>3. batch' \in Seq(Event)
        <5>1. batch \in Seq(Event) /\ batch' = Append(batch, Head(chan[c]))
          BY <3>1 DEF RecvSome, TypeOK
        <5> QED BY <4>1, <5>1
      <4>4. drains' \in Seq(Channels) /\ pc' = "drain" /\ after' = "adaptive"
        BY <3>1, <4>2 DEF RecvSome
      <4>5. UNCHANGED <<seq, pending, handles, sent, records, open, redacted, cursor, attempt, refused,
                        session, shutdown, promised, durable, failures>>
        BY <3>1 DEF RecvSome, sessionVars, storeVars
      <4> QED BY <4>1, <4>3, <4>4, <4>5 DEF TypeOK
    <3>2. CASE RecvNone(c) /\ UNCHANGED <<sessionVars, storeVars>>
      BY <3>2, FlushTypes DEF RecvNone, TypeOK
    <3>3. CASE pc' = NextPoll(c) /\ UNCHANGED <<handleVars, open, drains, after, flushVars>>
               /\ UNCHANGED <<sessionVars, storeVars>>
      BY <3>3 DEF NextPoll, TypeOK, Channels
    <3> QED BY <2>2, <3>1, <3>2, <3>3 DEF poll_channel
  <2>3. CASE tick_fires
    BY <2>3, FlushTypes DEF tick_fires, TypeOK
  <2>4. CASE tick_pending
    BY <2>4 DEF tick_pending, TypeOK
  <2>5. CASE drain_channel
    <3> DEFINE c == Head(drains)
    <3>0. c \in Channels /\ Tail(drains) \in Seq(Channels)
      BY <2>5 DEF drain_channel, TypeOK
    <3>1. CASE chan[c] # <<>>
      <4>1. /\ Head(chan[c]) \in Event
            /\ chan' \in [Channels -> Seq(Event)]
            /\ Len(chan'["critical"]) <= CriticalCapacity
            /\ Len(chan'["advisory"]) <= AdvisoryCapacity
        BY <2>5, <3>0, <3>1, ReceiveTypes DEF drain_channel
      <4>2. batch' \in Seq(Event)
        <5>1. batch' = Append(batch, Head(chan[c]))
          BY <2>5, <3>1 DEF drain_channel
        <5> QED BY <4>1, <5>1 DEF TypeOK
      <4> QED BY <2>5, <3>0, <3>1, <4>1, <4>2 DEF drain_channel, TypeOK
    <3>2. CASE chan[c] = <<>>
      BY <2>5, <3>0, <3>2 DEF drain_channel, TypeOK
    <3> QED BY <3>1, <3>2
  <2>6. CASE drained
    BY <2>6, FlushTypes DEF drained, TypeOK
  <2>7. CASE adaptive_flush
    BY <2>7, FlushTypes DEF adaptive_flush, TypeOK
  <2>8. CASE insert_event
    BY <2>8 DEF insert_event, TypeOK
  <2>9. CASE write_batch_ok \/ rebuffered
    <3>0. redacted' = <<>> /\ cursor' = 1 /\ attempt' = 1
      BY <2>9 DEF write_batch_ok, rebuffered
    <3>1. redacted' \in Seq(Event) /\ cursor' \in Nat \ {0} /\ attempt' \in {1, 2}
      BY <3>0
    <3>2. /\ pc' \in {"shutdown", "adaptive", "done"} /\ after' = "shutdown"
          /\ refused' \subseteq refused
          /\ UNCHANGED <<handleVars, sessionVars, open, drains, batch, storeVars>>
      BY <2>9 DEF write_batch_ok, rebuffered, TypeOK
    <3> QED BY <3>1, <3>2 DEF TypeOK
  <2>10. CASE write_batch_err
    <3>1. Range(redacted) \subseteq Event
      BY DEF TypeOK, Range
    <3>2. refused' \subseteq Event
      BY <2>10, <3>1 DEF write_batch_err, TypeOK
    <3>3. pc' \in {"write", "rebuffer"} /\ attempt' \in {1, 2} /\ failures' \in Nat /\ cursor' = 1
      BY <2>10 DEF write_batch_err, TypeOK
    <3> QED BY <2>10, <3>2, <3>3 DEF write_batch_err, TypeOK
  <2>11. CASE rebuffer
    BY <2>11 DEF rebuffer, TypeOK
  <2> QED BY <1>5, <2>1, <2>2, <2>3, <2>4, <2>5, <2>6, <2>7, <2>8, <2>9, <2>10, <2>11
         DEF FlushLoop, Channels
<1>6. CASE UNCHANGED vars
  BY <1>6 DEF vars, TypeOK
<1> QED BY <1>1, <1>2, <1>3, <1>4, <1>5, <1>6 DEF Next, Terminated

\* Every reachable state is well typed and both channels respect their capacity.
THEOREM TypeCorrect == Spec => []TypeOK
BY InitTypeOK, NextTypeOK, PTL DEF Spec

-----------------------------------------------------------------------------
(* Sequences as sets of events *)

\* A fresh batch, channel or store holds nothing.
LEMMA RangeEmpty == Range(<<>>) = {}
BY DEF Range

\* push and send add exactly the new event.
LEMMA RangeAppend ==
    ASSUME NEW S, NEW s \in Seq(S), NEW x \in S
    PROVE  Range(Append(s, x)) = Range(s) \cup {x}
<1>1. DOMAIN Append(s, x) = DOMAIN s \cup {Len(s) + 1} /\ Len(s) + 1 \notin DOMAIN s
  OBVIOUS
<1>2. Append(s, x)[Len(s) + 1] = x /\ \A i \in DOMAIN s : Append(s, x)[i] = s[i]
  OBVIOUS
<1> QED BY <1>1, <1>2 DEF Range

\* Receiving from a channel splits off its head and keeps the rest.
LEMMA RangeTail ==
    ASSUME NEW S, NEW s \in Seq(S), s # <<>>
    PROVE  Range(s) = {Head(s)} \cup Range(Tail(s))
<1>1. /\ Len(s) \in Nat /\ Len(s) >= 1 /\ DOMAIN s = 1..Len(s)
      /\ DOMAIN Tail(s) = 1..(Len(s) - 1)
      /\ Head(s) = s[1] /\ \A i \in 1..(Len(s) - 1) : Tail(s)[i] = s[i + 1]
  OBVIOUS
<1>2. \A i \in 1..Len(s) : i = 1 \/ (i - 1) \in 1..(Len(s) - 1)
  BY <1>1
<1>3. Range(s) \subseteq {Head(s)} \cup Range(Tail(s))
  <2> SUFFICES ASSUME NEW i \in 1..Len(s) PROVE s[i] \in {Head(s)} \cup Range(Tail(s))
    BY <1>1 DEF Range
  <2>1. CASE i = 1
    BY <1>1, <2>1
  <2>2. CASE (i - 1) \in 1..(Len(s) - 1)
    <3>1. Tail(s)[i - 1] = s[i]
      BY <1>1, <2>2
    <3> QED BY <1>1, <2>2, <3>1 DEF Range
  <2> QED BY <1>2, <2>1, <2>2
<1>4. Range(Tail(s)) \subseteq Range(s)
  <2> SUFFICES ASSUME NEW i \in 1..(Len(s) - 1) PROVE Tail(s)[i] \in Range(s)
    BY <1>1 DEF Range
  <2>1. (i + 1) \in 1..Len(s) /\ Tail(s)[i] = s[i + 1]
    BY <1>1
  <2> QED BY <1>1, <2>1 DEF Range
<1>5. Head(s) \in Range(s)
  BY <1>1 DEF Range
<1> QED BY <1>3, <1>4, <1>5

-----------------------------------------------------------------------------
(* No critical event is lost while the loop runs *)

Conservation == FlushProgress /\ CriticalConserved

\* Entering flush_batch moves the whole batch into the hands of write_batch.
LEMMA FlushConserves ==
    ASSUME TypeOK, Conservation, NEW STATE return, return \in {"shutdown", "adaptive", "done"},
           pc \notin {"write", "rebuffer", "done"},
           EnterFlush(return) \/ FlushIfNonEmpty(return),
           UNCHANGED <<chan, sent, durable>>
    PROVE  Conservation'
<1>1. redacted = <<>> /\ Range(redacted) = {} /\ AcceptedCritical \subseteq Held
  BY RangeEmpty DEF Conservation, FlushProgress, CriticalConserved
<1>2. AcceptedCritical' = AcceptedCritical
  BY DEF AcceptedCritical, is_critical
<1>3. CASE EnterFlush(return)
  <2>1. pc' = "write" /\ redacted' = batch /\ batch' = <<>> /\ cursor' = 1
    BY <1>3 DEF EnterFlush
  <2>2. FlushProgress'
    BY <2>1 DEF FlushProgress
  <2>3. Held \subseteq Held'
    BY <1>1, <2>1 DEF Held
  <2> QED BY <1>1, <1>2, <2>2, <2>3 DEF Conservation, CriticalConserved
<1>4. CASE pc' = return /\ UNCHANGED <<after, flushVars>>
  <2>1. Held' = Held
    BY <1>4 DEF Held, flushVars
  <2>2. FlushProgress'
    BY <1>1, <1>4 DEF FlushProgress, flushVars
  <2> QED BY <1>1, <1>2, <2>1, <2>2 DEF Conservation, CriticalConserved
<1> QED BY <1>3, <1>4 DEF FlushIfNonEmpty

\* Moving the head of a channel to the end of the batch keeps everything held.
LEMMA ReceiveConserves ==
    ASSUME TypeOK, Conservation, NEW STATE c, c \in Channels, chan[c] # <<>>,
           pc \notin {"write", "rebuffer", "done"}, pc' = "drain",
           chan' = [chan EXCEPT ![c] = Tail(@)],
           batch' = Append(batch, Head(chan[c])),
           UNCHANGED <<sent, redacted, durable>>
    PROVE  Conservation'
<1>1. chan[c] \in Seq(Event) /\ Head(chan[c]) \in Event /\ batch \in Seq(Event)
  BY DEF TypeOK
<1>2. Range(chan[c]) = {Head(chan[c])} \cup Range(Tail(chan[c]))
  BY <1>1, RangeTail
<1>3. Range(batch') = Range(batch) \cup {Head(chan[c])}
  BY <1>1, RangeAppend
<1>4. chan'[c] = Tail(chan[c]) /\ \A d \in Channels \ {c} : chan'[d] = chan[d]
  BY DEF TypeOK
<1>5. \A d \in Channels : Range(chan[d]) \subseteq Range(chan'[d]) \cup Range(batch')
  BY <1>2, <1>3, <1>4
<1>6. Held \subseteq Held'
  BY <1>3, <1>5 DEF Held, Channels
<1>7. AcceptedCritical' = AcceptedCritical
  BY DEF AcceptedCritical, is_critical
<1>8. FlushProgress'
  BY DEF Conservation, FlushProgress
<1> QED BY <1>6, <1>7, <1>8 DEF Conservation, CriticalConserved

\* A step that touches neither events nor flush_batch's progress.
LEMMA IdleConserves ==
    ASSUME Conservation, UNCHANGED <<chan, sent, batch, redacted, cursor, durable>>,
           \/ pc' = pc
           \/ pc \notin {"write", "rebuffer", "done"} /\ pc' \notin {"write", "rebuffer"}
    PROVE  Conservation'
<1>1. AcceptedCritical' = AcceptedCritical /\ Held' = Held
  BY DEF AcceptedCritical, is_critical, Held
<1>2. FlushProgress'
  BY DEF Conservation, FlushProgress, is_critical
<1> QED BY <1>1, <1>2 DEF Conservation, CriticalConserved

\* An accepted event is in its channel.
LEMMA EnqueueConserves ==
    ASSUME TypeOK, Conservation, NEW p \in Procs, NEW c \in Channels, pending[p].chan = c,
           Enqueue(p, c), UNCHANGED <<loopVars, flushVars, storeVars>>
    PROVE  Conservation'
<1>1. pending[p].ev \in Event /\ chan[c] \in Seq(Event) /\ sent[c] \in Seq(Event)
  BY DEF TypeOK, Ops, Idle, Channels
<1>2. /\ chan'[c] = Append(chan[c], pending[p].ev) /\ sent'[c] = Append(sent[c], pending[p].ev)
      /\ \A d \in Channels \ {c} : chan'[d] = chan[d] /\ sent'[d] = sent[d]
  BY DEF TypeOK, Enqueue
<1>3. /\ Range(chan'[c]) = Range(chan[c]) \cup {pending[p].ev}
      /\ Range(sent'[c]) = Range(sent[c]) \cup {pending[p].ev}
  BY <1>1, <1>2, RangeAppend
<1>4. /\ \A d \in Channels : Range(chan[d]) \subseteq Range(chan'[d])
      /\ \A d \in Channels : Range(sent'[d]) \subseteq Range(sent[d]) \cup {pending[p].ev}
  BY <1>2, <1>3
<1>5. AcceptedCritical' \subseteq AcceptedCritical \cup {pending[p].ev}
  BY <1>4 DEF AcceptedCritical, is_critical, Channels
<1>6. Held \cup {pending[p].ev} \subseteq Held'
  <2>1. UNCHANGED <<batch, redacted, durable>>
    BY DEF flushVars, storeVars
  <2>2. pending[p].ev \in Held'
    BY <1>3 DEF Held, Channels
  <2> QED BY <1>4, <2>1, <2>2 DEF Held, Channels
<1>7. FlushProgress'
  BY DEF Conservation, FlushProgress, is_critical, loopVars, flushVars, storeVars
<1> QED BY <1>5, <1>6, <1>7 DEF Conservation, CriticalConserved, loopVars

\* An insert extends the prefix of the batch that the store holds.
LEMMA InsertConserves ==
    ASSUME TypeOK, Conservation, insert_event
    PROVE  Conservation'
<1>1. /\ pc = "write" /\ pc' = pc /\ cursor \in 1..Len(redacted) /\ cursor' = cursor + 1
      /\ UNCHANGED <<chan, sent, batch, redacted>>
  BY DEF TypeOK, insert_event, handleVars, loopVars
<1>2. redacted[cursor] \in Event /\ durable \in Seq(Event)
  BY <1>1 DEF TypeOK
<1>3. Range(durable') = Range(durable) \cup {redacted[cursor]}
  <2>1. CASE redacted[cursor] \in Range(durable)
    BY <2>1 DEF insert_event
  <2>2. CASE redacted[cursor] \notin Range(durable)
    <3>1. durable' = Append(durable, redacted[cursor])
      BY <2>2 DEF insert_event
    <3> QED BY <1>2, <3>1, RangeAppend
  <2> QED BY <2>1, <2>2
<1>4. FlushProgress'
  <2>1. ASSUME NEW i \in 1..Len(redacted), i < cursor + 1 PROVE redacted[i] \in Range(durable')
    <3>1. CASE i < cursor
      BY <1>1, <1>3, <3>1 DEF Conservation, FlushProgress
    <3>2. CASE i = cursor
      BY <1>3, <3>2
    <3> QED BY <2>1, <3>1, <3>2 DEF TypeOK
  <2> QED BY <1>1, <2>1 DEF FlushProgress
<1>5. AcceptedCritical' = AcceptedCritical
  BY <1>1 DEF AcceptedCritical, is_critical
<1>6. Held \subseteq Held'
  BY <1>1, <1>3 DEF Held
<1> QED BY <1>1, <1>4, <1>5, <1>6 DEF Conservation, CriticalConserved

\* Re-buffering puts a critical event back into the batch and may skip an advisory one.
LEMMA RebufferConserves ==
    ASSUME TypeOK, Conservation, rebuffer
    PROVE  Conservation'
<1>1. /\ pc = "rebuffer" /\ pc' = pc /\ cursor \in 1..Len(redacted) /\ cursor' = cursor + 1
      /\ UNCHANGED <<chan, sent, durable, redacted>>
  BY DEF TypeOK, rebuffer, handleVars, loopVars, storeVars
<1>2. redacted[cursor] \in Event /\ batch \in Seq(Event)
  BY <1>1 DEF TypeOK
<1>3. Range(batch) \subseteq Range(batch')
      /\ (is_critical(redacted[cursor]) => redacted[cursor] \in Range(batch'))
  <2>1. CASE is_critical(redacted[cursor])
    <3>1. batch' = Append(batch, redacted[cursor])
      BY <2>1 DEF rebuffer
    <3> QED BY <1>2, <3>1, RangeAppend
  <2>2. CASE ~is_critical(redacted[cursor])
    BY <2>2 DEF rebuffer
  <2> QED BY <2>1, <2>2
<1>4. FlushProgress'
  <2>1. ASSUME NEW i \in 1..Len(redacted), i < cursor + 1, is_critical(redacted[i])
        PROVE  redacted[i] \in Range(batch')
    <3>1. CASE i < cursor
      BY <1>1, <1>3, <2>1, <3>1 DEF Conservation, FlushProgress
    <3>2. CASE i = cursor
      BY <1>3, <2>1, <3>2
    <3> QED BY <2>1, <3>1, <3>2 DEF TypeOK
  <2> QED BY <1>1, <2>1 DEF FlushProgress, is_critical
<1>5. AcceptedCritical' = AcceptedCritical
  BY <1>1 DEF AcceptedCritical, is_critical
<1>6. Held \subseteq Held'
  BY <1>1, <1>3 DEF Held
<1> QED BY <1>1, <1>4, <1>5, <1>6 DEF Conservation, CriticalConserved

\* flush_batch lets go of its events only once each critical one is stored or re-buffered.
LEMMA ReturnConserves ==
    ASSUME TypeOK, Conservation, write_batch_ok \/ rebuffered
    PROVE  Conservation'
<1>1. /\ pc \in {"write", "rebuffer"} /\ pc' \in {"shutdown", "adaptive", "done"}
      /\ redacted' = <<>> /\ UNCHANGED <<chan, sent, batch, durable>>
      /\ cursor > Len(redacted)
  BY DEF TypeOK, write_batch_ok, rebuffered, handleVars, storeVars
<1>2. FlushProgress'
  BY <1>1 DEF FlushProgress
<1>3. \A i \in 1..Len(redacted) : i < cursor
  BY <1>1 DEF TypeOK
<1>4. ASSUME NEW ev \in Range(redacted), is_critical(ev)
      PROVE  ev \in Range(batch) \cup Range(durable)
  <2>0. DOMAIN redacted = 1..Len(redacted)
    BY DEF TypeOK
  <2>1. PICK i \in 1..Len(redacted) : ev = redacted[i]
    BY <1>4, <2>0 DEF Range
  <2> QED BY <1>1, <1>3, <1>4, <2>1 DEF Conservation, FlushProgress
<1>5. AcceptedCritical \subseteq Held
  BY <1>1 DEF Conservation, CriticalConserved
<1>6. \A ev \in AcceptedCritical : is_critical(ev)
  BY DEF AcceptedCritical
<1>7. AcceptedCritical \subseteq Held'
  BY <1>1, <1>4, <1>5, <1>6 DEF Held
<1>8. AcceptedCritical' = AcceptedCritical
  BY <1>1 DEF AcceptedCritical, is_critical
<1> QED BY <1>2, <1>7, <1>8 DEF Conservation, CriticalConserved

\* Every step keeps Conservation: one case per step that moves events, one for the rest.
LEMMA NextConservation == TypeOK /\ Conservation /\ [Next]_vars => Conservation'
<1> SUFFICES ASSUME TypeOK, Conservation, [Next]_vars PROVE Conservation'
  OBVIOUS
<1> USE DEF sessionVars, loopVars, flushVars, storeVars, handleVars
<1>1. CASE SessionStep
  BY <1>1, IdleConserves
     DEF SessionStep, start, start_returns, finish, SignalShutdown, finish_returns, drop,
         DropWriteHandle, DropPipelineHandle, Announce, next_seq
<1>2. ASSUME NEW p \in Procs, BeginRecord(p) PROVE Conservation'
  BY <1>2, IdleConserves DEF BeginRecord, next_seq
<1>3. ASSUME NEW p \in Procs, Send(p) PROVE Conservation'
  <2>1. CASE Discard(p) /\ UNCHANGED <<sessionVars, loopVars, flushVars, storeVars>>
    BY <2>1, IdleConserves DEF Discard
  <2>2. ASSUME NEW c \in Channels, pending[p].chan = c, Enqueue(p, c),
               UNCHANGED <<sessionVars, loopVars, flushVars, storeVars>>
        PROVE  Conservation'
    BY <2>2, EnqueueConserves
  <2> QED BY <1>3, <2>1, <2>2 DEF Send, SendCritical, SendAdvisory, Channels
<1>4. ASSUME NEW w \in Writers, TaskEnds(w) PROVE Conservation'
  BY <1>4, IdleConserves DEF TaskEnds
<1>5. CASE FlushLoop
  <2>1. CASE poll_shutdown
    BY <2>1, IdleConserves DEF poll_shutdown
  <2>2. ASSUME NEW c \in Channels, poll_channel(c) PROVE Conservation'
    <3>0. pc \notin {"write", "rebuffer", "done"} /\ UNCHANGED storeVars
      BY <2>2 DEF poll_channel, Channels
    <3>1. CASE RecvSome(c)
      BY <3>0, <3>1, ReceiveConserves DEF RecvSome
    <3>2. CASE RecvNone(c)
      <4>1. CASE FlushIfNonEmpty("done")
        BY <3>0, <3>2, <4>1, FlushConserves DEF RecvNone
      <4>2. CASE pc' = "adaptive" /\ UNCHANGED <<after, flushVars>>
        BY <3>0, <3>2, <4>2, IdleConserves DEF RecvNone
      <4> QED BY <3>2, <4>1, <4>2 DEF RecvNone
    <3>3. CASE pc' = NextPoll(c) /\ UNCHANGED <<handleVars, open, drains, after, flushVars>>
      BY <3>0, <3>3, IdleConserves DEF NextPoll
    <3> QED BY <2>2, <3>1, <3>2, <3>3 DEF poll_channel
  <2>3. CASE tick_fires
    <3>1. FlushIfNonEmpty("adaptive") /\ pc = "tick" /\ UNCHANGED <<chan, sent, durable>>
      BY <2>3 DEF tick_fires
    <3> QED BY <3>1, FlushConserves
  <2>4. CASE tick_pending
    BY <2>4, IdleConserves DEF tick_pending
  <2>5. CASE drain_channel
    <3> DEFINE c == Head(drains)
    <3>0. c \in Channels
      BY <2>5 DEF drain_channel, TypeOK
    <3>1. CASE chan[c] # <<>>
      BY <2>5, <3>0, <3>1, ReceiveConserves DEF drain_channel
    <3>2. CASE chan[c] = <<>>
      BY <2>5, <3>2, IdleConserves DEF drain_channel
    <3> QED BY <3>1, <3>2
  <2>6. CASE drained
    <3>1. CASE FlushIfNonEmpty(after)
      BY <2>6, <3>1, FlushConserves DEF drained, TypeOK
    <3>2. CASE pc' = "adaptive" /\ UNCHANGED flushVars
      BY <2>6, <3>2, IdleConserves DEF drained
    <3> QED BY <2>6, <3>1, <3>2 DEF drained
  <2>7. CASE adaptive_flush
    <3>1. CASE EnterFlush("shutdown")
      BY <2>7, <3>1, FlushConserves DEF adaptive_flush
    <3>2. CASE pc' = "shutdown" /\ UNCHANGED <<after, flushVars>>
      BY <2>7, <3>2, IdleConserves DEF adaptive_flush
    <3> QED BY <2>7, <3>1, <3>2 DEF adaptive_flush
  <2>8. CASE insert_event
    BY <2>8, InsertConserves
  <2>9. CASE write_batch_ok \/ rebuffered
    BY <2>9, ReturnConserves
  <2>10. CASE write_batch_err
    <3>1. /\ pc = "write" /\ pc' \in {"write", "rebuffer"} /\ cursor' = 1
          /\ UNCHANGED <<chan, sent, batch, redacted, durable>>
      BY <2>10 DEF write_batch_err
    <3>2. FlushProgress'
      BY <3>1 DEF FlushProgress, TypeOK
    <3>3. AcceptedCritical' = AcceptedCritical /\ Held' = Held
      BY <3>1 DEF AcceptedCritical, is_critical, Held
    <3> QED BY <3>1, <3>2, <3>3 DEF Conservation, CriticalConserved
  <2>11. CASE rebuffer
    BY <2>11, RebufferConserves
  <2> QED BY <1>5, <2>1, <2>2, <2>3, <2>4, <2>5, <2>6, <2>7, <2>8, <2>9, <2>10, <2>11
         DEF FlushLoop, Channels
<1>6. CASE UNCHANGED vars
  BY <1>6, IdleConserves DEF vars
<1> QED BY <1>1, <1>2, <1>3, <1>4, <1>5, <1>6 DEF Next, Terminated

\* While the flush loop runs it loses no critical event a channel has accepted, whatever
\* the writers do, however often write_batch fails and after whatever prefix.
THEOREM Conserved == Spec => []CriticalConserved
<1>1. Init => Conservation
  BY RangeEmpty DEF Init, Conservation, FlushProgress, CriticalConserved, AcceptedCritical, Channels
<1> QED BY <1>1, TypeCorrect, NextConservation, PTL DEF Spec, Conservation

-----------------------------------------------------------------------------
(* Graceful shutdown *)

\* What the flush loop has taken out of the channels and still answers for.
Taken == Range(batch) \cup Range(redacted) \cup Range(durable)

\* The last flush before the loop returns, or the loop has returned.
LastFlush == pc = "done" \/ (pc \in {"write", "rebuffer"} /\ after = "done")

\* Senders and receivers: who has an event in hand holds a clone of the handle, the session's
\* owner keeps its clone until it is done with the log, and a channel is seen closed only when
\* it is empty and nobody is left to send.
SendersKnown ==
    /\ \A p \in Procs : pending[p].chan # "none" => p \in handles
    /\ session \notin {"finished", "closing", "dropped"} => Session \in handles
    /\ session = "joining" => pending[Session].chan = "none"
    /\ \A c \in Channels : ~open[c] => handles = {} /\ chan[c] = <<>>

\* Shutdown is signalled at most once, and only then is anything promised.
SignalledOnce ==
    /\ shutdown <=> session \in {"joining", "finished", "dropped"}
    /\ promised \subseteq AcceptedCritical
    /\ ~shutdown => promised = {}
    /\ after = "done" => pc \in {"drain", "write", "rebuffer", "done"}

\* Where the promised events are on the way out: first in the channels still to be drained or
\* already taken, from the last flush on taken.  A loop that leaves because both channels were
\* closed has taken everything, so the promise that a late shutdown signal makes is kept too.
PromiseKept ==
    /\ pc = "drain" /\ after = "done" =>
           /\ shutdown
           /\ \A ev \in promised : ev \in Taken \/ \E c \in Range(drains) : ev \in Range(chan[c])
    /\ LastFlush => IF shutdown THEN promised \subseteq Taken
                    ELSE handles = {} /\ AcceptedCritical \subseteq Taken

ShutdownInv == SendersKnown /\ SignalledOnce /\ PromiseKept

\* What is in the batch of a loop that has returned is there because both write_batch calls of
\* the last flush failed: flush_batch takes the batch whole, and puts back only what it took.
RefusedInv ==
    /\ pc = "write" => batch = <<>>
    /\ pc = "rebuffer" => refused = Range(redacted) /\ Range(batch) \subseteq refused
    /\ pc = "done" => Range(batch) \subseteq refused

\* Entering flush_batch takes nothing out of the loop's hands.
LEMMA FlushTakes ==
    ASSUME FlushProgress, NEW STATE return, pc \notin {"write", "rebuffer"},
           EnterFlush(return) \/ FlushIfNonEmpty(return), durable' = durable
    PROVE  Taken' = Taken
<1>1. redacted = <<>> /\ Range(redacted) = {}
  BY RangeEmpty DEF FlushProgress
<1>2. CASE EnterFlush(return)
  BY <1>1, <1>2 DEF EnterFlush, Taken
<1>3. CASE UNCHANGED flushVars
  BY <1>3 DEF flushVars, Taken
<1> QED BY <1>2, <1>3 DEF FlushIfNonEmpty

\* A critical event the loop has taken stays in the batch, in flush_batch or in the store.
LEMMA TakenStays ==
    ASSUME TypeOK, FlushProgress, Next, NEW ev \in Taken, is_critical(ev)
    PROVE  ev \in Taken'
<1> USE DEF sessionVars, loopVars, flushVars, storeVars, handleVars
<1>1. CASE UNCHANGED <<batch, redacted, durable>>
  BY <1>1 DEF Taken
<1>2. ASSUME NEW c \in Channels, chan[c] # <<>>, batch' = Append(batch, Head(chan[c])),
             UNCHANGED <<redacted, durable>>
      PROVE  ev \in Taken'
  <2>1. Head(chan[c]) \in Event /\ batch \in Seq(Event)
    BY <1>2 DEF TypeOK
  <2>2. Range(batch') = Range(batch) \cup {Head(chan[c])}
    BY <1>2, <2>1, RangeAppend
  <2> QED BY <1>2, <2>2 DEF Taken
<1>3. ASSUME NEW return \in {"shutdown", "adaptive", "done"}, pc \notin {"write", "rebuffer"},
             EnterFlush(return) \/ FlushIfNonEmpty(return), durable' = durable
      PROVE  ev \in Taken'
  BY <1>3, FlushTakes
<1>4. CASE insert_event
  <2>1. /\ cursor \in 1..Len(redacted) /\ UNCHANGED <<batch, redacted>>
        /\ redacted[cursor] \in Event /\ durable \in Seq(Event)
    BY <1>4 DEF insert_event, TypeOK
  <2>2. CASE durable' = durable
    BY <2>1, <2>2 DEF Taken
  <2>3. CASE durable' = Append(durable, redacted[cursor])
    <3>1. Range(durable') = Range(durable) \cup {redacted[cursor]}
      BY <2>1, <2>3, RangeAppend
    <3> QED BY <2>1, <3>1 DEF Taken
  <2> QED BY <1>4, <2>2, <2>3 DEF insert_event
<1>5. CASE rebuffer
  <2>1. /\ cursor \in 1..Len(redacted) /\ UNCHANGED <<redacted, durable>>
        /\ redacted[cursor] \in Event /\ batch \in Seq(Event)
    BY <1>5 DEF rebuffer, TypeOK
  <2>2. CASE batch' = batch
    BY <2>1, <2>2 DEF Taken
  <2>3. CASE batch' = Append(batch, redacted[cursor])
    <3>1. Range(batch') = Range(batch) \cup {redacted[cursor]}
      BY <2>1, <2>3, RangeAppend
    <3> QED BY <2>1, <3>1 DEF Taken
  <2> QED BY <1>5, <2>2, <2>3 DEF rebuffer
<1>6. CASE write_batch_ok \/ rebuffered
  <2>1. /\ pc \in {"write", "rebuffer"} /\ cursor > Len(redacted)
        /\ UNCHANGED <<batch, durable>>
    BY <1>6 DEF write_batch_ok, rebuffered
  <2>2. CASE ev \in Range(redacted)
    <3>1. DOMAIN redacted = 1..Len(redacted)
      BY DEF TypeOK
    <3>2. PICK i \in 1..Len(redacted) : ev = redacted[i]
      BY <2>2, <3>1 DEF Range
    <3>3. i < cursor
      BY <2>1, <3>2 DEF TypeOK
    <3>4. ev \in Range(batch) \cup Range(durable)
      BY <2>1, <3>2, <3>3 DEF FlushProgress
    <3> QED BY <2>1, <3>4 DEF Taken
  <2> QED BY <2>1, <2>2 DEF Taken
<1>7. CASE SessionStep
  BY <1>1, <1>7
     DEF SessionStep, start, start_returns, finish, SignalShutdown, finish_returns, drop,
         DropWriteHandle, DropPipelineHandle, Announce
<1>8. ASSUME NEW p \in Procs, BeginRecord(p) \/ Send(p) PROVE ev \in Taken'
  BY <1>1, <1>8 DEF BeginRecord, Send, SendCritical, SendAdvisory
<1>9. ASSUME NEW w \in Writers, TaskEnds(w) PROVE ev \in Taken'
  BY <1>1, <1>9 DEF TaskEnds
<1>10. CASE FlushLoop
  <2>1. CASE poll_shutdown \/ tick_pending \/ write_batch_err
    BY <1>1, <2>1 DEF poll_shutdown, tick_pending, write_batch_err
  <2>2. ASSUME NEW c \in Channels, poll_channel(c) PROVE ev \in Taken'
    <3>0. pc \notin {"write", "rebuffer"} /\ durable' = durable
      BY <2>2 DEF poll_channel, Channels
    <3>1. CASE RecvSome(c)
      BY <1>2, <3>0, <3>1 DEF RecvSome
    <3>2. CASE RecvNone(c)
      BY <1>1, <1>3, <3>0, <3>2 DEF RecvNone
    <3> QED BY <1>1, <2>2, <3>0, <3>1, <3>2 DEF poll_channel
  <2>3. CASE tick_fires
    BY <1>3, <2>3 DEF tick_fires
  <2>4. CASE drain_channel
    <3>1. Head(drains) \in Channels
      BY <2>4 DEF drain_channel, TypeOK
    <3> QED BY <1>1, <1>2, <2>4, <3>1 DEF drain_channel
  <2>5. CASE drained
    BY <1>1, <1>3, <2>5 DEF drained, TypeOK
  <2>6. CASE adaptive_flush
    BY <1>1, <1>3, <2>6 DEF adaptive_flush
  <2> QED BY <1>4, <1>5, <1>6, <1>10, <2>1, <2>2, <2>3, <2>4, <2>5, <2>6 DEF FlushLoop, Channels
<1> QED BY <1>1, <1>7, <1>8, <1>9, <1>10 DEF Next, Terminated, vars

\* A send is made by a holder of a handle, and only Enqueue changes what was accepted.
LEMMA SendCases ==
    ASSUME TypeOK, NEW p \in Procs, Send(p)
    PROVE  /\ UNCHANGED <<sessionVars, loopVars, flushVars, storeVars, handles>>
           /\ pending[p].chan # "none"
           /\ pending' = [pending EXCEPT ![p] = Idle]
           /\ \/ UNCHANGED <<chan, sent>>
              \/ \E c \in Channels : pending[p].chan = c /\ pc # "done" /\ Enqueue(p, c)
BY DEF Send, SendCritical, SendAdvisory, Discard, Enqueue, ReceiversDropped, Channels

\* Every step keeps SendersKnown: a handle is dropped only by an idle holder, and once all
\* are dropped no channel is filled again (tokio's mpsc: recv yields None for good).
LEMMA NextSenders ==
    ASSUME TypeOK, SendersKnown, SignalledOnce, [Next]_vars
    PROVE  SendersKnown'
<1> USE DEF sessionVars, loopVars, flushVars, storeVars, handleVars
<1>0. Session \in Procs /\ Idle.chan = "none" /\ "none" \notin Channels
  BY DEF Procs, Idle, Channels
<1>1. CASE UNCHANGED <<pending, handles, session, open, chan>>
  BY <1>1 DEF SendersKnown
<1>2. ASSUME NEW p \in handles, NEW c \in Channels, NEW k \in Kinds, next_seq(p, c, k),
             session' \notin {"joining", "finished", "closing", "dropped"},
             session \notin {"finished", "closing", "dropped"} \/ session' = session,
             UNCHANGED open
      PROVE  SendersKnown'
  <2>1. /\ \A q \in Procs : q # p => pending'[q] = pending[q]
        /\ UNCHANGED <<handles, chan>>
    BY <1>2 DEF next_seq, TypeOK
  <2> QED BY <1>2, <2>1 DEF SendersKnown
<1>3. CASE SessionStep
  <2>1. CASE start \/ finish \/ drop
    <3>1. Session \in handles
      BY <2>1 DEF start, finish, drop, SendersKnown
    <3> QED BY <1>2, <2>1, <3>1 DEF start, finish, drop, Announce, Channels, Kinds
  <2>2. CASE start_returns
    <3>1. handles # {} /\ session = "starting" /\ session' = "open"
      BY <2>2 DEF start_returns, SendersKnown
    <3> QED BY <2>2, <3>1 DEF start_returns, SendersKnown
  <2>3. CASE SignalShutdown
    BY <2>3 DEF SignalShutdown, SendersKnown, IsIdle
  <2>4. CASE finish_returns
    BY <2>4 DEF finish_returns, SendersKnown
  <2>5. CASE DropWriteHandle
    BY <2>5 DEF DropWriteHandle, SendersKnown, IsIdle
  <2>6. CASE DropPipelineHandle
    BY <2>6 DEF DropPipelineHandle, SendersKnown
  <2> QED BY <1>3, <2>1, <2>2, <2>3, <2>4, <2>5, <2>6 DEF SessionStep
<1>4. ASSUME NEW p \in Procs, BeginRecord(p) PROVE SendersKnown'
  <2>1. p \in handles /\ (p = Session => session = "open") /\ session' = session /\ open' = open
    BY <1>4 DEF BeginRecord
  <2>2. PICK c \in Channels, k \in Kinds : next_seq(p, c, k)
    BY <1>4 DEF BeginRecord, Channels, Kinds
  <2>3. /\ \A q \in Procs : q # p => pending'[q] = pending[q]
        /\ UNCHANGED <<handles, chan>>
    BY <2>2 DEF next_seq, TypeOK
  <2> QED BY <1>0, <2>1, <2>3 DEF SendersKnown
<1>5. ASSUME NEW p \in Procs, Send(p) PROVE SendersKnown'
  <2>1. /\ UNCHANGED <<session, open, handles>> /\ p \in handles
        /\ \A q \in Procs : pending'[q] = pending[q] \/ pending'[q].chan = "none"
    BY <1>0, <1>5, SendCases DEF SendersKnown, TypeOK
  <2> QED BY <1>0, <2>1 DEF SendersKnown
<1>6. ASSUME NEW w \in Writers, TaskEnds(w) PROVE SendersKnown'
  BY <1>6, SessionAssumption DEF TaskEnds, SendersKnown, IsIdle
<1>7. CASE FlushLoop
  <2>1. ASSUME NEW c \in Channels, poll_channel(c) PROVE SendersKnown'
    <3>1. CASE open[c] /\ RecvSome(c)
      <4>1. UNCHANGED <<pending, handles, open, session>>
        BY <2>1, <3>1 DEF RecvSome, poll_channel
      <4>2. \A d \in Channels : ~open[d] => chan'[d] = chan[d]
        BY <3>1 DEF RecvSome, TypeOK
      <4> QED BY <4>1, <4>2 DEF SendersKnown
    <3>2. CASE RecvNone(c)
      <4>1. UNCHANGED <<pending, handles, chan, session>> /\ chan[c] = <<>> /\ handles = {}
        BY <2>1, <3>2 DEF RecvNone, poll_channel
      <4>2. \A d \in Channels : d # c => open'[d] = open[d]
        BY <3>2 DEF RecvNone, TypeOK
      <4> QED BY <4>1, <4>2 DEF SendersKnown
    <3> QED BY <1>1, <2>1, <3>1, <3>2 DEF poll_channel
  <2>2. CASE drain_channel
    <3>1. UNCHANGED <<pending, handles, open, session>>
      BY <2>2 DEF drain_channel
    <3>2. \A d \in Channels : chan[d] = <<>> => chan'[d] = chan[d]
      BY <2>2 DEF drain_channel, TypeOK
    <3> QED BY <3>1, <3>2 DEF SendersKnown
  <2> QED BY <1>1, <1>7, <2>1, <2>2
          DEF FlushLoop, Channels, poll_shutdown, tick_fires, tick_pending, drained,
              adaptive_flush, insert_event, write_batch_ok, write_batch_err, rebuffer, rebuffered
<1>8. CASE UNCHANGED vars
  BY <1>1, <1>8 DEF vars
<1> QED BY <1>3, <1>4, <1>5, <1>6, <1>7, <1>8 DEF Next, Terminated

\* Accepted events stay accepted, and only a send accepts one.
LEMMA AcceptedGrows ==
    ASSUME TypeOK, [Next]_vars
    PROVE  /\ AcceptedCritical \subseteq AcceptedCritical'
           /\ AcceptedCritical' = AcceptedCritical
              \/ \E p \in Procs : pending[p].chan # "none" /\ pc # "done" /\ pc' = pc /\ after' = after
<1> USE DEF sessionVars, loopVars, flushVars, storeVars, handleVars
<1>1. CASE UNCHANGED sent
  BY <1>1 DEF AcceptedCritical, is_critical
<1>2. ASSUME NEW p \in Procs, Send(p), ~UNCHANGED sent
      PROVE  /\ AcceptedCritical \subseteq AcceptedCritical'
             /\ pending[p].chan # "none" /\ pc # "done" /\ pc' = pc /\ after' = after
  <2>1. PICK c \in Channels : pending[p].chan = c /\ pc # "done" /\ Enqueue(p, c)
    BY <1>2, SendCases
  <2>2. pending[p].ev \in Event /\ sent[c] \in Seq(Event)
    BY <2>1 DEF TypeOK, Ops, Idle, Channels
  <2>3. sent'[c] = Append(sent[c], pending[p].ev) /\ \A d \in Channels : d # c => sent'[d] = sent[d]
    BY <2>1 DEF Enqueue, TypeOK
  <2>4. Range(sent'[c]) = Range(sent[c]) \cup {pending[p].ev}
    BY <2>2, <2>3, RangeAppend
  <2>5. \A d \in Channels : Range(sent[d]) \subseteq Range(sent'[d])
    BY <2>3, <2>4
  <2>6. AcceptedCritical \subseteq AcceptedCritical'
    BY <2>5 DEF AcceptedCritical, is_critical, Channels
  <2> QED BY <1>2, <2>1, <2>6, SendCases
<1>3. CASE SessionStep
  BY <1>1, <1>3
     DEF SessionStep, start, start_returns, finish, SignalShutdown, finish_returns, drop,
         DropWriteHandle, DropPipelineHandle, Announce, next_seq
<1>4. ASSUME NEW p \in Procs, BeginRecord(p) PROVE UNCHANGED sent
  BY <1>4 DEF BeginRecord, next_seq
<1>5. ASSUME NEW w \in Writers, TaskEnds(w) PROVE UNCHANGED sent
  BY <1>5 DEF TaskEnds
<1>6. CASE FlushLoop
  BY <1>1, <1>6
     DEF FlushLoop, poll_shutdown, poll_channel, RecvSome, RecvNone, tick_fires, tick_pending,
         drain_channel, drained, adaptive_flush, insert_event, write_batch_ok, write_batch_err,
         rebuffer, rebuffered
<1>7. CASE UNCHANGED vars
  BY <1>1, <1>7 DEF vars
<1> QED BY <1>1, <1>2, <1>3, <1>4, <1>5, <1>6, <1>7 DEF Next, Terminated

\* Every step keeps SignalledOnce: finish and drop exclude each other, each signals once, and
\* the way out through `done` is never taken up again (poll_shutdown returns from the loop).
LEMMA NextSignalled ==
    ASSUME TypeOK, SignalledOnce, [Next]_vars
    PROVE  SignalledOnce'
<1> USE DEF sessionVars, loopVars, flushVars, storeVars, handleVars
<1>0. promised' = promised \/ promised' = AcceptedCritical => promised' \subseteq AcceptedCritical'
  BY AcceptedGrows DEF SignalledOnce
<1>1. CASE UNCHANGED <<session, shutdown, promised, pc, after>>
  BY <1>0, <1>1 DEF SignalledOnce
<1>2. CASE SessionStep
  <2>1. /\ UNCHANGED <<pc, after>>
        /\ promised' = promised \/ promised' = AcceptedCritical
        /\ \/ session' \in {"joining", "dropped"} /\ shutdown'
           \/ /\ session' \in {"joining", "finished", "dropped"} <=> session \in {"joining", "finished", "dropped"}
              /\ UNCHANGED <<shutdown, promised>>
    BY <1>2 DEF SessionStep, start, start_returns, finish, SignalShutdown, finish_returns, drop,
           DropWriteHandle, DropPipelineHandle, Announce, TypeOK
  <2> QED BY <1>0, <2>1 DEF SignalledOnce
<1>3. ASSUME NEW p \in Procs, BeginRecord(p) \/ Send(p) PROVE SignalledOnce'
  BY <1>1, <1>3 DEF BeginRecord, Send, SendCritical, SendAdvisory
<1>4. ASSUME NEW w \in Writers, TaskEnds(w) PROVE SignalledOnce'
  BY <1>1, <1>4 DEF TaskEnds
<1>5. CASE FlushLoop
  <2>1. UNCHANGED sessionVars
    BY <1>5 DEF FlushLoop, poll_shutdown, poll_channel, tick_fires, tick_pending,
           drain_channel, drained, adaptive_flush, insert_event, write_batch_ok, write_batch_err,
           rebuffer, rebuffered
  <2>2. ASSUME NEW return \in {"shutdown", "adaptive", "done"}, after # "done" \/ return = "done",
               EnterFlush(return) \/ FlushIfNonEmpty(return)
        PROVE  after' = "done" => pc' \in {"drain", "write", "rebuffer", "done"}
    BY <2>2 DEF EnterFlush, FlushIfNonEmpty
  <2>3. after' = "done" => pc' \in {"drain", "write", "rebuffer", "done"}
    <3>1. CASE poll_shutdown
      BY <3>1 DEF poll_shutdown, SignalledOnce
    <3>2. ASSUME NEW c \in Channels, poll_channel(c)
          PROVE  after' = "done" => pc' \in {"drain", "write", "rebuffer", "done"}
      <4>1. after # "done"
        BY <3>2 DEF poll_channel, SignalledOnce, Channels
      <4> QED BY <2>2, <3>2, <4>1 DEF poll_channel, RecvSome, RecvNone
    <3>3. CASE tick_fires
      BY <2>2, <3>3 DEF tick_fires, SignalledOnce
    <3>4. CASE drained
      BY <2>2, <3>4 DEF drained, TypeOK
    <3>5. CASE adaptive_flush
      BY <2>2, <3>5 DEF adaptive_flush, SignalledOnce
    <3>6. CASE tick_pending \/ drain_channel \/ insert_event \/ write_batch_ok \/ write_batch_err
               \/ rebuffer \/ rebuffered
      BY <3>6 DEF tick_pending, drain_channel, insert_event, write_batch_ok, write_batch_err,
             rebuffer, rebuffered, SignalledOnce
    <3> QED BY <1>5, <3>1, <3>2, <3>3, <3>4, <3>5, <3>6 DEF FlushLoop, Channels
  <2> QED BY <1>0, <2>1, <2>3 DEF SignalledOnce
<1>6. CASE UNCHANGED vars
  BY <1>1, <1>6 DEF vars
<1> QED BY <1>2, <1>3, <1>4, <1>5, <1>6 DEF Next, Terminated

\* The shutdown arm's drain: what it has not taken is in a channel it still has to drain.
LEMMA DrainKeepsPromise ==
    ASSUME TypeOK, drain_channel, NEW ev,
           ev \in Taken \/ \E c \in Range(drains) : ev \in Range(chan[c])
    PROVE  ev \in Taken' \/ \E c \in Range(drains') : ev \in Range(chan'[c])
<1> DEFINE h == Head(drains)
<1>1. /\ h \in Channels /\ drains \in Seq(Channels) /\ drains # <<>>
      /\ UNCHANGED <<redacted, durable>>
      /\ Range(drains) = {h} \cup Range(Tail(drains))
  BY RangeTail DEF drain_channel, TypeOK, storeVars
<1>2. CASE chan[h] # <<>>
  <2>1. /\ chan' = [chan EXCEPT ![h] = Tail(@)] /\ batch' = Append(batch, Head(chan[h]))
        /\ drains' = drains
    BY <1>2 DEF drain_channel
  <2>2. Head(chan[h]) \in Event /\ batch \in Seq(Event) /\ chan[h] \in Seq(Event)
    BY <1>1, <1>2 DEF TypeOK
  <2>3. /\ Range(batch') = Range(batch) \cup {Head(chan[h])}
        /\ Range(chan[h]) = {Head(chan[h])} \cup Range(Tail(chan[h]))
    BY <1>2, <2>1, <2>2, RangeAppend, RangeTail
  <2>4. \A d \in Channels : Range(chan[d]) \subseteq Range(chan'[d]) \cup Range(batch')
    BY <1>1, <2>1, <2>3 DEF TypeOK
  <2>5. Range(drains) \subseteq Channels
    BY <1>1 DEF Range
  <2> QED BY <1>1, <2>1, <2>3, <2>4, <2>5 DEF Taken
<1>3. CASE chan[h] = <<>>
  <2>1. drains' = Tail(drains) /\ UNCHANGED <<chan, batch>> /\ Range(chan[h]) = {}
    BY <1>3, RangeEmpty DEF drain_channel
  <2> QED BY <1>1, <2>1 DEF Taken
<1> QED BY <1>2, <1>3

\* A closed pipeline has taken everything: nothing is left in the channels to lose.
LEMMA EmptyChannelsTaken ==
    ASSUME CriticalConserved, pc # "done", chan["critical"] = <<>>, chan["advisory"] = <<>>
    PROVE  AcceptedCritical \subseteq Taken
BY RangeEmpty DEF CriticalConserved, Held, Taken

\* Every step keeps PromiseKept.
LEMMA NextPromise ==
    ASSUME TypeOK, Conservation, ShutdownInv, [Next]_vars, SendersKnown', SignalledOnce'
    PROVE  PromiseKept'
<1> USE DEF sessionVars, loopVars, flushVars, storeVars, handleVars
<1>0. SendersKnown /\ SignalledOnce /\ PromiseKept /\ FlushProgress /\ CriticalConserved
  BY DEF ShutdownInv, Conservation
<1>1. \A ev \in Taken : is_critical(ev) => ev \in Taken'
  BY <1>0, TakenStays DEF vars, Taken
<1>2. \A ev \in promised \cup AcceptedCritical : is_critical(ev)
  BY <1>0 DEF SignalledOnce, AcceptedCritical
<1>3. CASE UNCHANGED vars
  <2>1. UNCHANGED <<Taken, LastFlush, AcceptedCritical, promised, drains, chan, pc, after, handles, shutdown>>
    BY <1>3 DEF vars, Taken, LastFlush, AcceptedCritical, is_critical
  <2> QED BY <1>0, <2>1 DEF PromiseKept
\* Steps of the session and of the writers: the loop stands still, the channels only grow.
<1>4. CASE /\ UNCHANGED <<loopVars, flushVars, storeVars>>
           /\ \A c \in Channels : Range(chan[c]) \subseteq Range(chan'[c])
           /\ shutdown => UNCHANGED <<shutdown, promised>>
           /\ handles = {} => UNCHANGED <<handles, sent>>
           /\ ~shutdown /\ shutdown' => promised' = AcceptedCritical
  <2>1. Taken' = Taken /\ (LastFlush' <=> LastFlush)
    BY <1>4 DEF Taken, LastFlush
  <2>2. Range(drains) \subseteq Channels
    BY DEF TypeOK, Range
  <2>3. ASSUME pc' = "drain", after' = "done"
        PROVE  shutdown' /\ \A ev \in promised' : ev \in Taken' \/ \E c \in Range(drains') : ev \in Range(chan'[c])
    BY <1>0, <1>4, <2>1, <2>2, <2>3 DEF PromiseKept
  <2>4. ASSUME LastFlush'
        PROVE  IF shutdown' THEN promised' \subseteq Taken'
               ELSE handles' = {} /\ AcceptedCritical' \subseteq Taken'
    <3>1. CASE shutdown
      BY <1>0, <1>4, <2>1, <2>4, <3>1 DEF PromiseKept
    <3>2. CASE ~shutdown
      <4>1. handles = {} /\ AcceptedCritical \subseteq Taken
        BY <1>0, <2>1, <2>4, <3>2 DEF PromiseKept
      <4>2. handles' = {} /\ AcceptedCritical' = AcceptedCritical
        BY <1>4, <4>1 DEF AcceptedCritical, is_critical
      <4> QED BY <1>4, <2>1, <3>2, <4>1, <4>2
    <3> QED BY <3>1, <3>2
  <2> QED BY <2>3, <2>4 DEF PromiseKept
<1>5. CASE SessionStep
  <2>1. /\ UNCHANGED <<loopVars, flushVars, storeVars, chan, sent>>
    BY <1>5 DEF SessionStep, start, start_returns, finish, SignalShutdown, finish_returns, drop,
           DropWriteHandle, DropPipelineHandle, Announce, next_seq
  <2>2. shutdown => UNCHANGED <<shutdown, promised>>
    BY <1>0, <1>5 DEF SessionStep, start, start_returns, finish, SignalShutdown, finish_returns, drop,
           DropWriteHandle, DropPipelineHandle, Announce, SignalledOnce
  <2>3. ~shutdown /\ shutdown' => promised' = AcceptedCritical
    BY <1>5 DEF SessionStep, start, start_returns, finish, SignalShutdown, finish_returns, drop,
           DropWriteHandle, DropPipelineHandle, Announce
  <2>4. handles = {} => UNCHANGED handles
    BY <1>0, <1>5 DEF SessionStep, start, start_returns, finish, SignalShutdown, finish_returns, drop,
           DropWriteHandle, DropPipelineHandle, Announce, next_seq, SendersKnown
  <2> QED BY <1>4, <2>1, <2>2, <2>3, <2>4
<1>6. ASSUME NEW p \in Procs, BeginRecord(p) PROVE PromiseKept'
  BY <1>4, <1>6 DEF BeginRecord, next_seq
<1>7. ASSUME NEW p \in Procs, Send(p) PROVE PromiseKept'
  <2>1. /\ UNCHANGED <<sessionVars, loopVars, flushVars, storeVars, handles>> /\ p \in handles
    BY <1>0, <1>7, SendCases DEF SendersKnown
  <2>2. \A c \in Channels : Range(chan[c]) \subseteq Range(chan'[c])
    <3>1. CASE UNCHANGED chan
      BY <3>1
    <3>2. ASSUME NEW c \in Channels, pending[p].chan = c, Enqueue(p, c)
          PROVE  \A d \in Channels : Range(chan[d]) \subseteq Range(chan'[d])
      <4>1. pending[p].ev \in Event /\ chan[c] \in Seq(Event)
        BY <3>2 DEF TypeOK, Ops, Idle, Channels
      <4>2. chan'[c] = Append(chan[c], pending[p].ev) /\ \A d \in Channels : d # c => chan'[d] = chan[d]
        BY <3>2 DEF Enqueue, TypeOK
      <4>3. Range(chan'[c]) = Range(chan[c]) \cup {pending[p].ev}
        BY <4>1, <4>2, RangeAppend
      <4> QED BY <4>2, <4>3
    <3> QED BY <1>7, <3>1, <3>2, SendCases
  <2> QED BY <1>4, <2>1, <2>2
<1>8. ASSUME NEW w \in Writers, TaskEnds(w) PROVE PromiseKept'
  BY <1>4, <1>8 DEF TaskEnds
<1>9. CASE FlushLoop
  <2>0. UNCHANGED <<sessionVars, handles, sent>> /\ AcceptedCritical' = AcceptedCritical
    <3>1. UNCHANGED <<sessionVars, handles, sent>>
      BY <1>9 DEF FlushLoop, poll_shutdown, poll_channel, RecvSome, RecvNone, tick_fires, tick_pending,
             drain_channel, drained, adaptive_flush, insert_event, write_batch_ok, write_batch_err,
             rebuffer, rebuffered
    <3> QED BY <3>1 DEF AcceptedCritical, is_critical
  \* Steps that neither enter nor leave the way out.
  <2>1. CASE ~LastFlush' /\ ~(pc' = "drain" /\ after' = "done")
    BY <2>1 DEF PromiseKept
  <2>2. CASE LastFlush /\ LastFlush'
    <3>1. ~(pc' = "drain" /\ after' = "done")
      BY <2>2 DEF LastFlush
    <3>2. IF shutdown' THEN promised' \subseteq Taken'
          ELSE handles' = {} /\ AcceptedCritical' \subseteq Taken'
      <4>1. CASE shutdown
        BY <1>0, <1>1, <1>2, <2>0, <2>2, <4>1 DEF PromiseKept
      <4>2. CASE ~shutdown
        BY <1>0, <1>1, <1>2, <2>0, <2>2, <4>2 DEF PromiseKept
      <4> QED BY <4>1, <4>2
    <3> QED BY <3>1, <3>2 DEF PromiseKept
  <2>3. CASE poll_shutdown
    <3>1. CASE shutdown
      <4>1. pc' = "drain" /\ drains' = <<"critical", "advisory">> /\ UNCHANGED <<chan, batch, redacted, durable>>
        BY <2>3, <3>1 DEF poll_shutdown, ShutdownDrains
      <4>2. "critical" \in Range(drains') /\ "advisory" \in Range(drains')
        BY <4>1 DEF Range
      <4>3. promised' \subseteq Held
        BY <1>0, <2>0, <2>3 DEF SignalledOnce, CriticalConserved, poll_shutdown
      <4>4. \A ev \in promised' : ev \in Taken' \/ \E c \in Range(drains') : ev \in Range(chan'[c])
        BY <4>1, <4>2, <4>3 DEF Held, Taken
      <4> QED BY <2>0, <3>1, <4>1, <4>4 DEF PromiseKept, LastFlush
    <3>2. CASE ~shutdown
      BY <2>1, <2>3, <3>2 DEF poll_shutdown, LastFlush
    <3> QED BY <3>1, <3>2
  <2>4. ASSUME NEW c \in Channels, poll_channel(c) PROVE PromiseKept'
    <3>1. CASE RecvNone(c) /\ ~open[Other(c)]
      <4>1. chan["critical"] = <<>> /\ chan["advisory"] = <<>> /\ pc # "done"
        BY <1>0, <2>4, <3>1 DEF RecvNone, SendersKnown, Other, Channels, poll_channel
      <4>2. AcceptedCritical \subseteq Taken
        BY <1>0, <4>1, EmptyChannelsTaken
      <4>3. handles' = {} /\ AcceptedCritical' \subseteq Taken' /\ promised' \subseteq AcceptedCritical'
        BY <1>0, <1>1, <1>2, <2>0, <3>1, <4>2 DEF RecvNone, SignalledOnce
      <4>4. pc' # "drain"
        BY <3>1 DEF RecvNone, FlushIfNonEmpty, EnterFlush
      <4> QED BY <4>3, <4>4 DEF PromiseKept
    <3>2. CASE ~(RecvNone(c) /\ ~open[Other(c)])
      <4>1. pc' \in {"drain", "adaptive", "advisory", "tick"} /\ (after' = "adaptive" \/ pc' # "drain")
        BY <2>4, <3>2 DEF poll_channel, RecvSome, RecvNone, NextPoll
      <4> QED BY <2>1, <4>1 DEF LastFlush
    <3> QED BY <3>1, <3>2
  <2>5. CASE tick_fires \/ tick_pending \/ adaptive_flush
    <3>1. pc' # "done" /\ pc' # "drain" /\ (after' # "done" \/ pc' \notin {"write", "rebuffer"})
      BY <2>5 DEF tick_fires, tick_pending, adaptive_flush, FlushIfNonEmpty, EnterFlush
    <3> QED BY <2>1, <3>1 DEF LastFlush
  <2>6. CASE drain_channel
    <3>1. pc = "drain" /\ UNCHANGED <<pc, after>>
      BY <2>6 DEF drain_channel
    <3>2. CASE after = "done"
      BY <1>0, <2>0, <2>6, <3>1, <3>2, DrainKeepsPromise DEF PromiseKept, LastFlush
    <3> QED BY <2>1, <3>1, <3>2 DEF LastFlush
  <2>7. CASE drained
    <3>1. CASE after = "done"
      <4>1. shutdown /\ promised \subseteq Taken
        BY <1>0, <2>7, <3>1, RangeEmpty DEF drained, PromiseKept
      <4>2. shutdown' /\ promised' \subseteq Taken' /\ pc' # "drain"
        BY <1>1, <1>2, <2>0, <2>7, <3>1, <4>1 DEF drained, FlushIfNonEmpty, EnterFlush
      <4> QED BY <4>2 DEF PromiseKept
    <3>2. CASE after # "done"
      <4>1. pc' # "done" /\ pc' # "drain" /\ (after' # "done" \/ pc' \notin {"write", "rebuffer"})
        BY <2>7, <3>2 DEF drained, FlushIfNonEmpty, EnterFlush, TypeOK
      <4> QED BY <2>1, <4>1 DEF LastFlush
    <3> QED BY <3>1, <3>2
  <2>8. CASE insert_event \/ write_batch_err \/ rebuffer \/ write_batch_ok \/ rebuffered
    <3>1. pc \in {"write", "rebuffer"} /\ pc' # "drain" /\ (LastFlush' => after = "done")
      BY <2>8 DEF insert_event, write_batch_err, rebuffer, write_batch_ok, rebuffered, LastFlush, TypeOK
    <3> QED BY <2>1, <2>2, <3>1 DEF LastFlush
  <2> QED BY <1>9, <2>3, <2>4, <2>5, <2>6, <2>7, <2>8 DEF FlushLoop, Channels
<1> QED BY <1>3, <1>5, <1>6, <1>7, <1>8, <1>9 DEF Next, Terminated

\* Every step keeps RefusedInv.
LEMMA NextRefused == TypeOK /\ RefusedInv /\ [Next]_vars => RefusedInv'
<1> SUFFICES ASSUME TypeOK, RefusedInv, [Next]_vars PROVE RefusedInv'
  OBVIOUS
<1> USE DEF sessionVars, loopVars, flushVars, storeVars, handleVars
<1>1. CASE UNCHANGED <<pc, batch, redacted, refused>>
  BY <1>1 DEF RefusedInv
<1>2. ASSUME NEW return \in {"done", "adaptive", "shutdown"},
             EnterFlush(return) \/ FlushIfNonEmpty(return)
      PROVE  RefusedInv'
  <2>1. CASE EnterFlush(return)
    BY <2>1 DEF EnterFlush, RefusedInv
  <2>2. CASE batch = <<>> /\ pc' = return /\ UNCHANGED flushVars
    BY <2>2, RangeEmpty DEF RefusedInv
  <2> QED BY <1>2, <2>1, <2>2 DEF FlushIfNonEmpty
<1>3. CASE SessionStep
  BY <1>1, <1>3 DEF SessionStep, start, start_returns, finish, SignalShutdown, finish_returns,
                    drop, DropWriteHandle, DropPipelineHandle, Announce
<1>4. ASSUME NEW p \in Procs, BeginRecord(p) \/ Send(p) PROVE RefusedInv'
  BY <1>1, <1>4 DEF BeginRecord, Send, SendCritical, SendAdvisory
<1>5. ASSUME NEW w \in Writers, TaskEnds(w) PROVE RefusedInv'
  BY <1>1, <1>5 DEF TaskEnds
<1>6. CASE FlushLoop
  <2>1. CASE poll_shutdown \/ tick_pending
    BY <2>1 DEF poll_shutdown, tick_pending, RefusedInv
  <2>2. ASSUME NEW c \in Channels, poll_channel(c) PROVE RefusedInv'
    <3>1. CASE RecvSome(c)
      BY <3>1 DEF RecvSome, RefusedInv
    <3>2. CASE RecvNone(c)
      <4>1. CASE FlushIfNonEmpty("done")
        BY <1>2, <4>1
      <4>2. CASE pc' = "adaptive"
        BY <4>2 DEF RefusedInv
      <4> QED BY <3>2, <4>1, <4>2 DEF RecvNone
    <3>3. CASE pc' = NextPoll(c)
      BY <3>3 DEF NextPoll, RefusedInv
    <3> QED BY <2>2, <3>1, <3>2, <3>3 DEF poll_channel
  <2>3. CASE tick_fires
    BY <1>2, <2>3 DEF tick_fires
  <2>4. CASE drain_channel
    BY <2>4 DEF drain_channel, RefusedInv
  <2>5. CASE drained
    <3>1. CASE FlushIfNonEmpty(after)
      BY <1>2, <3>1 DEF TypeOK
    <3>2. CASE pc' = "adaptive"
      BY <3>2 DEF RefusedInv
    <3> QED BY <2>5, <3>1, <3>2 DEF drained
  <2>6. CASE adaptive_flush
    <3>1. CASE pc' = "shutdown"
      BY <3>1 DEF RefusedInv
    <3> QED BY <1>2, <2>6, <3>1 DEF adaptive_flush
  <2>7. CASE insert_event
    BY <2>7 DEF insert_event, RefusedInv
  <2>8. CASE write_batch_ok
    BY <2>8, RangeEmpty DEF write_batch_ok, RefusedInv, TypeOK
  <2>9. CASE write_batch_err
    BY <2>9, RangeEmpty DEF write_batch_err, RefusedInv
  <2>10. CASE rebuffer
    <3>1. Range(batch') \subseteq Range(batch) \cup Range(redacted)
      <4>1. redacted[cursor] \in Range(redacted)
        BY <2>10 DEF rebuffer, Range, TypeOK
      <4> QED BY <2>10, <4>1, RangeAppend DEF rebuffer, TypeOK
    <3> QED BY <2>10, <3>1 DEF rebuffer, RefusedInv
  <2>11. CASE rebuffered
    BY <2>11 DEF rebuffered, RefusedInv, TypeOK
  <2> QED BY <1>6, <2>1, <2>2, <2>3, <2>4, <2>5, <2>6, <2>7, <2>8, <2>9, <2>10, <2>11
          DEF FlushLoop, Channels
<1>7. CASE UNCHANGED vars
  BY <1>1, <1>7 DEF vars
<1> QED BY <1>3, <1>4, <1>5, <1>6, <1>7 DEF Next, Terminated

\* Graceful shutdown, for every interleaving of finish or drop with the writers, the drains
\* and the store's failures: when the flush loop has returned, every critical event accepted
\* before the shutdown signal is stored, or both write_batch calls of the last flush failed with
\* it in hand.
THEOREM ShutdownKeepsPromise == Spec => []GracefulShutdown
<1>1. Init => Conservation /\ ShutdownInv
  <2> SUFFICES ASSUME Init PROVE Conservation /\ ShutdownInv
    OBVIOUS
  <2>1. Conservation
    BY RangeEmpty DEF Init, Conservation, FlushProgress, CriticalConserved, AcceptedCritical, Channels
  <2>2. SendersKnown
    BY DEF Init, SendersKnown, Idle
  <2>3. SignalledOnce
    BY DEF Init, SignalledOnce
  <2>4. PromiseKept
    BY DEF Init, PromiseKept, LastFlush
  <2> QED BY <2>1, <2>2, <2>3, <2>4 DEF ShutdownInv
<1>2. TypeOK /\ Conservation /\ ShutdownInv /\ [Next]_vars => ShutdownInv'
  BY NextSenders, NextSignalled, NextPromise DEF ShutdownInv
<1>3. Init => RefusedInv
  BY DEF Init, RefusedInv
<1>4. Conservation /\ ShutdownInv /\ RefusedInv => GracefulShutdown
  <2> SUFFICES ASSUME Conservation, ShutdownInv, RefusedInv, pc = "done"
               PROVE  promised \subseteq Range(durable) \cup (refused \cap Range(batch))
    BY DEF GracefulShutdown
  <2>1. Range(redacted) = {}
    BY RangeEmpty DEF Conservation, FlushProgress
  <2>2. promised \subseteq Range(durable) \cup Range(batch)
    BY <2>1 DEF ShutdownInv, PromiseKept, LastFlush, SignalledOnce, Taken
  <2> QED BY <2>2 DEF RefusedInv
<1> QED BY <1>1, <1>2, <1>3, <1>4, TypeCorrect, NextConservation, NextRefused, PTL DEF Spec

-----------------------------------------------------------------------------
(* The store holds a prefix of the critical channel's log *)

Critical == sent["critical"]
Accepted == Range(sent["critical"]) \cup Range(sent["advisory"])

\* The numbers the session's own two events have used up.
Announced == IF session = "new" THEN 0 ELSE IF session \in {"starting", "open"} THEN 1 ELSE 2

\* The shared counter is bounded by what was written.
Counted == records <= MaxRecords /\ seq >= 1 /\ seq <= records + 1 + Announced

\* A number is handed out once: an event in hand has one of its own, which no accepted event
\* has either, and what is meant for the critical channel is critical.
Numbered ==
    /\ \A ev \in Accepted : ev.seq \in 1..(seq - 1)
    /\ \A p \in Procs : ~IsIdle(p) =>
           /\ pending[p].ev.seq \in 1..(seq - 1)
           /\ \A ev \in Accepted : ev.seq # pending[p].ev.seq
           /\ \A q \in Procs : (q # p /\ ~IsIdle(q)) => pending[q].ev.seq # pending[p].ev.seq
           /\ pending[p].chan = "critical" => is_critical(pending[p].ev)

\* The critical channel accepts an event once, and the advisory channel none of them.
AcceptedOnce ==
    /\ \A a, b \in 1..Len(Critical) : Critical[a] = Critical[b] => a = b
    /\ \A a \in 1..Len(Critical) : is_critical(Critical[a]) /\ Critical[a] \notin Range(sent["advisory"])

\* How many events the flush loop has received from the critical channel.
Received == Len(Critical) - Len(chan["critical"])

\* The critical channel holds the end of its log; the loop holds only what was received.
ChannelInOrder ==
    /\ Received >= 0
    /\ \A i \in 1..Len(chan["critical"]) : chan["critical"][i] = Critical[Received + i]
    /\ \A a \in 1..Len(Critical) : Critical[a] \in Taken => a <= Received
    /\ Range(chan["advisory"]) \subseteq Range(sent["advisory"])
    /\ Taken \subseteq Accepted

\* The positions in the log of the critical events of q increase.
InOrder(q) ==
    \A i, j \in 1..Len(q) : \A a, b \in 1..Len(Critical) :
        (i < j /\ q[i] = Critical[a] /\ q[j] = Critical[b]) => a < b

\* Batches are in log order, and what is re-buffered comes before what is still to be.
BatchesInOrder ==
    /\ InOrder(batch) /\ InOrder(redacted)
    /\ pc = "write" => batch = <<>>
    /\ pc = "rebuffer" =>
           \A i \in 1..Len(batch), j \in 1..Len(redacted) : \A a, b \in 1..Len(Critical) :
               (j >= cursor /\ batch[i] = Critical[a] /\ redacted[j] = Critical[b]) => a < b

\* The critical channel's part of the store is a prefix of its log.
StoredPrefix ==
    /\ Len(DurableCritical) <= Len(Critical)
    /\ \A k \in 1..Len(DurableCritical) : DurableCritical[k] = Critical[k]

LogInv == Counted /\ Numbered /\ AcceptedOnce /\ ChannelInOrder /\ BatchesInOrder /\ StoredPrefix

Smaller(S, x) == {y \in S : y < x}
\* The number of smaller names tells where a name is.
LEMMA RankOf ==
  ASSUME NEW S, IsFiniteSet(S), S \subseteq Nat
  PROVE  /\ Cardinality(S) \in Nat
         /\ \A x \in S : Cardinality(Smaller(S, x)) \in 0..(Cardinality(S) - 1)
         /\ \A x, y \in S : Cardinality(Smaller(S, x)) = Cardinality(Smaller(S, y)) => x = y
         /\ \A k \in 1..Cardinality(S) : \E x \in S : Cardinality(Smaller(S, x)) = k - 1
<1>0. Cardinality(S) \in Nat
  BY FS_CardinalityType
<1>1. ASSUME NEW x \in S
      PROVE  /\ IsFiniteSet(Smaller(S, x)) /\ Cardinality(Smaller(S, x)) \in Nat
             /\ Cardinality(Smaller(S, x)) <= Cardinality(S) - 1
  <2>1. Smaller(S, x) \subseteq S \ {x}
    BY DEF Smaller
  <2>2. IsFiniteSet(S \ {x}) /\ Cardinality(S \ {x}) = Cardinality(S) - 1
    BY FS_RemoveElement
  <2> QED
    BY <2>1, <2>2, FS_Subset, FS_CardinalityType
<1>2. ASSUME NEW x \in S, NEW y \in S, x < y PROVE Cardinality(Smaller(S, x)) < Cardinality(Smaller(S, y))
  <2>1. Smaller(S, x) \subseteq Smaller(S, y)
    <3> SUFFICES ASSUME NEW z \in S, z < x PROVE z < y
      BY DEF Smaller
    <3>1. x \in Nat /\ y \in Nat /\ z \in Nat
      OBVIOUS
    <3> QED
      BY <1>2, <3>1
  <2>2. x \in Smaller(S, y) /\ x \notin Smaller(S, x)
    BY <1>2 DEF Smaller
  <2>3. /\ Cardinality(Smaller(S, x)) <= Cardinality(Smaller(S, y))
        /\ Cardinality(Smaller(S, x)) # Cardinality(Smaller(S, y))
    BY <1>1, <2>1, <2>2, FS_Subset
  <2> QED
    BY <1>1, <2>3
<1> DEFINE f == [x \in S |-> Cardinality(Smaller(S, x))]
           N == 0..(Cardinality(S) - 1)
<1>3. f \in [S -> N]
  BY <1>0, <1>1
<1>4. \A x, y \in S : Cardinality(Smaller(S, x)) = Cardinality(Smaller(S, y)) => x = y
  <2> SUFFICES ASSUME NEW x \in S, NEW y \in S, Cardinality(Smaller(S, x)) = Cardinality(Smaller(S, y)), x # y PROVE FALSE
    OBVIOUS
  <2>1. x < y \/ y < x
    OBVIOUS
  <2> QED
    BY <1>1, <1>2, <2>1
<1>5. IsFiniteSet(N) /\ Cardinality(N) = Cardinality(S)
  <2>1. 0 \in Int /\ Cardinality(S) - 1 \in Int
    BY <1>0
  <2>2. IsFiniteSet(N) /\ Cardinality(N) = IF 0 > Cardinality(S) - 1 THEN 0 ELSE (Cardinality(S) - 1) - 0 + 1
    BY <2>1, FS_Interval
  <2> HIDE DEF N
  <2> QED
    BY <1>0, <2>2
<1>6. f \in Surjection(S, N)
  <2>1. f \in Injection(S, N)
    BY <1>3, <1>4 DEF Injection, IsInjective
  <2> HIDE DEF f, N
  <2> QED
    BY <1>5, <2>1, FS_Injection
<1>7. \A k \in 1..Cardinality(S) : \E x \in S : Cardinality(Smaller(S, x)) = k - 1
  <2>1. \A m \in N : \E x \in S : f[x] = m
    BY <1>6 DEF Surjection
  <2>2. \A k \in 1..Cardinality(S) : k - 1 \in N
    BY <1>0
  <2> QED
    BY <2>1, <2>2
<1> QED
  BY <1>0, <1>1, <1>4, <1>7
\* The places of a sequence are finitely many numbers.
LEMMA PlacesFinite ==
    ASSUME NEW E, NEW q \in Seq(E), NEW R
    PROVE  IsFiniteSet(Places(q, R)) /\ Places(q, R) \subseteq Nat /\ Places(q, R) \subseteq 1..Len(q)
<1>1. Places(q, R) \subseteq 1..Len(q) /\ Len(q) \in Nat
  BY DEF Places
<1>2. IsFiniteSet(1..Len(q))
  <2>1. 1 \in Int /\ Len(q) \in Int
    BY <1>1
  <2> QED
    BY <2>1, FS_Interval
<1> QED BY <1>1, <1>2, FS_Subset

\* Selecting keeps exactly the elements at these places, each at its rank.
LEMMA SelectFacts ==
    ASSUME NEW E, NEW q \in Seq(E), NEW R
    PROVE  /\ Cardinality(Places(q, R)) \in Nat
           /\ Selected(q, R) \in Seq(E) /\ Len(Selected(q, R)) = Cardinality(Places(q, R))
           /\ \A i \in Places(q, R) :
                  /\ Cardinality(Smaller(Places(q, R), i)) + 1 \in 1..Cardinality(Places(q, R))
                  /\ Selected(q, R)[Cardinality(Smaller(Places(q, R), i)) + 1] = q[i]
           /\ \A k \in 1..Cardinality(Places(q, R)) : \E i \in Places(q, R) :
                  Cardinality(Smaller(Places(q, R), i)) = k - 1 /\ Selected(q, R)[k] = q[i]
<1> DEFINE P == Places(q, R)
           rank(i) == Cardinality(Smaller(P, i))
           at(k) == CHOOSE i \in P : rank(i) = k - 1
<1>1. IsFiniteSet(P) /\ P \subseteq Nat /\ P \subseteq 1..Len(q)
  BY PlacesFinite
<1>2. Selected(q, R) = [k \in 1..Cardinality(P) |-> q[at(k)]]
  BY DEF Selected, Smaller
<1> HIDE DEF P
<1>3. /\ Cardinality(P) \in Nat
      /\ \A i \in P : rank(i) \in 0..(Cardinality(P) - 1)
      /\ \A i, j \in P : rank(i) = rank(j) => i = j
      /\ \A k \in 1..Cardinality(P) : \E i \in P : rank(i) = k - 1
  BY <1>1, RankOf
<1> HIDE DEF rank
<1>4. \A k \in 1..Cardinality(P) : at(k) \in P /\ rank(at(k)) = k - 1
  BY <1>3
<1>5. \A i \in P : rank(i) + 1 \in 1..Cardinality(P)
  BY <1>3
<1>6. \A i \in P : at(rank(i) + 1) = i
  <2> TAKE i \in P
  <2>1. rank(i) \in Int /\ rank(at(rank(i) + 1)) = (rank(i) + 1) - 1 /\ at(rank(i) + 1) \in P
    BY <1>3, <1>4, <1>5
  <2>2. rank(at(rank(i) + 1)) = rank(i)
    BY <2>1
  <2> HIDE DEF at
  <2> QED BY <1>3, <2>1, <2>2
<1> HIDE DEF at
<1>7. \A i \in P : q[i] \in E
  BY <1>1
<1>8. Selected(q, R) \in Seq(E) /\ Len(Selected(q, R)) = Cardinality(P)
  BY <1>2, <1>3, <1>4, <1>7
<1>9. \A i \in P : rank(i) + 1 \in 1..Cardinality(P) /\ Selected(q, R)[rank(i) + 1] = q[i]
  BY <1>2, <1>5, <1>6
<1>10. \A k \in 1..Cardinality(P) : \E i \in P : rank(i) = k - 1 /\ Selected(q, R)[k] = q[i]
  BY <1>2, <1>4
<1> QED BY <1>3, <1>8, <1>9, <1>10 DEF P, rank

\* Two sequences with the same elements at the same places are selected from alike.
LEMMA SelectSame ==
    ASSUME NEW E, NEW q \in Seq(E), NEW R, NEW m \in Seq(E), NEW T, Places(m, T) = Places(q, R),
           \A i \in Places(q, R) : m[i] = q[i]
    PROVE  Selected(m, T) = Selected(q, R)
<1>1. /\ Selected(m, T) \in Seq(E) /\ Len(Selected(m, T)) = Cardinality(Places(q, R))
      /\ \A i \in Places(q, R) : Selected(m, T)[Cardinality(Smaller(Places(q, R), i)) + 1] = m[i]
  BY SelectFacts
<1>2. /\ Cardinality(Places(q, R)) \in Nat
      /\ Selected(q, R) \in Seq(E) /\ Len(Selected(q, R)) = Cardinality(Places(q, R))
      /\ \A k \in 1..Cardinality(Places(q, R)) : \E i \in Places(q, R) :
              Cardinality(Smaller(Places(q, R), i)) = k - 1 /\ Selected(q, R)[k] = q[i]
  BY SelectFacts
<1>3. ASSUME NEW k \in 1..Cardinality(Places(q, R)) PROVE Selected(m, T)[k] = Selected(q, R)[k]
  <2>1. PICK i \in Places(q, R) : Cardinality(Smaller(Places(q, R), i)) = k - 1 /\ Selected(q, R)[k] = q[i]
    BY <1>2
  <2>2. Cardinality(Smaller(Places(q, R), i)) + 1 = k
    BY <2>1
  <2> QED BY <1>1, <2>1, <2>2
<1> QED BY <1>1, <1>2, <1>3

\* An insert of an event that is not selected changes nothing.
LEMMA SelectAppendOut ==
    ASSUME NEW E, NEW q \in Seq(E), NEW R, NEW x \in E, x \notin R
    PROVE  Selected(Append(q, x), R) = Selected(q, R)
<1>1. /\ Append(q, x) \in Seq(E) /\ Len(Append(q, x)) = Len(q) + 1 /\ Append(q, x)[Len(q) + 1] = x
      /\ Len(q) \in Nat /\ \A i \in 1..Len(q) : Append(q, x)[i] = q[i]
  OBVIOUS
<1>2. \A i \in 1..(Len(q) + 1) : i \in 1..Len(q) \/ i = Len(q) + 1
  BY <1>1
<1>3. 1..Len(q) \subseteq 1..(Len(q) + 1)
  BY <1>1
<1>4. Places(Append(q, x), R) = Places(q, R) /\ \A i \in Places(q, R) : Append(q, x)[i] = q[i]
  BY <1>1, <1>2, <1>3 DEF Places
<1> DEFINE m == Append(q, x)
<1>5. m \in Seq(E) /\ Places(m, R) = Places(q, R) /\ \A i \in Places(q, R) : m[i] = q[i]
  BY <1>1, <1>4
<1> HIDE DEF m
<1>6. Selected(m, R) = Selected(q, R)
  BY <1>5, SelectSame
<1> QED BY <1>6 DEF m

\* An insert of an event that is selected comes last.
LEMMA SelectAppendIn ==
    ASSUME NEW E, NEW q \in Seq(E), NEW R, NEW x \in E, x \in R
    PROVE  Selected(Append(q, x), R) = Append(Selected(q, R), x)
<1> DEFINE m == Append(q, x)
           n == Len(q) + 1
           P == Places(q, R)
           N == Cardinality(P)
<1>1. /\ m \in Seq(E) /\ Len(m) = n /\ m[n] = x /\ n \in Nat
      /\ Len(q) \in Nat /\ \A i \in 1..Len(q) : m[i] = q[i]
  OBVIOUS
<1>2. \A i \in 1..n : i \in 1..Len(q) \/ i = n
  BY <1>1
<1>3. 1..Len(q) \subseteq 1..n /\ n \in 1..n /\ n \notin 1..Len(q) /\ \A i \in 1..Len(q) : i < n /\ ~ n < i
  BY <1>1
<1>4. Places(m, R) = P \cup {n} /\ n \notin P
  <2> HIDE DEF m, n
  <2> QED BY <1>1, <1>2, <1>3 DEF Places
<1>5. IsFiniteSet(P) /\ P \subseteq Nat /\ P \subseteq 1..Len(q)
  BY PlacesFinite
<1>6. /\ N \in Nat /\ Selected(q, R) \in Seq(E) /\ Len(Selected(q, R)) = N
      /\ \A k \in 1..N : \E i \in P : Cardinality(Smaller(P, i)) = k - 1 /\ Selected(q, R)[k] = q[i]
  BY SelectFacts
<1> HIDE DEF m, n, P, N
<1>7. Cardinality(P \cup {n}) = N + 1
  BY <1>4, <1>5, FS_AddElement DEF N
<1>8. /\ Selected(m, R) \in Seq(E) /\ Len(Selected(m, R)) = N + 1
      /\ \A i \in P \cup {n} : Selected(m, R)[Cardinality(Smaller(P \cup {n}, i)) + 1] = m[i]
  <2>1. /\ Selected(m, R) \in Seq(E) /\ Len(Selected(m, R)) = Cardinality(Places(m, R))
        /\ \A i \in Places(m, R) : Selected(m, R)[Cardinality(Smaller(Places(m, R), i)) + 1] = m[i]
    BY <1>1, SelectFacts
  <2> QED BY <1>4, <1>7, <2>1
<1>9. Smaller(P \cup {n}, n) = P /\ \A i \in P : Smaller(P \cup {n}, i) = Smaller(P, i)
  <2>1. \A i \in P : i < n /\ ~ n < i
    BY <1>3, <1>5
  <2>2. ~ n < n
    BY <1>1
  <2>3. Smaller(P \cup {n}, n) = P
    BY <2>1, <2>2 DEF Smaller
  <2>4. \A i \in P : Smaller(P \cup {n}, i) = Smaller(P, i)
    BY <2>1 DEF Smaller
  <2> QED BY <2>3, <2>4
<1>10. Selected(m, R)[N + 1] = x
  BY <1>1, <1>8, <1>9 DEF N
<1>11. ASSUME NEW k \in 1..N PROVE Selected(m, R)[k] = Selected(q, R)[k]
  <2>1. PICK i \in P : Cardinality(Smaller(P, i)) = k - 1 /\ Selected(q, R)[k] = q[i]
    BY <1>6
  <2>2. Cardinality(Smaller(P, i)) + 1 = k
    BY <2>1
  <2>3. Selected(m, R)[k] = m[i]
    BY <1>8, <1>9, <2>2
  <2> QED BY <1>1, <1>5, <2>1, <2>3
<1>12. Selected(m, R) = Append(Selected(q, R), x)
  <2> DEFINE s == Selected(q, R)
             t == Selected(m, R)
  <2> HIDE DEF s, t
  <2>1. s \in Seq(E) /\ Len(s) = N /\ t \in Seq(E) /\ Len(t) = N + 1 /\ t[N + 1] = x
        /\ \A k \in 1..N : t[k] = s[k]
    BY <1>6, <1>8, <1>10, <1>11 DEF s, t
  <2>2. t = Append(s, x)
    BY <1>6, <2>1
  <2> QED BY <2>2 DEF s, t
<1> QED BY <1>12 DEF m

\* The steps of the flush loop as the order of events sees them.
Waits == /\ UNCHANGED <<chan, batch, redacted, durable>>
         /\ pc \notin {"write", "rebuffer", "done"} /\ pc' \notin {"write", "rebuffer"}
Receives(c) ==
    /\ chan[c] # <<>> /\ chan' = [chan EXCEPT ![c] = Tail(@)]
    /\ batch' = Append(batch, Head(chan[c])) /\ UNCHANGED <<redacted, durable>>
    /\ pc \notin {"write", "rebuffer", "done"} /\ pc' = "drain"
Enters == /\ redacted' = batch /\ batch' = <<>> /\ UNCHANGED <<chan, durable>>
          /\ pc \notin {"write", "rebuffer", "done"} /\ pc' = "write"
Fails == /\ UNCHANGED <<chan, batch, redacted, durable>> /\ cursor' = 1
         /\ pc = "write" /\ pc' \in {"write", "rebuffer"}
Returns == /\ redacted' = <<>> /\ UNCHANGED <<chan, batch, durable>>
           /\ pc \in {"write", "rebuffer"} /\ pc' \notin {"write", "rebuffer"}

\* Every step of the flush loop is one of these, an insert or a re-buffering.
LEMMA LoopCases ==
    ASSUME TypeOK, FlushLoop
    PROVE  /\ UNCHANGED <<seq, pending, sent, records, session>>
           /\ \/ Waits \/ (\E c \in Channels : Receives(c)) \/ Enters \/ Fails \/ Returns
              \/ insert_event \/ rebuffer
<1> USE DEF sessionVars, loopVars, flushVars, storeVars, handleVars
<1>1. UNCHANGED <<seq, pending, sent, records, session>>
  BY DEF FlushLoop, poll_shutdown, poll_channel, RecvSome, RecvNone, tick_fires, tick_pending,
         drain_channel, drained, adaptive_flush, insert_event, write_batch_ok, write_batch_err,
         rebuffer, rebuffered
<1>2. ASSUME NEW return \in {"shutdown", "adaptive", "done"}, pc \notin {"write", "rebuffer", "done"},
             EnterFlush(return) \/ FlushIfNonEmpty(return), UNCHANGED <<chan, durable>>
      PROVE  Enters \/ Waits
  BY <1>2 DEF EnterFlush, FlushIfNonEmpty, Enters, Waits
<1>3. CASE poll_shutdown \/ tick_pending
  BY <1>3 DEF poll_shutdown, tick_pending, Waits
<1>4. ASSUME NEW c \in Channels, poll_channel(c) PROVE Waits \/ Receives(c) \/ Enters
  <2>0. pc \notin {"write", "rebuffer", "done"} /\ durable' = durable
    BY <1>4 DEF poll_channel, Channels
  <2>1. CASE RecvSome(c)
    BY <2>0, <2>1 DEF RecvSome, Receives
  <2>2. CASE RecvNone(c)
    BY <1>2, <2>0, <2>2 DEF RecvNone, Waits
  <2>3. CASE pc' = NextPoll(c) /\ UNCHANGED <<handleVars, open, drains, after, flushVars>>
    BY <2>0, <2>3 DEF NextPoll, Waits
  <2> QED BY <1>4, <2>1, <2>2, <2>3 DEF poll_channel
<1>5. CASE tick_fires
  BY <1>2, <1>5 DEF tick_fires
<1>6. CASE drain_channel
  <2>1. Head(drains) \in Channels
    BY <1>6 DEF drain_channel, TypeOK
  <2>2. CASE chan[Head(drains)] # <<>>
    <3>1. Receives(Head(drains))
      BY <1>6, <2>2 DEF drain_channel, Receives
    <3> QED BY <2>1, <3>1, <1>1
  <2>3. CASE chan[Head(drains)] = <<>>
    BY <1>1, <1>6, <2>3 DEF drain_channel, Waits
  <2> QED BY <2>2, <2>3
<1>7. CASE drained
  BY <1>2, <1>7 DEF drained, Waits, TypeOK
<1>8. CASE adaptive_flush
  BY <1>2, <1>8 DEF adaptive_flush, Waits
<1>9. CASE write_batch_err
  BY <1>9 DEF write_batch_err, Fails
<1>10. CASE write_batch_ok \/ rebuffered
  BY <1>10 DEF write_batch_ok, rebuffered, Returns, TypeOK
<1> QED BY <1>1, <1>3, <1>4, <1>5, <1>6, <1>7, <1>8, <1>9, <1>10 DEF FlushLoop, Channels

\* p numbers an event of kind k for channel c, as a record or as one of the session's two.
Numbers(p, c, k) ==
    /\ next_seq(p, c, k) /\ (c = "critical" => k # "Diagnostic")
    /\ \/ records < MaxRecords /\ records' = records + 1 /\ Announced' = Announced
       \/ records' = records /\ Announced' = Announced + 1

\* Every step of the session and of a writer numbers an event, sends one, or does neither.
LEMMA WriterCases ==
    ASSUME TypeOK, \/ SessionStep \/ (\E p \in Procs : BeginRecord(p) \/ Send(p))
                   \/ (\E w \in Writers : TaskEnds(w)) \/ UNCHANGED vars
    PROVE  /\ UNCHANGED <<pc, batch, redacted, cursor, durable>>
           /\ \/ UNCHANGED <<seq, pending, chan, sent, records>> /\ Announced' = Announced
              \/ \E p \in Procs, c \in Channels, k \in Kinds : Numbers(p, c, k)
              \/ \E p \in Procs : Send(p)
<1> USE DEF sessionVars, loopVars, flushVars, storeVars, handleVars
<1>0. Session \in Procs /\ "critical" \in Channels /\ "advisory" \in Channels
      /\ "RunStarted" \in Kinds /\ "RunCompleted" \in Kinds /\ "Record" \in Kinds /\ "Diagnostic" \in Kinds
  BY DEF Procs, Channels, Kinds
<1>1. CASE start
  <2>1. Numbers(Session, "critical", "RunStarted")
    BY <1>1 DEF start, Announce, Numbers, Announced
  <2> QED BY <1>0, <1>1, <2>1 DEF start, Announce
<1>2. CASE finish
  <2>1. Numbers(Session, "critical", "RunCompleted")
    BY <1>2 DEF finish, Announce, Numbers, Announced
  <2> QED BY <1>0, <1>2, <2>1 DEF finish, Announce
<1>3. CASE drop
  <2>1. Numbers(Session, "advisory", "RunCompleted")
    BY <1>3 DEF drop, Announce, Numbers, Announced
  <2> QED BY <1>0, <1>3, <2>1 DEF drop, Announce
<1>4. CASE start_returns \/ SignalShutdown \/ finish_returns \/ DropWriteHandle \/ DropPipelineHandle
  BY <1>4 DEF start_returns, SignalShutdown, finish_returns, DropWriteHandle, DropPipelineHandle, Announced
<1>5. ASSUME NEW p \in Procs, BeginRecord(p)
      PROVE  /\ UNCHANGED <<pc, batch, redacted, cursor, durable>>
             /\ Numbers(p, "critical", "Record") \/ Numbers(p, "advisory", "Diagnostic")
  BY <1>5 DEF BeginRecord, Numbers, Announced
<1>6. ASSUME NEW p \in Procs, Send(p) PROVE UNCHANGED <<pc, batch, redacted, cursor, durable>>
  BY <1>6, SendCases
<1>7. ASSUME NEW w \in Writers, TaskEnds(w)
      PROVE  UNCHANGED <<pc, batch, redacted, cursor, durable, seq, pending, chan, sent, records>> /\ Announced' = Announced
  BY <1>7 DEF TaskEnds, Announced
<1>8. CASE UNCHANGED vars
  BY <1>8 DEF vars, Announced
<1> QED BY <1>0, <1>1, <1>2, <1>3, <1>4, <1>5, <1>6, <1>7, <1>8 DEF SessionStep

\* Which of the two it is.
LEMMA NextCases ==
    ASSUME [Next]_vars
    PROVE  \/ FlushLoop \/ SessionStep \/ (\E p \in Procs : BeginRecord(p) \/ Send(p))
           \/ (\E w \in Writers : TaskEnds(w)) \/ UNCHANGED vars
BY DEF Next, Terminated

\* A send that is accepted adds the event in hand to the channel and to its log.
LEMMA AcceptFacts ==
    ASSUME TypeOK, NEW p \in Procs, NEW c \in Channels, pending[p].chan = c, Enqueue(p, c)
    PROVE  /\ pending[p].ev \in Event /\ chan[c] \in Seq(Event) /\ sent[c] \in Seq(Event)
           /\ chan'[c] = Append(chan[c], pending[p].ev) /\ sent'[c] = Append(sent[c], pending[p].ev)
           /\ \A d \in Channels : d # c => chan'[d] = chan[d] /\ sent'[d] = sent[d]
           /\ Range(sent'[c]) = Range(sent[c]) \cup {pending[p].ev}
           /\ Range(chan'[c]) = Range(chan[c]) \cup {pending[p].ev}
           /\ Accepted' = Accepted \cup {pending[p].ev}
<1>1. pending[p].ev \in Event /\ chan[c] \in Seq(Event) /\ sent[c] \in Seq(Event)
  BY DEF TypeOK, Ops, Idle, Channels
<1>2. /\ chan'[c] = Append(chan[c], pending[p].ev) /\ sent'[c] = Append(sent[c], pending[p].ev)
      /\ \A d \in Channels : d # c => chan'[d] = chan[d] /\ sent'[d] = sent[d]
  BY DEF Enqueue, TypeOK
<1>3. /\ Range(sent'[c]) = Range(sent[c]) \cup {pending[p].ev}
      /\ Range(chan'[c]) = Range(chan[c]) \cup {pending[p].ev}
  BY <1>1, <1>2, RangeAppend
<1>4. Accepted' = Accepted \cup {pending[p].ev}
  <2>1. CASE c = "critical"
    BY <1>2, <1>3, <2>1 DEF Accepted, Channels
  <2>2. CASE c = "advisory"
    BY <1>2, <1>3, <2>2 DEF Accepted, Channels
  <2> QED BY <2>1, <2>2 DEF Channels
<1> QED BY <1>1, <1>2, <1>3, <1>4

\* A send gives out no number.
LEMMA SendNumbers ==
    ASSUME TypeOK, NEW p \in Procs, Send(p)
    PROVE  /\ UNCHANGED <<seq, records>> /\ Announced' = Announced /\ ~IsIdle(p)
           /\ IsIdle(p)' /\ \A q \in Procs : q # p => pending'[q] = pending[q]
<1>1. UNCHANGED <<seq, records, session>>
  BY DEF Send, SendCritical, SendAdvisory, Discard, Enqueue, sessionVars
<1>2. pending[p].chan # "none" /\ pending' = [pending EXCEPT ![p] = Idle]
  BY SendCases
<1> QED BY <1>1, <1>2 DEF Announced, IsIdle, Idle, TypeOK

\* Every step keeps the counter within what was written (WriteHandle::next_seq).
LEMMA NextCounted ==
    ASSUME TypeOK, Counted, [Next]_vars
    PROVE  Counted'
<1>0. Announced \in Nat /\ Announced' \in Nat /\ seq \in Nat /\ records \in Nat
  BY DEF Announced, TypeOK
<1>1. CASE UNCHANGED <<seq, records>> /\ Announced' = Announced
  BY <1>1 DEF Counted
<1>2. ASSUME NEW p \in Procs, NEW c \in Channels, NEW k \in Kinds, Numbers(p, c, k) PROVE Counted'
  <2>1. seq' = seq + 1
    BY <1>2 DEF Numbers, next_seq
  <2>2. CASE records < MaxRecords /\ records' = records + 1 /\ Announced' = Announced
    BY <1>0, <2>1, <2>2, BoundAssumption DEF Counted
  <2>3. CASE records' = records /\ Announced' = Announced + 1
    BY <1>0, <2>1, <2>3, BoundAssumption DEF Counted
  <2> QED BY <1>2, <2>2, <2>3 DEF Numbers
<1>3. CASE FlushLoop
  <2>1. UNCHANGED <<seq, records>> /\ Announced' = Announced
    BY <1>3, LoopCases DEF Announced
  <2> QED BY <1>1, <2>1
<1>4. ASSUME NEW p \in Procs, Send(p) PROVE Counted'
  BY <1>1, <1>4, SendNumbers
<1> QED BY <1>1, <1>2, <1>3, <1>4, NextCases, WriterCases

\* Every step keeps Numbered: fetch_add hands each number to one holder, and a send passes the
\* event on with its number.
LEMMA NextNumbered ==
    ASSUME TypeOK, Counted, Numbered, [Next]_vars
    PROVE  Numbered'
<1>0. seq \in Nat /\ seq >= 1
  BY DEF TypeOK, Counted
<1>1. CASE UNCHANGED <<seq, pending, sent>>
  <2>1. Accepted' = Accepted /\ \A p \in Procs : IsIdle(p)' = IsIdle(p)
    BY <1>1 DEF Accepted, IsIdle
  <2> QED BY <1>1, <2>1 DEF Numbered, is_critical, IsIdle
<1>2. ASSUME NEW p \in Procs, NEW c \in Channels, NEW k \in Kinds, Numbers(p, c, k) PROVE Numbered'
  <2>1. /\ seq' = seq + 1 /\ sent' = sent
        /\ pending'[p] = [chan |-> c, ev |-> [seq |-> seq, kind |-> k]]
        /\ \A q \in Procs : q # p => pending'[q] = pending[q]
    BY <1>2 DEF Numbers, next_seq, TypeOK
  <2>2. /\ pending'[p].chan = c /\ pending'[p].ev.seq = seq
        /\ (c = "critical" => pending'[p].ev.kind # "Diagnostic")
    BY <1>2, <2>1 DEF Numbers
  <2>3. Accepted' = Accepted /\ \A ev \in Accepted : ev.seq \in 1..(seq' - 1) /\ ev.seq # seq
    BY <1>0, <2>1 DEF Accepted, Numbered
  <2>4. \A q \in Procs : (q # p /\ ~IsIdle(q)) => pending[q].ev.seq \in 1..(seq' - 1) /\ pending[q].ev.seq # seq
    BY <1>0, <2>1 DEF Numbered
  <2>5. seq \in 1..(seq' - 1)
    BY <1>0, <2>1
  <2>6. ASSUME NEW q \in Procs, ~IsIdle(q)'
        PROVE  /\ pending'[q].ev.seq \in 1..(seq' - 1)
               /\ \A ev \in Accepted' : ev.seq # pending'[q].ev.seq
               /\ \A r \in Procs : (r # q /\ ~IsIdle(r)') => pending'[r].ev.seq # pending'[q].ev.seq
               /\ pending'[q].chan = "critical" => is_critical(pending'[q].ev)
    <3>1. CASE q = p
      <4>1. \A r \in Procs : (r # p /\ ~IsIdle(r)') => pending'[r].ev.seq # seq
        BY <2>1, <2>4 DEF IsIdle
      <4> QED BY <2>2, <2>3, <2>5, <3>1, <4>1 DEF is_critical
    <3>2. CASE q # p
      <4>1. pending'[q] = pending[q] /\ ~IsIdle(q)
        BY <2>1, <2>6, <3>2 DEF IsIdle
      <4>2. ASSUME NEW r \in Procs, r # q, ~IsIdle(r)' PROVE pending'[r].ev.seq # pending'[q].ev.seq
        <5>1. CASE r = p
          BY <2>2, <2>4, <3>2, <4>1, <5>1
        <5>2. CASE r # p
          BY <2>1, <4>1, <4>2, <5>2 DEF IsIdle, Numbered
        <5> QED BY <5>1, <5>2
      <4> QED BY <2>3, <2>4, <3>2, <4>1, <4>2 DEF Numbered
    <3> QED BY <3>1, <3>2
  <2> QED BY <2>3, <2>6 DEF Numbered, is_critical
<1>3. ASSUME NEW p \in Procs, Send(p) PROVE Numbered'
  <2>1. /\ seq' = seq /\ ~IsIdle(p) /\ IsIdle(p)' /\ \A q \in Procs : q # p => pending'[q] = pending[q]
    BY <1>3, SendNumbers
  <2>2. Accepted' \subseteq Accepted \cup {pending[p].ev}
    <3>1. CASE UNCHANGED sent
      BY <3>1 DEF Accepted
    <3>2. ASSUME NEW c \in Channels, pending[p].chan = c, Enqueue(p, c) PROVE Accepted' \subseteq Accepted \cup {pending[p].ev}
      BY <3>2, AcceptFacts
    <3> QED BY <1>3, <3>1, <3>2, SendCases
  <2>3. \A q \in Procs : ~IsIdle(q)' => q # p /\ pending'[q] = pending[q] /\ ~IsIdle(q)
    BY <2>1 DEF IsIdle
  <2>4. \A ev \in Accepted' : ev.seq \in 1..(seq - 1)
    BY <2>1, <2>2 DEF Numbered
  <2>5. ASSUME NEW q \in Procs, ~IsIdle(q)'
        PROVE  /\ pending'[q].ev.seq \in 1..(seq' - 1)
               /\ \A ev \in Accepted' : ev.seq # pending'[q].ev.seq
               /\ \A r \in Procs : (r # q /\ ~IsIdle(r)') => pending'[r].ev.seq # pending'[q].ev.seq
               /\ pending'[q].chan = "critical" => is_critical(pending'[q].ev)
    <3>1. q # p /\ pending'[q] = pending[q] /\ ~IsIdle(q) /\ ~IsIdle(p)
      BY <2>1, <2>3, <2>5
    <3>2. pending[p].ev.seq # pending[q].ev.seq /\ \A ev \in Accepted : ev.seq # pending[q].ev.seq
      BY <3>1 DEF Numbered
    <3>3. \A ev \in Accepted' : ev.seq # pending'[q].ev.seq
      BY <2>2, <3>1, <3>2
    <3>4. \A r \in Procs : (r # q /\ ~IsIdle(r)') => pending'[r].ev.seq # pending'[q].ev.seq
      BY <2>3, <3>1 DEF Numbered
    <3> QED BY <2>1, <3>1, <3>3, <3>4 DEF Numbered
  <2> QED BY <2>1, <2>4, <2>5 DEF Numbered, is_critical
<1>4. CASE FlushLoop
  BY <1>1, <1>4, LoopCases
<1> QED BY <1>1, <1>2, <1>3, <1>4, NextCases, WriterCases

\* Every step is a step of the loop, an accepted send, or leaves the logs alone.
LEMMA LogCases ==
    ASSUME TypeOK, Numbered, [Next]_vars
    PROVE  \/ FlushLoop /\ UNCHANGED sent
           \/ UNCHANGED <<chan, sent, pc, batch, redacted, cursor, durable>>
           \/ \E p \in Procs, c \in Channels :
                  /\ pending[p].chan = c /\ pc # "done" /\ Enqueue(p, c)
                  /\ UNCHANGED <<pc, batch, redacted, cursor, durable>>
                  /\ pending[p].ev \notin Accepted
                  /\ c = "critical" => is_critical(pending[p].ev)
<1>1. CASE FlushLoop
  BY <1>1, LoopCases
<1>2. ASSUME NEW p \in Procs, Send(p), UNCHANGED <<pc, batch, redacted, cursor, durable>>
      PROVE  \/ UNCHANGED <<chan, sent, pc, batch, redacted, cursor, durable>>
             \/ \E c \in Channels :
                    /\ pending[p].chan = c /\ pc # "done" /\ Enqueue(p, c)
                    /\ UNCHANGED <<pc, batch, redacted, cursor, durable>>
                    /\ pending[p].ev \notin Accepted
                    /\ c = "critical" => is_critical(pending[p].ev)
  <2>1. ~IsIdle(p)
    BY <1>2, SendNumbers
  <2>2. pending[p].ev \notin Accepted /\ (pending[p].chan = "critical" => is_critical(pending[p].ev))
    BY <2>1 DEF Numbered
  <2> QED BY <1>2, <2>2, SendCases
<1>3. ASSUME NEW p \in Procs, NEW c \in Channels, NEW k \in Kinds, Numbers(p, c, k) PROVE UNCHANGED <<chan, sent>>
  BY <1>3 DEF Numbers, next_seq
<1> QED BY <1>1, <1>2, <1>3, NextCases, WriterCases

\* Every step keeps AcceptedOnce: a number is accepted once, by one of the two channels.
LEMMA NextAcceptedOnce ==
    ASSUME TypeOK, Numbered, AcceptedOnce, [Next]_vars
    PROVE  AcceptedOnce'
<1>1. CASE UNCHANGED sent
  BY <1>1 DEF AcceptedOnce, Critical, is_critical
<1>2. ASSUME NEW p \in Procs, NEW c \in Channels, pending[p].chan = c, Enqueue(p, c),
             pending[p].ev \notin Accepted, c = "critical" => is_critical(pending[p].ev)
      PROVE  AcceptedOnce'
  <2> DEFINE e == pending[p].ev
             s == sent["critical"]
  <2>1. /\ e \in Event /\ sent'[c] = Append(sent[c], e) /\ Range(sent'[c]) = Range(sent[c]) \cup {e}
        /\ \A d \in Channels : d # c => sent'[d] = sent[d]
    BY <1>2, AcceptFacts
  <2>2. s \in Seq(Event) /\ e \notin Range(s) /\ e \notin Range(sent["advisory"]) /\ \A a \in 1..Len(s) : s[a] # e
    BY <1>2 DEF Accepted, TypeOK, Channels, Range
  <2>3. /\ \A a, b \in 1..Len(s) : s[a] = s[b] => a = b
        /\ \A a \in 1..Len(s) : is_critical(s[a]) /\ s[a] \notin Range(sent["advisory"])
    BY DEF AcceptedOnce, Critical
  <2> HIDE DEF e, s
  <2>4. CASE c = "critical"
    <3>1. sent'["critical"] = Append(s, e) /\ sent'["advisory"] = sent["advisory"] /\ is_critical(e)
      BY <1>2, <2>1, <2>4 DEF e, s, Channels
    <3>2. /\ Len(Append(s, e)) = Len(s) + 1 /\ Len(s) \in Nat /\ Append(s, e)[Len(s) + 1] = e
          /\ \A a \in 1..Len(s) : Append(s, e)[a] = s[a]
          /\ \A a \in 1..(Len(s) + 1) : a \in 1..Len(s) \/ a = Len(s) + 1
      BY <2>1, <2>2
    <3>3. \A a, b \in 1..(Len(s) + 1) : Append(s, e)[a] = Append(s, e)[b] => a = b
      BY <2>2, <2>3, <3>2
    <3>4. \A a \in 1..(Len(s) + 1) : is_critical(Append(s, e)[a]) /\ Append(s, e)[a] \notin Range(sent["advisory"])
      BY <2>2, <2>3, <3>1, <3>2
    <3> QED BY <3>1, <3>2, <3>3, <3>4 DEF AcceptedOnce, Critical, is_critical
  <2>5. CASE c = "advisory"
    <3>1. sent'["critical"] = s /\ Range(sent'["advisory"]) = Range(sent["advisory"]) \cup {e}
      BY <2>1, <2>5 DEF s, Channels
    <3> QED BY <2>2, <2>3, <3>1 DEF AcceptedOnce, Critical, is_critical
  <2> QED BY <2>4, <2>5 DEF Channels
<1> QED BY <1>1, <1>2, LogCases

\* Only a receive brings the loop something it did not hold.
LEMMA TakenBounded ==
    ASSUME TypeOK, Waits \/ Enters \/ Fails \/ Returns \/ insert_event \/ rebuffer
    PROVE  chan' = chan /\ Taken' \subseteq Taken
<1>1. CASE Waits \/ Fails
  BY <1>1 DEF Waits, Fails, Taken
<1>2. CASE Enters
  BY <1>2, RangeEmpty DEF Enters, Taken
<1>3. CASE Returns
  BY <1>3, RangeEmpty DEF Returns, Taken
<1>4. CASE insert_event \/ rebuffer
  <2>1. cursor \in 1..Len(redacted) /\ chan' = chan /\ redacted' = redacted
    BY <1>4 DEF insert_event, rebuffer, handleVars, TypeOK
  <2>2. redacted[cursor] \in Event /\ redacted[cursor] \in Range(redacted)
        /\ batch \in Seq(Event) /\ durable \in Seq(Event)
    BY <2>1 DEF TypeOK, Range
  <2>3. Range(batch') \subseteq Range(batch) \cup {redacted[cursor]}
    <3>1. CASE batch' = batch
      BY <3>1
    <3>2. CASE batch' = Append(batch, redacted[cursor])
      BY <2>2, <3>2, RangeAppend
    <3> QED BY <1>4, <3>1, <3>2 DEF insert_event, rebuffer
  <2>4. Range(durable') \subseteq Range(durable) \cup {redacted[cursor]}
    <3>1. CASE durable' = durable
      BY <3>1
    <3>2. CASE durable' = Append(durable, redacted[cursor])
      BY <2>2, <3>2, RangeAppend
    <3> QED BY <1>4, <3>1, <3>2 DEF insert_event, rebuffer, storeVars
  <2> QED BY <2>1, <2>2, <2>3, <2>4 DEF Taken
<1> QED BY <1>1, <1>2, <1>3, <1>4

\* A receive takes the head of the channel.
LEMMA ReceiveFacts ==
    ASSUME TypeOK, NEW c \in Channels, Receives(c)
    PROVE  /\ chan[c] \in Seq(Event) /\ Head(chan[c]) \in Event /\ Head(chan[c]) = chan[c][1]
           /\ Len(chan[c]) \in Nat /\ Len(chan[c]) >= 1
           /\ chan'[c] = Tail(chan[c]) /\ Len(chan'[c]) = Len(chan[c]) - 1
           /\ \A i \in 1..(Len(chan[c]) - 1) : chan'[c][i] = chan[c][i + 1]
           /\ Head(chan[c]) \in Range(chan[c]) /\ Range(chan'[c]) \subseteq Range(chan[c])
           /\ \A d \in Channels : d # c => chan'[d] = chan[d]
           /\ batch \in Seq(Event) /\ batch' = Append(batch, Head(chan[c]))
           /\ Taken' = Taken \cup {Head(chan[c])}
<1>1. chan[c] \in Seq(Event) /\ chan[c] # <<>> /\ batch \in Seq(Event) /\ batch' = Append(batch, Head(chan[c]))
  BY DEF Receives, TypeOK
<1>2. /\ Head(chan[c]) \in Event /\ Head(chan[c]) = chan[c][1] /\ Len(chan[c]) \in Nat /\ Len(chan[c]) >= 1
      /\ Len(Tail(chan[c])) = Len(chan[c]) - 1
      /\ \A i \in 1..(Len(chan[c]) - 1) : Tail(chan[c])[i] = chan[c][i + 1]
  BY <1>1
<1>3. chan'[c] = Tail(chan[c]) /\ \A d \in Channels : d # c => chan'[d] = chan[d]
  BY DEF Receives, TypeOK
<1>4. Range(chan[c]) = {Head(chan[c])} \cup Range(Tail(chan[c]))
  BY <1>1, RangeTail
<1>5. Range(batch') = Range(batch) \cup {Head(chan[c])}
  BY <1>1, <1>2, RangeAppend
<1>6. Taken' = Taken \cup {Head(chan[c])}
  BY <1>5 DEF Receives, Taken
<1> QED BY <1>1, <1>2, <1>3, <1>4, <1>6

\* Every step keeps ChannelInOrder: the critical channel is first in, first out.
LEMMA NextChannelInOrder ==
    ASSUME TypeOK, Numbered, AcceptedOnce, ChannelInOrder, [Next]_vars
    PROVE  ChannelInOrder'
<1> DEFINE s == sent["critical"]
           t == chan["critical"]
<1>0. s \in Seq(Event) /\ t \in Seq(Event) /\ Len(s) \in Nat /\ Len(t) \in Nat
  BY DEF TypeOK, Channels
<1>1. /\ Len(s) - Len(t) >= 0
      /\ \A i \in 1..Len(t) : t[i] = s[Len(s) - Len(t) + i]
      /\ \A a \in 1..Len(s) : s[a] \in Taken => a <= Len(s) - Len(t)
      /\ Range(chan["advisory"]) \subseteq Range(sent["advisory"])
      /\ Taken \subseteq Accepted
  BY DEF ChannelInOrder, Received, Critical
<1>2. CASE UNCHANGED <<chan, sent>> /\ Taken' \subseteq Taken
  BY <1>2 DEF ChannelInOrder, Received, Critical, Accepted
<1>3. ASSUME NEW p \in Procs, pending[p].chan = "critical", Enqueue(p, "critical"),
             UNCHANGED <<batch, redacted, durable>>, pending[p].ev \notin Accepted
      PROVE  ChannelInOrder'
  <2> DEFINE e == pending[p].ev
  <2>1. /\ e \in Event /\ chan'["critical"] = Append(t, e) /\ sent'["critical"] = Append(s, e)
        /\ chan'["advisory"] = chan["advisory"] /\ sent'["advisory"] = sent["advisory"]
        /\ Accepted' = Accepted \cup {e}
    BY <1>3, AcceptFacts DEF Channels
  <2>2. Taken' = Taken /\ e \notin Taken
    BY <1>1, <1>3 DEF Taken
  <2> HIDE DEF e, s, t
  <2>3. /\ Len(Append(s, e)) = Len(s) + 1 /\ Len(Append(t, e)) = Len(t) + 1
        /\ Append(s, e)[Len(s) + 1] = e /\ \A a \in 1..Len(s) : Append(s, e)[a] = s[a]
        /\ Append(t, e)[Len(t) + 1] = e /\ \A i \in 1..Len(t) : Append(t, e)[i] = t[i]
    BY <1>0, <2>1
  <2>4. Received' = Len(s) - Len(t)
    BY <1>0, <2>1, <2>3 DEF Received, Critical
  <2>5. ASSUME NEW i \in 1..(Len(t) + 1) PROVE Append(t, e)[i] = Append(s, e)[(Len(s) - Len(t)) + i]
    <3>1. CASE i \in 1..Len(t)
      <4>1. (Len(s) - Len(t)) + i \in 1..Len(s)
        BY <1>0, <1>1, <3>1
      <4> QED BY <1>1, <2>3, <3>1, <4>1
    <3>2. CASE i = Len(t) + 1
      <4>1. (Len(s) - Len(t)) + i = Len(s) + 1
        BY <1>0, <3>2
      <4> QED BY <2>3, <3>2, <4>1
    <3>3. i \in 1..Len(t) \/ i = Len(t) + 1
      BY <1>0
    <3> QED BY <3>1, <3>2, <3>3
  <2>6. ASSUME NEW a \in 1..(Len(s) + 1), Append(s, e)[a] \in Taken PROVE a <= Len(s) - Len(t)
    <3>1. CASE a \in 1..Len(s)
      BY <1>1, <2>3, <2>6, <3>1
    <3>2. CASE a = Len(s) + 1
      BY <2>2, <2>3, <2>6, <3>2
    <3> QED BY <1>0, <3>1, <3>2
  <2>7. Received' >= 0
    BY <1>0, <1>1, <2>4
  <2>8. \A i \in 1..Len(chan'["critical"]) : chan'["critical"][i] = Critical'[Received' + i]
    BY <2>1, <2>3, <2>4, <2>5 DEF Critical
  <2>9. \A a \in 1..Len(Critical') : Critical'[a] \in Taken' => a <= Received'
    BY <2>1, <2>2, <2>3, <2>4, <2>6 DEF Critical
  <2> QED BY <1>1, <2>1, <2>2, <2>7, <2>8, <2>9 DEF ChannelInOrder
<1>4. ASSUME NEW p \in Procs, pending[p].chan = "advisory", Enqueue(p, "advisory"),
             UNCHANGED <<batch, redacted, durable>>
      PROVE  ChannelInOrder'
  <2>1. /\ chan'["critical"] = t /\ sent'["critical"] = s
        /\ Range(chan'["advisory"]) = Range(chan["advisory"]) \cup {pending[p].ev}
        /\ Range(sent'["advisory"]) = Range(sent["advisory"]) \cup {pending[p].ev}
        /\ Accepted' = Accepted \cup {pending[p].ev}
    BY <1>4, AcceptFacts DEF Channels
  <2>2. Taken' = Taken
    BY <1>4 DEF Taken
  <2> QED BY <1>1, <2>1, <2>2 DEF ChannelInOrder, Received, Critical
<1>5. ASSUME NEW c \in Channels, Receives(c), UNCHANGED sent PROVE ChannelInOrder'
  <2> DEFINE h == Head(chan[c])
  <2>1. /\ h = chan[c][1] /\ Len(chan[c]) >= 1
        /\ chan'[c] = Tail(chan[c]) /\ Len(chan'[c]) = Len(chan[c]) - 1
        /\ \A i \in 1..(Len(chan[c]) - 1) : chan'[c][i] = chan[c][i + 1]
        /\ h \in Range(chan[c]) /\ Range(chan'[c]) \subseteq Range(chan[c])
        /\ \A d \in Channels : d # c => chan'[d] = chan[d]
        /\ Taken' = Taken \cup {h}
    BY <1>5, ReceiveFacts
  <2>2. Accepted' = Accepted
    BY <1>5 DEF Accepted
  <2> HIDE DEF h
  <2>3. CASE c = "critical"
    <3> HIDE DEF s, t
    <3>1. /\ h = t[1] /\ Len(t) >= 1 /\ Len(chan'["critical"]) = Len(t) - 1
          /\ \A i \in 1..(Len(t) - 1) : chan'["critical"][i] = t[i + 1]
          /\ chan'["advisory"] = chan["advisory"] /\ sent' = sent
      BY <1>5, <2>1, <2>3 DEF t, Channels
    <3>2. Len(s) - Len(t) + 1 \in 1..Len(s) /\ h = s[Len(s) - Len(t) + 1] /\ Critical' = s /\ h \in Range(s)
      <4>1. Len(s) - Len(t) + 1 \in 1..Len(s) /\ h = s[Len(s) - Len(t) + 1]
        BY <1>0, <1>1, <3>1
      <4>2. h \in Range(s)
        BY <1>0, <4>1 DEF Range
      <4> QED BY <3>1, <4>1, <4>2 DEF Critical, s
    <3>3. Received' = Len(s) - Len(t) + 1
      BY <1>0, <3>1, <3>2 DEF Received, Critical
    <3>4. ASSUME NEW i \in 1..(Len(t) - 1) PROVE chan'["critical"][i] = s[(Len(s) - Len(t) + 1) + i]
      <4>1. i + 1 \in 1..Len(t) /\ Len(s) - Len(t) + (i + 1) = (Len(s) - Len(t) + 1) + i
        BY <1>0
      <4> QED BY <1>1, <3>1, <4>1
    <3>5. ASSUME NEW a \in 1..Len(s), s[a] \in Taken' PROVE a <= Len(s) - Len(t) + 1
      <4>1. CASE s[a] \in Taken
        BY <1>0, <1>1, <4>1
      <4>2. CASE s[a] = h
        <5>1. a = Len(s) - Len(t) + 1
          BY <3>2, <4>2 DEF AcceptedOnce, Critical, s
        <5> QED BY <1>0, <5>1
      <4> QED BY <2>1, <3>5, <4>1, <4>2
    <3>6. Taken' \subseteq Accepted'
      BY <1>1, <2>1, <2>2, <3>2 DEF Accepted, s
    <3>7. Received' >= 0
      BY <1>0, <1>1, <3>3
    <3> QED BY <1>1, <3>1, <3>2, <3>3, <3>4, <3>5, <3>6, <3>7 DEF ChannelInOrder
  <2>4. CASE c = "advisory"
    <3>1. chan'["critical"] = t /\ sent' = sent /\ Critical' = s /\ Received' = Len(s) - Len(t)
      BY <1>5, <2>1, <2>4 DEF Channels, Critical, Received
    <3>2. h \in Range(sent["advisory"]) /\ Range(chan'["advisory"]) \subseteq Range(sent'["advisory"])
      BY <1>1, <2>1, <2>4, <3>1
    <3>3. \A a \in 1..Len(s) : s[a] # h
      BY <3>2 DEF AcceptedOnce, Critical
    <3>4. Taken' \subseteq Accepted'
      BY <1>1, <2>1, <2>2, <3>2 DEF Accepted
    <3> HIDE DEF s, t
    <3> QED BY <1>1, <2>1, <3>1, <3>2, <3>3, <3>4 DEF ChannelInOrder
  <2> QED BY <2>3, <2>4 DEF Channels
<1>6. CASE UNCHANGED <<chan, sent, pc, batch, redacted, cursor, durable>>
  BY <1>2, <1>6 DEF Taken
<1>7. CASE FlushLoop /\ UNCHANGED sent
  BY <1>2, <1>5, <1>7, LoopCases, TakenBounded
<1> QED BY <1>3, <1>4, <1>6, <1>7, LogCases DEF Channels

\* Appending an event whose place in the log is after those of q keeps the order.
LEMMA InOrderAppend ==
    ASSUME NEW q \in Seq(Event), NEW e \in Event, InOrder(q),
           \A i \in 1..Len(q) : \A a, b \in 1..Len(Critical) :
               (q[i] = Critical[a] /\ e = Critical[b]) => a < b
    PROVE  InOrder(Append(q, e))
<1>1. /\ Len(Append(q, e)) = Len(q) + 1 /\ Len(q) \in Nat /\ Append(q, e)[Len(q) + 1] = e
      /\ \A i \in 1..Len(q) : Append(q, e)[i] = q[i]
  OBVIOUS
<1>2. \A i, j \in 1..(Len(q) + 1) : i < j => i \in 1..Len(q) /\ (j \in 1..Len(q) \/ j = Len(q) + 1)
  BY <1>1
<1> SUFFICES ASSUME NEW i \in 1..(Len(q) + 1), NEW j \in 1..(Len(q) + 1), i < j,
                    NEW a \in 1..Len(Critical), NEW b \in 1..Len(Critical),
                    Append(q, e)[i] = Critical[a], Append(q, e)[j] = Critical[b]
             PROVE  a < b
  <2> DEFINE m == Append(q, e)
  <2>1. Len(m) = Len(q) + 1
    BY <1>1
  <2> HIDE DEF m
  <2>2. (\A i, j \in 1..(Len(q) + 1) : \A a, b \in 1..Len(Critical) :
            (i < j /\ m[i] = Critical[a] /\ m[j] = Critical[b]) => a < b) => InOrder(m)
    BY <2>1 DEF InOrder
  <2> QED BY <2>2 DEF m
<1>3. i \in 1..Len(q) /\ (j \in 1..Len(q) \/ j = Len(q) + 1) /\ q[i] = Critical[a]
  BY <1>1, <1>2
<1>4. CASE j \in 1..Len(q)
  BY <1>1, <1>3, <1>4 DEF InOrder
<1>5. CASE j = Len(q) + 1
  BY <1>1, <1>3, <1>5
<1> QED BY <1>3, <1>4, <1>5

\* Where the critical events of a batch are in the log, as the log grows: nowhere new.
LEMMA OldPlaces ==
    ASSUME TypeOK, ChannelInOrder, AcceptedOnce,
           NEW p \in Procs, NEW c \in Channels, pending[p].chan = c, Enqueue(p, c),
           pending[p].ev \notin Accepted, NEW x \in Taken, NEW a \in 1..Len(Critical'), x = Critical'[a]
    PROVE  a \in 1..Len(Critical) /\ x = Critical[a]
<1>0. x \in Accepted /\ x # pending[p].ev
  BY DEF ChannelInOrder
<1>1. CASE c = "critical"
  <2>1. Critical' = Append(Critical, pending[p].ev) /\ Critical \in Seq(Event) /\ pending[p].ev \in Event
    BY <1>1, AcceptFacts DEF Critical
  <2>2. /\ Len(Critical') = Len(Critical) + 1 /\ Len(Critical) \in Nat
        /\ Critical'[Len(Critical) + 1] = pending[p].ev /\ \A i \in 1..Len(Critical) : Critical'[i] = Critical[i]
    BY <2>1
  <2>3. a \in 1..Len(Critical) \/ a = Len(Critical) + 1
    BY <2>2
  <2> QED BY <1>0, <2>2, <2>3
<1>2. CASE c = "advisory"
  <2>1. Critical' = Critical
    BY <1>2, AcceptFacts DEF Critical, Channels
  <2> QED BY <2>1
<1> QED BY <1>1, <1>2 DEF Channels

\* The events of a batch are among those the loop has taken.
LEMMA BatchTaken ==
    ASSUME TypeOK
    PROVE  /\ \A i \in 1..Len(batch) : batch[i] \in Taken
           /\ \A i \in 1..Len(redacted) : redacted[i] \in Taken
           /\ \A i \in 1..Len(durable) : durable[i] \in Taken
           /\ Range(durable) = {durable[i] : i \in 1..Len(durable)}
           /\ Range(redacted) = {redacted[i] : i \in 1..Len(redacted)}
<1>1. DOMAIN batch = 1..Len(batch) /\ DOMAIN redacted = 1..Len(redacted) /\ DOMAIN durable = 1..Len(durable)
  BY DEF TypeOK
<1> QED BY <1>1 DEF Taken, Range

\* Every step keeps BatchesInOrder: a received event is later in the log than everything in the
\* batch, and re-buffering goes through the refused batch from its front.
LEMMA NextBatchesInOrder ==
    ASSUME TypeOK, FlushProgress, Numbered, AcceptedOnce, ChannelInOrder, BatchesInOrder, [Next]_vars
    PROVE  BatchesInOrder'
<1>0. batch \in Seq(Event) /\ redacted \in Seq(Event) /\ Critical \in Seq(Event) /\ cursor \in Nat
  BY DEF TypeOK, Critical, Channels
<1>1. CASE UNCHANGED <<sent, pc, batch, redacted, cursor>>
  <2>1. Critical' = Critical
    BY <1>1 DEF Critical
  <2>2. (InOrder(batch))' /\ (InOrder(redacted))'
    BY <1>1, <2>1 DEF BatchesInOrder, InOrder
  <2> QED BY <1>1, <2>1, <2>2 DEF BatchesInOrder
<1>2. ASSUME NEW p \in Procs, NEW c \in Channels, pending[p].chan = c, Enqueue(p, c),
             UNCHANGED <<pc, batch, redacted, cursor, durable>>, pending[p].ev \notin Accepted
      PROVE  BatchesInOrder'
  <2>1. \A i \in 1..Len(batch), a \in 1..Len(Critical') :
            batch[i] = Critical'[a] => a \in 1..Len(Critical) /\ batch[i] = Critical[a]
    BY <1>2, OldPlaces, BatchTaken
  <2>2. \A i \in 1..Len(redacted), a \in 1..Len(Critical') :
            redacted[i] = Critical'[a] => a \in 1..Len(Critical) /\ redacted[i] = Critical[a]
    BY <1>2, OldPlaces, BatchTaken
  <2>3. /\ \A i, j \in 1..Len(batch) : \A a, b \in 1..Len(Critical') :
               (i < j /\ batch[i] = Critical'[a] /\ batch[j] = Critical'[b]) => a < b
        /\ \A i, j \in 1..Len(redacted) : \A a, b \in 1..Len(Critical') :
               (i < j /\ redacted[i] = Critical'[a] /\ redacted[j] = Critical'[b]) => a < b
    BY <2>1, <2>2 DEF BatchesInOrder, InOrder
  <2>4. pc = "rebuffer" =>
           \A i \in 1..Len(batch), j \in 1..Len(redacted) : \A a, b \in 1..Len(Critical') :
               (j >= cursor /\ batch[i] = Critical'[a] /\ redacted[j] = Critical'[b]) => a < b
    BY <2>1, <2>2 DEF BatchesInOrder
  <2> QED BY <1>2, <2>3, <2>4 DEF BatchesInOrder, InOrder
<1>3. CASE UNCHANGED sent /\ Waits
  BY <1>3 DEF Waits, BatchesInOrder, InOrder, Critical
<1>4. CASE UNCHANGED sent /\ Enters
  <2>1. Critical' = Critical /\ redacted' = batch /\ batch' = <<>> /\ pc' = "write"
    BY <1>4 DEF Enters, Critical
  <2> QED BY <2>1 DEF BatchesInOrder, InOrder
<1>5. CASE UNCHANGED sent /\ Fails
  <2>1. Critical' = Critical /\ UNCHANGED <<batch, redacted>> /\ batch = <<>>
    BY <1>5 DEF Fails, Critical, BatchesInOrder
  <2> QED BY <2>1 DEF BatchesInOrder, InOrder
<1>6. CASE UNCHANGED sent /\ Returns
  <2>1. Critical' = Critical /\ batch' = batch /\ redacted' = <<>> /\ pc' \notin {"write", "rebuffer"}
    BY <1>6 DEF Returns, Critical
  <2> QED BY <2>1 DEF BatchesInOrder, InOrder
<1>7. CASE UNCHANGED sent /\ insert_event
  BY <1>7 DEF insert_event, loopVars, BatchesInOrder, InOrder, Critical
<1>8. ASSUME UNCHANGED sent, NEW c \in Channels, Receives(c) PROVE BatchesInOrder'
  <2> DEFINE h == Head(chan[c])
  <2>1. /\ batch' = Append(batch, h) /\ h \in Event /\ h = chan[c][1] /\ 1 \in 1..Len(chan[c]) /\ h \in Range(chan[c])
    BY <1>8, ReceiveFacts
  <2>2. redacted' = redacted /\ pc' = "drain" /\ Critical' = Critical
    BY <1>8 DEF Receives, Critical
  <2> HIDE DEF h
  <2>3. ASSUME NEW i \in 1..Len(batch), NEW a \in 1..Len(Critical), NEW b \in 1..Len(Critical),
               batch[i] = Critical[a], h = Critical[b]
        PROVE  a < b
    <3>1. a <= Received
      BY <2>3, BatchTaken DEF ChannelInOrder
    <3>2. c = "critical"
      BY <2>1, <2>3 DEF ChannelInOrder, AcceptedOnce, Channels
    <3>3. Received \in Int /\ Received + 1 \in 1..Len(Critical) /\ h = Critical[Received + 1]
      <4>1. Len(chan["critical"]) \in Nat /\ Len(chan["critical"]) >= 1 /\ Len(Critical) \in Nat
        BY <1>0, <2>1, <3>2 DEF TypeOK
      <4>2. h = Critical[Received + 1]
        BY <2>1, <3>2 DEF ChannelInOrder
      <4> QED BY <4>1, <4>2 DEF Received, ChannelInOrder
    <3>4. b = Received + 1
      BY <2>3, <3>3 DEF AcceptedOnce
    <3> QED BY <3>1, <3>3, <3>4
  <2>4. InOrder(Append(batch, h))
    BY <1>0, <2>1, <2>3, InOrderAppend DEF BatchesInOrder
  <2>5. (InOrder(batch))'
    BY <2>1, <2>2, <2>4 DEF InOrder
  <2>6. InOrder(redacted) /\ (InOrder(redacted))'
    BY <2>2 DEF BatchesInOrder, InOrder
  <2> QED BY <2>2, <2>5, <2>6 DEF BatchesInOrder
<1>9. CASE UNCHANGED sent /\ rebuffer
  <2>1. /\ pc = "rebuffer" /\ pc' = pc /\ cursor \in 1..Len(redacted) /\ cursor' = cursor + 1
        /\ redacted' = redacted /\ Critical' = Critical
    BY <1>0, <1>9 DEF rebuffer, loopVars, Critical, TypeOK
  <2> DEFINE x == redacted[cursor]
  <2>2. x \in Event
    BY <1>0, <2>1
  <2>3. \A i \in 1..Len(batch) : \A a, b \in 1..Len(Critical) : (batch[i] = Critical[a] /\ x = Critical[b]) => a < b
    BY <1>0, <2>1 DEF BatchesInOrder
  <2>4. \A j \in 1..Len(redacted) : \A a, b \in 1..Len(Critical) :
            (j >= cursor + 1 /\ x = Critical[a] /\ redacted[j] = Critical[b]) => a < b
    BY <1>0, <2>1 DEF BatchesInOrder, InOrder
  <2>5. \A j \in 1..Len(redacted) : j >= cursor + 1 => j >= cursor
    BY <1>0
  <2> HIDE DEF x
  <2>6. CASE batch' = batch
    BY <2>1, <2>5, <2>6 DEF BatchesInOrder, InOrder
  <2>7. CASE batch' = Append(batch, x)
    <3>1. InOrder(Append(batch, x))
      BY <1>0, <2>2, <2>3, InOrderAppend DEF BatchesInOrder
    <3>2. /\ Len(Append(batch, x)) = Len(batch) + 1 /\ Append(batch, x)[Len(batch) + 1] = x
          /\ \A i \in 1..Len(batch) : Append(batch, x)[i] = batch[i]
          /\ \A i \in 1..(Len(batch) + 1) : i \in 1..Len(batch) \/ i = Len(batch) + 1
      BY <1>0, <2>2
    <3>3. \A i \in 1..(Len(batch) + 1), j \in 1..Len(redacted) : \A a, b \in 1..Len(Critical) :
               (j >= cursor + 1 /\ Append(batch, x)[i] = Critical[a] /\ redacted[j] = Critical[b]) => a < b
      BY <2>1, <2>4, <2>5, <3>2 DEF BatchesInOrder
    <3>4. (InOrder(batch))'
      BY <2>1, <2>7, <3>1 DEF InOrder
    <3>5. (InOrder(redacted))'
      BY <2>1 DEF BatchesInOrder, InOrder
    <3>6. \A i \in 1..Len(batch'), j \in 1..Len(redacted') : \A a, b \in 1..Len(Critical') :
              (j >= cursor' /\ batch'[i] = Critical'[a] /\ redacted'[j] = Critical'[b]) => a < b
      BY <2>1, <2>7, <3>2, <3>3
    <3> QED BY <2>1, <3>4, <3>5, <3>6 DEF BatchesInOrder
  <2> QED BY <1>9, <2>6, <2>7 DEF rebuffer, x
<1>10. CASE UNCHANGED <<chan, sent, pc, batch, redacted, cursor, durable>>
  BY <1>1, <1>10
<1>11. CASE FlushLoop /\ UNCHANGED sent
  BY <1>3, <1>4, <1>5, <1>6, <1>7, <1>8, <1>9, <1>11, LoopCases
<1> QED BY <1>2, <1>10, <1>11, LogCases

\* What is in the critical channel's part of the store, by place.
LEMMA DurableFacts ==
    ASSUME TypeOK
    PROVE  /\ DurableCritical \in Seq(Event) /\ Len(DurableCritical) \in Nat
           /\ \A k \in 1..Len(DurableCritical) : DurableCritical[k] \in Range(durable)
           /\ \A x \in Range(durable) : x \in Range(Critical) => \E k \in 1..Len(DurableCritical) : DurableCritical[k] = x
<1> DEFINE R == Range(sent["critical"])
           P == Places(durable, R)
<1>0. durable \in Seq(Event) /\ DOMAIN durable = 1..Len(durable)
  BY DEF TypeOK
<1>1. /\ Cardinality(P) \in Nat
      /\ Selected(durable, R) \in Seq(Event) /\ Len(Selected(durable, R)) = Cardinality(P)
      /\ \A i \in P : /\ Cardinality(Smaller(P, i)) + 1 \in 1..Cardinality(P)
                      /\ Selected(durable, R)[Cardinality(Smaller(P, i)) + 1] = durable[i]
      /\ \A k \in 1..Cardinality(P) : \E i \in P : Selected(durable, R)[k] = durable[i]
  <2> HIDE DEF R
  <2> QED BY <1>0, SelectFacts
<1>2. \A i \in P : i \in DOMAIN durable
  BY <1>0 DEF Places
<1>3. \A x \in Range(durable) : x \in R => \E i \in P : x = durable[i]
  BY <1>0 DEF Places, Range
<1> HIDE DEF P, R
<1>4. \A k \in 1..Cardinality(P) : Selected(durable, R)[k] \in Range(durable)
  BY <1>1, <1>2 DEF Range
<1>5. \A x \in Range(durable) : x \in R => \E k \in 1..Cardinality(P) : Selected(durable, R)[k] = x
  BY <1>1, <1>3
<1> QED BY <1>1, <1>4, <1>5 DEF DurableCritical, Critical, R

\* A new event in the critical channel's log selects nothing new from the store.
LEMMA AcceptStores ==
    ASSUME TypeOK, ChannelInOrder, NEW p \in Procs, NEW c \in Channels, pending[p].chan = c, Enqueue(p, c),
           pending[p].ev \notin Accepted, durable' = durable
    PROVE  DurableCritical' = DurableCritical
<1> DEFINE R == Range(sent["critical"])
           T == Range(sent'["critical"])
<1>0. durable \in Seq(Event) /\ \A i \in 1..Len(durable) : durable[i] \in Accepted
  BY BatchTaken DEF TypeOK, ChannelInOrder
<1>1. T = R \/ T = R \cup {pending[p].ev}
  BY AcceptFacts DEF Channels
<1> HIDE DEF R, T
<1>2. Places(durable, T) = Places(durable, R)
  BY <1>0, <1>1 DEF Places
<1>3. Selected(durable, T) = Selected(durable, R)
  BY <1>0, <1>2, SelectSame
<1>4. DurableCritical' = Selected(durable', T) /\ DurableCritical = Selected(durable, R)
  BY DEF DurableCritical, R, T
<1> QED BY <1>3, <1>4

\* An insert stores the next critical event of the log, or none: all that come before it in the
\* log have been received before it and so stand before it in the batch or in the store.
LEMMA InsertStores ==
    ASSUME TypeOK, Conservation, AcceptedOnce, ChannelInOrder, BatchesInOrder, StoredPrefix, insert_event
    PROVE  \/ DurableCritical' = DurableCritical
           \/ /\ Len(DurableCritical) < Len(Critical)
              /\ DurableCritical' = Append(DurableCritical, Critical[Len(DurableCritical) + 1])
<1> DEFINE x == redacted[cursor]
           R == Range(sent["critical"])
           D == DurableCritical
<1>0. /\ pc = "write" /\ cursor \in 1..Len(redacted) /\ UNCHANGED sent
      /\ durable \in Seq(Event) /\ redacted \in Seq(Event) /\ Critical \in Seq(Event) /\ DOMAIN Critical = 1..Len(Critical)
      /\ Critical = sent["critical"] /\ chan["critical"] \in Seq(Event)
  BY DEF insert_event, handleVars, TypeOK, Critical, Channels
<1>1. x \in Event /\ x \in Taken
  BY <1>0, BatchTaken
<1>2. D = Selected(durable, R) /\ D' = Selected(durable', R)
  BY <1>0 DEF DurableCritical
<1>3. durable' = IF x \in Range(durable) THEN durable ELSE Append(durable, x)
  BY DEF insert_event
<1> HIDE DEF x, R
<1>4. CASE x \in Range(durable)
  BY <1>2, <1>3, <1>4
<1>5. CASE x \notin Range(durable) /\ x \notin R
  <2>1. Selected(Append(durable, x), R) = Selected(durable, R)
    BY <1>0, <1>1, <1>5, SelectAppendOut
  <2> QED BY <1>2, <1>3, <1>5, <2>1
<1>6. CASE x \notin Range(durable) /\ x \in R
  <2>0. PICK b \in 1..Len(Critical) : x = Critical[b]
    BY <1>0, <1>6 DEF R, Range
  <2>1. Selected(Append(durable, x), R) = Append(Selected(durable, R), x)
    BY <1>0, <1>1, <1>6, SelectAppendIn
  <2>2. b <= Received
    BY <1>1, <2>0 DEF ChannelInOrder
  <2>3. ASSUME NEW a \in 1..Len(Critical), a < b PROVE Critical[a] \in Range(durable)
    <3>1. Critical[a] \in AcceptedCritical
      <4>1. Critical[a] \in Range(sent["critical"]) /\ is_critical(Critical[a])
        BY <1>0 DEF Range, AcceptedOnce
      <4> QED BY <4>1 DEF AcceptedCritical
    <3>2. Critical[a] \in Held
      BY <1>0, <3>1 DEF Conservation, CriticalConserved
    <3>3. Critical[a] \notin Range(chan["critical"])
      <4> SUFFICES ASSUME NEW i \in 1..Len(chan["critical"]), chan["critical"][i] = Critical[a] PROVE FALSE
        <5>1. DOMAIN chan["critical"] = 1..Len(chan["critical"])
          BY <1>0
        <5> QED BY <5>1 DEF Range
      <4>1. Received \in Int /\ Received >= 0 /\ Len(chan["critical"]) \in Nat /\ Len(Critical) \in Nat
        BY <1>0 DEF Received, ChannelInOrder
      <4>2. Received + i \in 1..Len(Critical)
        BY <4>1 DEF Received
      <4>3. Critical[Received + i] = Critical[a]
        BY DEF ChannelInOrder
      <4>4. Received + i = a
        BY <4>2, <4>3 DEF AcceptedOnce
      <4> QED BY <2>2, <2>3, <4>1, <4>4
    <3>4. Critical[a] \notin Range(chan["advisory"])
      BY DEF ChannelInOrder, AcceptedOnce
    <3>5. Range(batch) = {}
      BY <1>0, RangeEmpty DEF BatchesInOrder
    <3>6. CASE Critical[a] \in Range(redacted)
      <4>1. PICK j \in 1..Len(redacted) : redacted[j] = Critical[a]
        BY <3>6, BatchTaken
      <4>2. j # cursor
        <5> SUFFICES ASSUME j = cursor PROVE FALSE
          OBVIOUS
        <5>1. Critical[a] = Critical[b]
          BY <2>0, <4>1 DEF x
        <5>2. a = b
          BY <5>1 DEF AcceptedOnce
        <5> QED BY <2>3, <5>2
      <4>3. ~ cursor < j
        <5> SUFFICES ASSUME cursor < j PROVE FALSE
          OBVIOUS
        <5>1. redacted[cursor] = Critical[b] /\ redacted[j] = Critical[a]
          BY <2>0, <4>1 DEF x
        <5>2. b < a
          BY <1>0, <5>1 DEF BatchesInOrder, InOrder
        <5> QED BY <2>3, <5>2
      <4>4. j < cursor
        BY <1>0, <4>2, <4>3
      <4> QED BY <1>0, <4>1, <4>4 DEF Conservation, FlushProgress
    <3> QED BY <3>2, <3>3, <3>4, <3>5, <3>6 DEF Held
  <2>4. ASSUME NEW a \in 1..Len(Critical), a < b PROVE a \in 1..Len(D)
    <3>1. Critical[a] \in Range(Critical)
      BY <1>0 DEF Range
    <3>2. PICK k \in 1..Len(D) : D[k] = Critical[a]
      BY <2>3, <2>4, <3>1, DurableFacts
    <3>3. k \in 1..Len(Critical) /\ Critical[k] = Critical[a]
      <4>1. Len(D) \in Nat /\ Len(D) <= Len(Critical) /\ Len(Critical) \in Nat
        BY <1>0, DurableFacts DEF StoredPrefix
      <4>2. D[k] = Critical[k]
        BY <3>2 DEF StoredPrefix
      <4> QED BY <3>2, <4>1, <4>2
    <3>4. k = a
      BY <3>3 DEF AcceptedOnce
    <3> QED BY <3>4
  <2>5. b \notin 1..Len(D)
    <3> SUFFICES ASSUME b \in 1..Len(D) PROVE FALSE
      OBVIOUS
    <3>1. D[b] = x /\ D[b] \in Range(durable)
      BY <2>0, DurableFacts DEF StoredPrefix
    <3> QED BY <1>6, <3>1
  <2>6. b = Len(D) + 1 /\ Len(D) < Len(Critical)
    <3>1. Len(D) \in Nat /\ Len(Critical) \in Nat
      BY <1>0, DurableFacts
    <3>2. CASE b = 1
      BY <2>5, <3>1, <3>2
    <3>3. CASE b # 1
      <4>1. b - 1 \in 1..Len(Critical) /\ b - 1 < b
        BY <3>1, <3>3
      <4>2. b - 1 \in 1..Len(D)
        BY <2>4, <4>1
      <4> QED BY <2>5, <3>1, <4>2
    <3> QED BY <3>2, <3>3
  <2> QED BY <1>2, <1>3, <1>6, <2>0, <2>1, <2>6
<1> QED BY <1>4, <1>5, <1>6

\* A step as the store's critical part sees it: nothing, a new event in the log, or the next
\* event of the log stored; and the flush loop returns once, in a step that does neither.
LEMMA StoreCases ==
    ASSUME TypeOK, Conservation, LogInv, [Next]_vars
    PROVE  \/ UNCHANGED <<Critical, DurableCritical>> /\ (pc = "done" => pc' = "done")
           \/ /\ pc # "done" /\ pc' = pc /\ DurableCritical' = DurableCritical
              /\ \E p \in Procs : ~IsIdle(p) /\ pending[p].ev \in Event /\ Critical' = Append(Critical, pending[p].ev)
           \/ /\ pc # "done" /\ pc' = pc /\ Critical' = Critical
              /\ Len(DurableCritical) < Len(Critical)
              /\ DurableCritical' = Append(DurableCritical, Critical[Len(DurableCritical) + 1])
<1>0. Numbered /\ AcceptedOnce /\ ChannelInOrder /\ BatchesInOrder /\ StoredPrefix
  BY DEF LogInv
<1>1. CASE UNCHANGED <<sent, durable>> /\ (pc = "done" => pc' = "done")
  BY <1>1 DEF Critical, DurableCritical
<1>2. ASSUME NEW p \in Procs, NEW c \in Channels, pending[p].chan = c, pc # "done", Enqueue(p, c),
             pending[p].ev \notin Accepted, UNCHANGED <<pc, durable>>
      PROVE  \/ UNCHANGED <<Critical, DurableCritical>> /\ (pc = "done" => pc' = "done")
             \/ /\ pc # "done" /\ pc' = pc /\ DurableCritical' = DurableCritical
                /\ ~IsIdle(p) /\ pending[p].ev \in Event /\ Critical' = Append(Critical, pending[p].ev)
  <2>1. DurableCritical' = DurableCritical
    BY <1>0, <1>2, AcceptStores
  <2>2. ~IsIdle(p)
    BY <1>2 DEF IsIdle, Channels
  <2>3. CASE c = "critical"
    BY <1>2, <2>1, <2>2, <2>3, AcceptFacts DEF Critical
  <2>4. CASE c = "advisory"
    <3>1. Critical' = Critical
      BY <1>2, <2>4, AcceptFacts DEF Critical, Channels
    <3> QED BY <1>2, <2>1, <3>1
  <2> QED BY <2>3, <2>4 DEF Channels
<1>3. CASE UNCHANGED sent /\ insert_event
  <2>1. pc = "write" /\ pc' = pc /\ Critical' = Critical
    BY <1>3 DEF insert_event, loopVars, Critical
  <2> QED BY <1>0, <1>3, <2>1, InsertStores
<1>4. CASE FlushLoop /\ UNCHANGED sent /\ ~insert_event
  <2>1. durable' = durable /\ pc # "done"
    BY <1>4, LoopCases DEF Waits, Receives, Enters, Fails, Returns, rebuffer, storeVars
  <2> QED BY <1>1, <1>4, <2>1
<1>5. CASE UNCHANGED <<chan, sent, pc, batch, redacted, cursor, durable>>
  BY <1>1, <1>5
<1> QED BY <1>0, <1>2, <1>3, <1>4, <1>5, LogCases

\* Every step keeps the store's critical part a prefix of the log.
LEMMA NextStoredPrefix ==
    ASSUME TypeOK, Conservation, LogInv, [Next]_vars
    PROVE  StoredPrefix'
<1> DEFINE D == DurableCritical
           s == Critical
<1>0. /\ D \in Seq(Event) /\ s \in Seq(Event) /\ Len(D) \in Nat /\ Len(s) \in Nat
      /\ Len(D) <= Len(s) /\ \A k \in 1..Len(D) : D[k] = s[k]
  BY DurableFacts DEF TypeOK, Critical, Channels, LogInv, StoredPrefix
<1>1. CASE UNCHANGED <<Critical, DurableCritical>>
  BY <1>0, <1>1 DEF StoredPrefix
<1>2. ASSUME D' = D, NEW e \in Event, s' = Append(s, e) PROVE StoredPrefix'
  <2> HIDE DEF D, s
  <2>1. Len(Append(s, e)) = Len(s) + 1 /\ \A k \in 1..Len(s) : Append(s, e)[k] = s[k]
    BY <1>0
  <2>2. Len(D) <= Len(Append(s, e)) /\ \A k \in 1..Len(D) : D[k] = Append(s, e)[k]
    BY <1>0, <2>1
  <2> QED BY <1>2, <2>2 DEF StoredPrefix, D, s
<1>3. CASE s' = s /\ Len(D) < Len(s) /\ D' = Append(D, s[Len(D) + 1])
  <2> HIDE DEF D, s
  <2>1. s[Len(D) + 1] \in Event
    BY <1>0, <1>3
  <2>2. /\ Len(D') = Len(D) + 1 /\ D'[Len(D) + 1] = s[Len(D) + 1]
        /\ \A k \in 1..Len(D) : D'[k] = D[k]
    BY <1>0, <1>3, <2>1
  <2>3. \A k \in 1..(Len(D) + 1) : k \in 1..Len(D) \/ k = Len(D) + 1
    BY <1>0
  <2>4. Len(D') <= Len(s) /\ \A k \in 1..Len(D') : D'[k] = s[k]
    BY <1>0, <1>3, <2>2, <2>3
  <2> QED BY <1>3, <2>4 DEF StoredPrefix, D, s
<1> QED BY <1>1, <1>2, <1>3, StoreCases

\* The whole invariant is inductive.
LEMMA LogInvInductive ==
    /\ Init => LogInv
    /\ TypeOK /\ Conservation /\ LogInv /\ [Next]_vars => LogInv'
<1>1. ASSUME Init PROVE LogInv
  <2>1. /\ sent["critical"] = <<>> /\ sent["advisory"] = <<>> /\ chan["critical"] = <<>> /\ chan["advisory"] = <<>>
        /\ seq = 1 /\ records = 0 /\ session = "new" /\ pc = "shutdown"
        /\ batch = <<>> /\ redacted = <<>> /\ durable = <<>> /\ \A p \in Procs : IsIdle(p)
    BY <1>1 DEF Init, Channels, IsIdle, Idle
  <2>2. Accepted = {} /\ Taken = {} /\ Critical = <<>> /\ Received = 0
    BY <2>1, RangeEmpty DEF Accepted, Taken, Critical, Received
  <2>3. Counted
    BY <2>1, BoundAssumption DEF Counted, Announced
  <2>4. Numbered /\ AcceptedOnce
    BY <2>1, <2>2 DEF Numbered, AcceptedOnce
  <2>5. ChannelInOrder
    BY <2>1, <2>2, RangeEmpty DEF ChannelInOrder
  <2>6. BatchesInOrder
    BY <2>1 DEF BatchesInOrder, InOrder
  <2>7. StoredPrefix
    <3>1. TypeOK
      BY <1>1, InitTypeOK
    <3>2. Len(DurableCritical) \in Nat /\ \A k \in 1..Len(DurableCritical) : DurableCritical[k] \in Range(durable)
      BY <3>1, DurableFacts
    <3>3. Range(durable) = {}
      BY <2>1, RangeEmpty
    <3>4. Len(DurableCritical) = 0
      BY <3>2, <3>3
    <3> QED BY <2>2, <3>4 DEF StoredPrefix
  <2> QED BY <2>3, <2>4, <2>5, <2>6, <2>7 DEF LogInv
<1>2. ASSUME TypeOK, Conservation, LogInv, [Next]_vars PROVE LogInv'
  <2>1. Counted /\ Numbered /\ AcceptedOnce /\ ChannelInOrder /\ BatchesInOrder /\ FlushProgress
    BY <1>2 DEF LogInv, Conservation
  <2> QED BY <1>2, <2>1, NextCounted, NextNumbered, NextAcceptedOnce, NextChannelInOrder,
             NextBatchesInOrder, NextStoredPrefix DEF LogInv
<1> QED BY <1>1, <1>2

\* The write pipeline implements the abstract event log, whatever the writers, the batches, the
\* failures and the shutdown: critical events become durable one by one in the order in which
\* the channel accepted them, each once, and nothing is stored after the flush loop has returned.
THEOREM PipelineImplementsLog == Spec => ImplementsEventLog
<1>1. Init => Log!Init
  <2> SUFFICES ASSUME Init PROVE Log!Init
    OBVIOUS
  <2>1. StoredPrefix /\ Critical = <<>> /\ pc # "done"
    BY LogInvInductive DEF LogInv, Init, Critical, Channels
  <2>2. DurableCritical \in Seq(Event) /\ Len(DurableCritical) = 0
    BY <2>1, InitTypeOK, DurableFacts DEF StoredPrefix
  <2>3. DurableCritical = <<>>
    BY <2>2
  <2> QED BY <2>1, <2>3 DEF Log!Init, Critical
<1>2. TypeOK /\ Conservation /\ LogInv /\ [Next]_vars
        => [Log!Next]_<<sent["critical"], DurableCritical, pc = "done">>
  <2> SUFFICES ASSUME TypeOK, Conservation, LogInv, [Next]_vars
               PROVE  Log!Next \/ UNCHANGED <<sent["critical"], DurableCritical, pc = "done">>
    OBVIOUS
  <2>1. CASE UNCHANGED <<Critical, DurableCritical>> /\ (pc = "done" => pc' = "done")
    <3>1. CASE pc # "done" /\ pc' = "done"
      <4>1. Log!Close
        BY <2>1, <3>1 DEF Log!Close, Critical
      <4> QED BY <3>1, <4>1 DEF Log!Next
    <3>2. CASE (pc = "done") <=> (pc' = "done")
      BY <2>1, <3>2 DEF Critical
    <3> QED BY <2>1, <3>1, <3>2
  <2>2. ASSUME pc # "done", pc' = pc, DurableCritical' = DurableCritical,
               NEW p \in Procs, ~IsIdle(p), pending[p].ev \in Event, Critical' = Append(Critical, pending[p].ev)
        PROVE  Log!Next
    <3>1. pending[p].ev.seq \in 1..(seq - 1)
      BY <2>2 DEF LogInv, Numbered
    <3>2. seq \in Nat /\ records \in Nat /\ MaxRecords \in Nat /\ records <= MaxRecords /\ seq <= records + 3
      BY BoundAssumption DEF TypeOK, LogInv, Counted, Announced
    <3>3. pending[p].ev.seq \in 1..(MaxRecords + 2)
      BY <3>1, <3>2
    <3>4. pending[p].ev \in BoundedEvent
      BY <2>2, <3>3 DEF BoundedEvent, Event
    <3>5. Log!Append1(pending[p].ev)
      BY <2>2 DEF Log!Append1, Critical
    <3> QED BY <2>2, <3>4, <3>5 DEF Log!Next
  <2>3. CASE /\ pc # "done" /\ pc' = pc /\ Critical' = Critical
             /\ Len(DurableCritical) < Len(Critical)
             /\ DurableCritical' = Append(DurableCritical, Critical[Len(DurableCritical) + 1])
    <3>1. Log!Store1
      BY <2>3 DEF Log!Store1, Critical
    <3> QED BY <2>3, <3>1 DEF Log!Next
  <2> QED BY <2>1, <2>2, <2>3, StoreCases
<1>3. Init => Conservation
  BY RangeEmpty DEF Init, Conservation, FlushProgress, CriticalConserved, AcceptedCritical, Channels
<1> QED BY <1>1, <1>2, <1>3, LogInvInductive, TypeCorrect, NextConservation, PTL DEF Spec, ImplementsEventLog, Log!Spec
=============================================================================
