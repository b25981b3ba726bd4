---------------------------- MODULE TriggersProofs ----------------------------
(***************************************************************************)
(* HeadResolves of FlowVersioning, and StartsOnce, for every number of cron *)
(* triggers, graphs, clients, events and runs and every capacity of the     *)
(* channels.                                                                *)
(*                                                                          *)
(* A completed run of Main is a token that the flow trigger passes on: it   *)
(* is in the broadcast, in the event the flow trigger is sending, in the    *)
(* event channel, in the event being dispatched or in the run it started,   *)
(* and never in two of these places.  The key of a cron event is in         *)
(* seen_keys from the moment it is dispatched.                              *)
(***************************************************************************)
EXTENDS Triggers, TLAPS

-----------------------------------------------------------------------------
(* The head of a flow.  HeadResolves alone is not inductive: put_head       *)
(* writes whatever graph the call carries.  What makes it safe is that a    *)
(* call which has come as far as put_head has stored its graph, and that    *)
(* versions are never removed.                                              *)

\* Shape of the state, as far as the argument needs it.
SaverShape ==
    saver \in [Clients -> [pc : {"idle", "get_version", "put_version", "put_head"},
                           graph : Graphs \cup {NoVersion}]]

\* A call that is about to move the head has stored the version.
StoredFirst == \A c \in Clients : saver[c].pc = "put_head" => saver[c].graph \in versions

StoreInv == SaverShape /\ StoredFirst /\ HeadResolves

\* No client has a call in progress initially and there is no head (StoreInit).
LEMMA InitStoreInv == StoreInit => StoreInv
  BY DEF StoreInit, StoreInv, SaverShape, StoredFirst, HeadResolves, NoSave

\* Every step of save, the failing and abandoned ones included, keeps the invariant.
LEMMA SaveKeepsStoreInv ==
  ASSUME StoreInv, NEW c \in Clients, SaveStep(c)
  PROVE  StoreInv'
<1> USE DEF StoreInv, SaverShape, StoredFirst, HeadResolves, Saving, Return, NoSave
<1>1. ASSUME NEW g \in Graphs, save(c, g) PROVE StoreInv'
  BY <1>1 DEF save
<1>2. CASE get_version(c)
  BY <1>2 DEF get_version
<1>3. CASE put_version(c)
  BY <1>3 DEF put_version
<1>4. CASE put_head(c)
  BY <1>4 DEF put_head
<1>5. CASE save_fails(c)
  BY <1>5 DEF save_fails
<1> QED
  BY <1>1, <1>2, <1>3, <1>4, <1>5 DEF SaveStep

\* FlowVersioning::save: whatever clients do, and wherever their calls fail, the head
\* names a version that is stored, so get_current finds it.
THEOREM HeadAlwaysResolves == StoreSpec => []HeadResolves
<1>1. StoreInv /\ [StoreNext]_storeVars => StoreInv'
  <2> SUFFICES ASSUME StoreInv, [StoreNext]_storeVars PROVE StoreInv'
    OBVIOUS
  <2>1. CASE StoreNext
    BY <2>1, SaveKeepsStoreInv DEF StoreNext
  <2>2. CASE UNCHANGED storeVars
    BY <2>2 DEF storeVars, StoreInv, SaverShape, StoredFirst, HeadResolves
  <2> QED
    BY <2>1, <2>2
<1>2. StoreInv => HeadResolves
  BY DEF StoreInv
<1> QED
  BY InitStoreInv, <1>1, <1>2, PTL DEF StoreSpec

-----------------------------------------------------------------------------
(* What is started, once. *)

RealEvents == [flow : {"Main", "Chained"}, key : 0..MaxSeconds,
               version : Graphs \cup {NoVersion}, source : Nat]
Runs == [flow : {"Main", "Chained"}, key : 0..MaxSeconds, source : Nat, triggered : BOOLEAN,
         version : Graphs \cup {NoVersion}, held : BOOLEAN,
         status : {"Running", "Completed", "Failed", "Cancelled"}]

\* Shape of the state; an event in hand is one while its task or the loop works on it.
StoreShape == SaverShape /\ head \in Graphs \cup {NoVersion}
TaskShape ==
    /\ second \in Nat \ {0}
    /\ trigger \in [TriggerTasks -> {"off", "select", "send", "stopped"}]
    /\ DOMAIN pending = TriggerTasks
    /\ \A t \in TriggerTasks :
          IF trigger[t] = "send" THEN pending[t] \in RealEvents ELSE pending[t] = NoEvent
    /\ completions \in Seq(Nat) /\ Len(completions) <= BroadcastCap
DispatchShape ==
    /\ events \in Seq(RealEvents) /\ Len(events) <= EventCap
    /\ seen_keys \subseteq 1..MaxSeconds
    /\ dispatch \in {"off", "recv", "resolve", "execute", "handle", "stopped"}
    /\ IF dispatch \in {"resolve", "execute", "handle"} THEN event \in RealEvents ELSE event = NoEvent
    /\ runs \in Seq(Runs)
Shape == StoreShape /\ TaskShape /\ DispatchShape

\* The keys of the runs have been seen, and that of the event being dispatched is new.
KeysInv ==
    /\ \A r \in 1..Len(runs) : runs[r].key # 0 => runs[r].key \in seen_keys
    /\ dispatch \in {"resolve", "execute"} /\ event.key # 0 =>
           event.key \in seen_keys /\ \A r \in 1..Len(runs) : runs[r].key # event.key
    /\ OncePerKey

\* s is a completed run of Main.
Source(s) == s \in 1..Len(runs) /\ runs[s].flow = "Main" /\ runs[s].status = "Completed"

\* An event, or a run, of Chained has a source that completed; all others have none.
Sound(x) == IF x.flow = "Chained" THEN Source(x.source) ELSE x.source = 0

SourcesSound ==
    /\ \A i \in 1..Len(completions) :
          completions[i] \in 1..Len(runs) /\ runs[completions[i]].status # "Running"
    /\ \A t \in TriggerTasks : Sound(pending[t]) /\ (t # "flow" => pending[t].source = 0)
    /\ \A i \in 1..Len(events) : Sound(events[i])
    /\ Sound(event)
    /\ \A r \in 1..Len(runs) : Sound(runs[r])

\* The places a source can be in: the broadcast, the flow trigger, the channel, the dispatch
\* loop, a run it started.
InC(s) == \E i \in 1..Len(completions) : completions[i] = s
InP(s) == pending["flow"].source = s
InE(s) == \E i \in 1..Len(events) : events[i].source = s
InV(s) == dispatch \in {"resolve", "execute"} /\ event.source = s
InR(s) == \E r \in 1..Len(runs) : runs[r].source = s

OnePlace(s) ==
    /\ InC(s) => ~InP(s) /\ ~InE(s) /\ ~InV(s) /\ ~InR(s)
    /\ InP(s) => ~InE(s) /\ ~InV(s) /\ ~InR(s)
    /\ InE(s) => ~InV(s) /\ ~InR(s)
    /\ InV(s) => ~InR(s)

UniqueC == \A i, j \in 1..Len(completions) : completions[i] = completions[j] => i = j
UniqueE == \A i, j \in 1..Len(events) : events[i].source = events[j].source /\ events[i].source # 0 => i = j
UniqueR == \A i, j \in 1..Len(runs) : runs[i].source = runs[j].source /\ runs[i].source # 0 => i = j

ChainInv ==
    /\ SourcesSound /\ UniqueC /\ UniqueE /\ UniqueR
    /\ \A s \in Nat \ {0} : OnePlace(s)

\* Shutdown in order: the handles it takes are those of every task.
LifeInv ==
    /\ start = "no" => dispatch = "off" /\ \A t \in TriggerTasks : trigger[t] = "off"
    /\ shutdown # "no" => start # "no"
    /\ shutdown # "no" /\ in_order => start = "stored"
    /\ shutdown = "aborting" \/ (shutdown = "returned" /\ in_order) =>
          start = "stored" /\ \A t \in TriggerTasks : trigger[t] = "stopped"
    /\ shutdown = "returned" /\ in_order => dispatch = "stopped"
    /\ shutdown \in {"no", "signalled", "aborting", "returned"}

-----------------------------------------------------------------------------
(* Channels *)

\* The receiver takes the first message: the others move up.
LEMMA TailFacts ==
    ASSUME NEW S, NEW s \in Seq(S), s # <<>>
    PROVE  /\ Head(s) \in S /\ Head(s) = s[1] /\ 1 \in 1..Len(s)
           /\ Tail(s) \in Seq(S) /\ Len(Tail(s)) = Len(s) - 1 /\ Len(s) \in Nat
           /\ \A i \in 1..Len(Tail(s)) : i + 1 \in 1..Len(s) /\ Tail(s)[i] = s[i + 1]
OBVIOUS

\* A sender adds one at the end.
LEMMA AppendFacts ==
    ASSUME NEW S, NEW s \in Seq(S), NEW x \in S
    PROVE  /\ Append(s, x) \in Seq(S) /\ Len(Append(s, x)) = Len(s) + 1 /\ Len(s) \in Nat
           /\ Append(s, x)[Len(s) + 1] = x
           /\ \A i \in 1..Len(s) : Append(s, x)[i] = s[i]
           /\ \A i \in 1..(Len(s) + 1) : i = Len(s) + 1 \/ i \in 1..Len(s)
OBVIOUS

\* One element is changed: the others, and how many there are, stay.
LEMMA ChangeFacts ==
    ASSUME NEW S, NEW s \in Seq(S), NEW r, NEW x, r \in 1..Len(s) => x \in S
    PROVE  /\ [s EXCEPT ![r] = x] \in Seq(S) /\ Len([s EXCEPT ![r] = x]) = Len(s)
           /\ r \in 1..Len(s) => [s EXCEPT ![r] = x][r] = x
           /\ \A i \in 1..Len(s) : i # r => [s EXCEPT ![r] = x][i] = s[i]
<1> DEFINE z == [s EXCEPT ![r] = x]
<1>1. DOMAIN z = 1..Len(s) /\ Len(s) \in Nat
  OBVIOUS
<1>2. \A i \in 1..Len(s) : z[i] = (IF i = r THEN x ELSE s[i])
  OBVIOUS
<1>3. \A i \in 1..Len(s) : z[i] \in S
  BY <1>2
<1>4. z \in [1..Len(s) -> S]
  BY <1>1, <1>3
<1>5. z \in Seq(S) /\ Len(z) = Len(s)
  BY <1>1, <1>4
<1> QED
  BY <1>2, <1>5

-----------------------------------------------------------------------------
(* Shape *)

\* A handle is dropped, or a run ends.
LEMMA RunChange ==
    ASSUME runs \in Seq(Runs), NEW r,
           NEW st \in {"Running", "Completed", "Failed", "Cancelled"}, NEW h \in BOOLEAN
    PROVE  [runs EXCEPT ![r].held = h] \in Seq(Runs) /\ [runs EXCEPT ![r].status = st] \in Seq(Runs)
<1>1. ASSUME NEW x \in Runs PROVE [x EXCEPT !.held = h] \in Runs /\ [x EXCEPT !.status = st] \in Runs
  BY DEF Runs
<1>. r \in 1..Len(runs) => runs[r] \in Runs
  OBVIOUS
<1>2. [runs EXCEPT ![r] = [runs[r] EXCEPT !.held = h]] \in Seq(Runs)
  BY <1>1, ChangeFacts
<1>3. [runs EXCEPT ![r] = [runs[r] EXCEPT !.status = st]] \in Seq(Runs)
  BY <1>1, ChangeFacts
<1> QED
  BY <1>2, <1>3

\* The version get_current returns is a graph, or none.
LEMMA CurrentType ==
    ASSUME StoreShape
    PROVE  get_current \in Graphs \cup {NoVersion}
BY DEF StoreShape, get_current

\* The dispatch loop starts a run for the event it has in hand, or none.
LEMMA ExecuteStarts ==
    ASSUME Shape, dispatch_execute
    PROVE  \/ /\ dispatch' = "handle" /\ event' = event
              /\ \E x \in Runs : /\ runs' = Append(runs, x) /\ x.flow = event.flow /\ x.key = event.key
                                /\ x.source = event.source /\ x.status = "Running"
           \/ dispatch' = "recv" /\ event' = NoEvent /\ runs' = runs
<1>1. event.flow \in {"Main", "Chained"} /\ event.key \in 0..MaxSeconds /\ event.source \in Nat
  BY DEF dispatch_execute, Shape, DispatchShape, RealEvents
<1>2. PICK v \in Graphs \cup {NoVersion} : v = IF event.flow = "Main" THEN get_current ELSE NoVersion
  BY CurrentType DEF Shape
<1> DEFINE x == [flow |-> event.flow, key |-> event.key, source |-> event.source, triggered |-> TRUE,
                 version |-> v, held |-> TRUE, status |-> "Running"]
<1>3. x \in Runs /\ x.flow = event.flow /\ x.key = event.key /\ x.source = event.source
      /\ x.status = "Running"
  BY <1>1 DEF Runs
<1>4. CASE dispatch' = "handle"
  <2>1. runs' = Append(runs, x) /\ event' = event
    BY <1>2, <1>4 DEF dispatch_execute, Run
  <2> HIDE DEF x
  <2> QED
    BY <1>3, <1>4, <2>1
<1>5. CASE dispatch' # "handle"
  BY <1>5 DEF dispatch_execute
<1> QED
  BY <1>4, <1>5

\* The API starts a run of Main that no event asked for.
LEMMA ApiStarts ==
    ASSUME Shape, api_execute
    PROVE  \E x \in Runs : /\ runs' = Append(runs, x) /\ x.flow = "Main" /\ x.key = 0
                           /\ x.source = 0 /\ x.status = "Running"
<1> DEFINE x == [flow |-> "Main", key |-> 0, source |-> 0, triggered |-> FALSE, version |-> get_current,
                 held |-> TRUE, status |-> "Running"]
<1>1. 0 \in 0..MaxSeconds /\ get_current \in Graphs \cup {NoVersion}
  BY CurrentType, TriggerAssumption DEF Shape
<1>2. x \in Runs /\ x.flow = "Main" /\ x.key = 0 /\ x.source = 0 /\ x.status = "Running"
  BY <1>1 DEF Runs
<1>3. runs' = Append(runs, x)
  BY DEF api_execute, Run
<1> HIDE DEF x
<1> QED
  BY <1>2, <1>3

\* Saving keeps the shape of the store.
LEMMA SaveKeepsShape ==
    ASSUME StoreShape, NEW c \in Clients, SaveStep(c)
    PROVE  StoreShape'
<1> USE DEF StoreShape, SaverShape, Saving, Return, NoSave
<1>1. ASSUME NEW g \in Graphs, save(c, g) PROVE StoreShape'
  BY <1>1 DEF save
<1>2. CASE get_version(c)
  BY <1>2 DEF get_version
<1>3. CASE put_version(c)
  BY <1>3 DEF put_version
<1>4. CASE put_head(c)
  BY <1>4 DEF put_head
<1>5. CASE save_fails(c)
  BY <1>5 DEF save_fails
<1> QED
  BY <1>1, <1>2, <1>3, <1>4, <1>5 DEF SaveStep

\* A handle that is dropped changes nothing that a trigger looks at.
LEMMA RunsHeld ==
    ASSUME runs \in Seq(Runs), NEW r, NEW z, z = [runs EXCEPT ![r].held = FALSE]
    PROVE  /\ Len(z) = Len(runs)
           /\ \A i \in 1..Len(runs) : /\ z[i].key = runs[i].key /\ z[i].flow = runs[i].flow
                                      /\ z[i].source = runs[i].source /\ z[i].status = runs[i].status
<1>1. ASSUME NEW x \in Runs
      PROVE LET y == [x EXCEPT !.held = FALSE] IN
            y.key = x.key /\ y.flow = x.flow /\ y.source = x.source /\ y.status = x.status /\ y \in Runs
  BY DEF Runs
<1>2. r \in 1..Len(runs) => runs[r] \in Runs
  OBVIOUS
<1>3. z = [runs EXCEPT ![r] = [runs[r] EXCEPT !.held = FALSE]]
  OBVIOUS
<1> QED
  BY <1>1, <1>2, <1>3, ChangeFacts

\* The end of a run changes its status.
LEMMA RunsEnded ==
    ASSUME runs \in Seq(Runs), NEW r \in 1..Len(runs), NEW z,
           NEW st \in {"Running", "Completed", "Failed", "Cancelled"}, z = [runs EXCEPT ![r].status = st]
    PROVE  /\ Len(z) = Len(runs) /\ z[r].status = st
           /\ \A i \in 1..Len(runs) : /\ z[i].key = runs[i].key /\ z[i].flow = runs[i].flow
                                      /\ z[i].source = runs[i].source
                                      /\ i # r => z[i].status = runs[i].status
<1>1. ASSUME NEW x \in Runs
      PROVE LET y == [x EXCEPT !.status = st] IN
            y.key = x.key /\ y.flow = x.flow /\ y.source = x.source /\ y.status = st /\ y \in Runs
  BY DEF Runs
<1>2. runs[r] \in Runs
  OBVIOUS
<1>3. z = [runs EXCEPT ![r] = [runs[r] EXCEPT !.status = st]]
  OBVIOUS
<1> QED
  BY <1>1, <1>2, <1>3, ChangeFacts

\* The first state is well typed.
LEMMA InitShape == Init => Shape
<1> SUFFICES ASSUME Init PROVE Shape
  OBVIOUS
<1>1. StoreShape
  BY DEF Init, StoreInit, StoreShape, SaverShape, NoSave
<1>2. TaskShape
  BY TriggerAssumption DEF Init, TaskShape
<1>3. DispatchShape
  BY TriggerAssumption DEF Init, DispatchShape
<1> QED
  BY <1>1, <1>2, <1>3 DEF Shape

\* A task that emits an event has one in hand.
LEMMA EmitKeepsShape ==
    ASSUME TaskShape, NEW t \in TriggerTasks, NEW ev \in RealEvents, Emit(t, ev),
           second' \in Nat \ {0}, completions' \in Seq(Nat), Len(completions') <= BroadcastCap
    PROVE  TaskShape'
BY DEF TaskShape, Emit

\* The trigger tasks keep the types.
LEMMA TasksKeepShape ==
    ASSUME Shape
    PROVE  /\ (\E t \in Crons : cron_tick(t)) => Shape'
           /\ custom_fires => Shape'
           /\ flow_trigger_recv => Shape'
           /\ (\E t \in TriggerTasks : send_event(t)) => Shape'
           /\ triggers_stop => Shape'
<1> USE DEF Shape
<1>1. ASSUME NEW t \in Crons, cron_tick(t) PROVE Shape'
  <2>1. second' \in Nat \ {0} /\ second' \in 0..MaxSeconds
    BY <1>1, TriggerAssumption DEF cron_tick, TaskShape
  <2>2. Event("Main", second', NoVersion, 0) \in RealEvents
    BY <2>1 DEF Event, RealEvents
  <2>3. TaskShape'
    BY <1>1, <2>1, <2>2, EmitKeepsShape DEF cron_tick, TaskShape, TriggerTasks
  <2> QED
    BY <1>1, <2>3 DEF cron_tick, StoreShape, SaverShape, storeVars, DispatchShape, dispatchVars
<1>2. CASE custom_fires
  <2>1. PICK v \in Graphs : Emit("custom", Event("Main", 0, v, 0))
    BY <1>2 DEF custom_fires
  <2>2. Event("Main", 0, v, 0) \in RealEvents
    BY TriggerAssumption DEF Event, RealEvents
  <2>3. TaskShape'
    BY <1>2, <2>1, <2>2, EmitKeepsShape DEF custom_fires, TaskShape, TriggerTasks
  <2> QED
    BY <1>2, <2>3 DEF custom_fires, StoreShape, SaverShape, storeVars, DispatchShape, dispatchVars
<1>3. CASE flow_trigger_recv
  <2>1. completions \in Seq(Nat) /\ completions # <<>> /\ completions' = Tail(completions)
    BY <1>3 DEF flow_trigger_recv, TaskShape
  <2>2. Head(completions) \in Nat /\ Tail(completions) \in Seq(Nat)
        /\ Len(Tail(completions)) = Len(completions) - 1 /\ Len(completions) \in Nat
    BY <2>1, TailFacts
  <2>3. completions' \in Seq(Nat) /\ Len(completions') <= BroadcastCap /\ second' = second
    BY <1>3, <2>1, <2>2, TriggerAssumption DEF flow_trigger_recv, TaskShape, clockVars
  <2>4. Event("Chained", 0, NoVersion, Head(completions)) \in RealEvents
    BY <2>2, TriggerAssumption DEF Event, RealEvents
  <2>5. CASE matches(Head(completions))
    <3>1. TaskShape'
      BY <1>3, <2>3, <2>4, <2>5, EmitKeepsShape DEF flow_trigger_recv, TaskShape, TriggerTasks
    <3> QED
      BY <1>3, <3>1 DEF flow_trigger_recv, StoreShape, SaverShape, storeVars, DispatchShape, dispatchVars
  <2>6. CASE ~matches(Head(completions))
    BY <1>3, <2>3, <2>6
    DEF flow_trigger_recv, TaskShape, StoreShape, SaverShape, storeVars, DispatchShape, dispatchVars
  <2> QED
    BY <2>5, <2>6
<1>4. ASSUME NEW t \in TriggerTasks, send_event(t) PROVE Shape'
  <2>1. pending[t] \in RealEvents /\ events \in Seq(RealEvents) /\ Len(events) < EventCap
    BY <1>4 DEF send_event, TaskShape, DispatchShape
  <2>2. events' \in Seq(RealEvents) /\ Len(events') <= EventCap
    BY <1>4, <2>1, AppendFacts, TriggerAssumption DEF send_event
  <2>3. TaskShape'
    BY <1>4 DEF send_event, TaskShape, clockVars
  <2> QED
    BY <1>4, <2>2, <2>3 DEF send_event, StoreShape, SaverShape, storeVars, DispatchShape, dispatchVars
<1>5. CASE triggers_stop
  BY <1>5 DEF triggers_stop, TaskShape, clockVars, StoreShape, SaverShape, storeVars, DispatchShape,
              dispatchVars
<1> QED
  BY <1>1, <1>2, <1>3, <1>4, <1>5

\* The dispatch loop does.
LEMMA DispatchKeepsShape ==
    ASSUME Shape
    PROVE  /\ dispatch_recv => Shape'
           /\ dispatch_resolve => Shape'
           /\ dispatch_execute => Shape'
           /\ dispatch_drops_handle => Shape'
<1> USE DEF Shape
<1>1. CASE dispatch_recv
  <2>1. events \in Seq(RealEvents) /\ events # <<>> /\ events' = Tail(events)
    BY <1>1 DEF dispatch_recv, DispatchShape
  <2>2. Head(events) \in RealEvents /\ Tail(events) \in Seq(RealEvents)
        /\ Len(Tail(events)) = Len(events) - 1 /\ Len(events) \in Nat
    BY <2>1, TailFacts
  <2>3. events' \in Seq(RealEvents) /\ Len(events') <= EventCap
    BY <2>1, <2>2, TriggerAssumption DEF DispatchShape
  <2>4. Head(events).key \in 0..MaxSeconds
    BY <2>2 DEF RealEvents
  <2>5. seen_keys' \subseteq 1..MaxSeconds
    <3>1. Head(events).key # 0 => Head(events).key \in 1..MaxSeconds
      BY <2>4, TriggerAssumption
    <3> QED
      BY <1>1, <3>1 DEF dispatch_recv, remember, DispatchShape
  <2>6. DispatchShape'
    BY <1>1, <2>2, <2>3, <2>5 DEF dispatch_recv, DispatchShape
  <2> QED
    BY <1>1, <2>6 DEF dispatch_recv, StoreShape, SaverShape, storeVars, TaskShape, taskVars, clockVars
<1>2. CASE dispatch_resolve
  BY <1>2 DEF dispatch_resolve, Continue, DispatchShape, StoreShape, SaverShape, storeVars, TaskShape,
              taskVars, clockVars
<1>3. CASE dispatch_execute
  <2>1. StoreShape' /\ TaskShape'
    BY <1>3 DEF dispatch_execute, StoreShape, SaverShape, storeVars, TaskShape, taskVars, clockVars
  <2>2. runs' = runs \/ \E x \in Runs : runs' = Append(runs, x)
    BY <1>3, ExecuteStarts
  <2>3. runs' \in Seq(Runs)
    BY <2>2, AppendFacts DEF DispatchShape
  <2>4. DispatchShape'
    BY <1>3, <2>3, ExecuteStarts DEF dispatch_execute, DispatchShape
  <2> QED
    BY <2>1, <2>4
<1>4. CASE dispatch_drops_handle
  <2>1. StoreShape' /\ TaskShape'
    BY <1>4 DEF dispatch_drops_handle, StoreShape, SaverShape, storeVars, TaskShape, taskVars, clockVars
  <2>2. [runs EXCEPT ![Len(runs)].held = FALSE] \in Seq(Runs)
    BY RunChange DEF DispatchShape
  <2> QED
    BY <1>4, <2>1, <2>2 DEF dispatch_drops_handle, DispatchShape
<1> QED
  BY <1>1, <1>2, <1>3, <1>4

\* Runs and the interface that starts and cancels them do.
LEMMA RunsKeepShape ==
    ASSUME Shape
    PROVE  /\ api_execute => Shape'
           /\ (\E r \in 1..Len(runs) : api_cancel(r)) => Shape'
           /\ (\E r \in 1..Len(runs) : run_ends(r)) => Shape'
<1> USE DEF Shape
<1>1. CASE api_execute
  <2>1. StoreShape' /\ TaskShape'
    BY <1>1 DEF api_execute, StoreShape, SaverShape, storeVars, TaskShape, taskVars, clockVars
  <2>2. runs' \in Seq(Runs)
    <3>1. PICK x \in Runs : runs' = Append(runs, x)
      BY <1>1, ApiStarts
    <3> QED
      BY <3>1, AppendFacts DEF DispatchShape
  <2> QED
    BY <1>1, <2>1, <2>2 DEF api_execute, DispatchShape, dispatchVars
<1>2. ASSUME NEW r \in 1..Len(runs), api_cancel(r) PROVE Shape'
  <2>1. StoreShape' /\ TaskShape'
    BY <1>2 DEF api_cancel, StoreShape, SaverShape, storeVars, TaskShape, taskVars, clockVars
  <2>2. [runs EXCEPT ![r].held = FALSE] \in Seq(Runs)
    BY RunChange DEF DispatchShape
  <2> QED
    BY <1>2, <2>1, <2>2 DEF api_cancel, DispatchShape, dispatchVars
<1>3. ASSUME NEW r \in 1..Len(runs), run_ends(r) PROVE Shape'
  <2>1. PICK st \in {"Completed", "Failed", "Cancelled"} : runs' = [runs EXCEPT ![r].status = st]
    BY <1>3 DEF run_ends
  <2>2. [runs EXCEPT ![r].status = st] \in Seq(Runs)
    BY RunChange DEF DispatchShape
  <2>3. completions \in Seq(Nat) /\ r \in Nat /\ Len(completions) <= BroadcastCap
    BY DEF TaskShape, DispatchShape
  <2>4. /\ Append(completions, r) \in Seq(Nat) /\ Len(Append(completions, r)) = Len(completions) + 1
        /\ Len(completions) \in Nat /\ Append(completions, r) # <<>>
    BY <2>3, AppendFacts
  <2>5. Tail(Append(completions, r)) \in Seq(Nat)
        /\ Len(Tail(Append(completions, r))) = Len(Append(completions, r)) - 1
    BY <2>4, TailFacts
  <2>6. completions' \in Seq(Nat) /\ Len(completions') <= BroadcastCap
    BY <1>3, <2>3, <2>4, <2>5, TriggerAssumption DEF run_ends, Newest
  <2>7. TaskShape'
    BY <1>3, <2>6 DEF run_ends, TaskShape, clockVars
  <2> QED
    BY <1>3, <2>1, <2>2, <2>7
    DEF run_ends, StoreShape, SaverShape, storeVars, DispatchShape, dispatchVars
<1> QED
  BY <1>1, <1>2, <1>3

\* Start and shutdown do.
LEMMA LifeKeepsShape ==
    ASSUME Shape, LifeInv
    PROVE  /\ start_triggers => Shape'
           /\ store_handles => Shape'
           /\ shutdown_signal => Shape'
           /\ shutdown_aborts_triggers => Shape'
           /\ shutdown_aborts_dispatch => Shape'
<1> USE DEF Shape
<1>1. CASE start_triggers
  <2>1. dispatch = "off" /\ \A t \in TriggerTasks : trigger[t] = "off"
    BY <1>1 DEF start_triggers, LifeInv
  <2>2. TaskShape'
    BY <1>1, <2>1 DEF start_triggers, TaskShape, clockVars
  <2> QED
    BY <1>1, <2>1, <2>2 DEF start_triggers, StoreShape, SaverShape, storeVars, DispatchShape
<1>2. CASE store_handles
  BY <1>2 DEF store_handles, StoreShape, SaverShape, storeVars, DispatchShape, dispatchVars, TaskShape,
              taskVars, clockVars
<1>3. CASE shutdown_signal
  BY <1>3 DEF shutdown_signal, StoreShape, SaverShape, storeVars, DispatchShape, dispatchVars, TaskShape,
              taskVars, clockVars
<1>4. CASE shutdown_aborts_triggers
  BY <1>4 DEF shutdown_aborts_triggers, StoreShape, SaverShape, storeVars, DispatchShape, dispatchVars,
              TaskShape, clockVars
<1>5. CASE shutdown_aborts_dispatch
  <2>1. StoreShape' /\ TaskShape'
    BY <1>5 DEF shutdown_aborts_dispatch, StoreShape, SaverShape, storeVars, TaskShape, taskVars, clockVars
  <2>2. [runs EXCEPT ![Len(runs)].held = FALSE] \in Seq(Runs)
    BY RunChange DEF DispatchShape
  <2> QED
    BY <1>5, <2>1, <2>2 DEF shutdown_aborts_dispatch, DispatchShape
<1> QED
  BY <1>1, <1>2, <1>3, <1>4, <1>5

-----------------------------------------------------------------------------
(* Start and shutdown *)

\* Before start_triggers no task exists.
LEMMA InitLife == Init => LifeInv
  BY DEF Init, LifeInv

\* Tasks exist only between start and shutdown.
LEMMA NextLife ==
    ASSUME Shape, LifeInv, Next
    PROVE  LifeInv'
<1> USE DEF LifeInv
<1>0. DOMAIN trigger = TriggerTasks /\ Crons \subseteq TriggerTasks
      /\ "custom" \in TriggerTasks /\ "flow" \in TriggerTasks
  BY DEF Shape, TaskShape, TriggerTasks
<1>1. CASE UNCHANGED <<lifeVars, trigger, dispatch>>
  BY <1>1 DEF lifeVars
<1>2. ASSUME NEW t \in TriggerTasks, NEW ev, Emit(t, ev), UNCHANGED <<lifeVars, dispatch>>
      PROVE LifeInv'
  BY <1>2, <1>0 DEF lifeVars, Emit
<1>3. CASE \E t \in Crons : cron_tick(t)
  BY <1>3, <1>2, <1>0 DEF cron_tick, dispatchVars
<1>4. CASE custom_fires
  BY <1>4, <1>2, <1>0 DEF custom_fires, dispatchVars
<1>5. CASE flow_trigger_recv
  <2>1. CASE matches(Head(completions))
    BY <1>5, <2>1, <1>2, <1>0 DEF flow_trigger_recv, dispatchVars
  <2>2. CASE ~matches(Head(completions))
    BY <1>5, <2>2, <1>1 DEF flow_trigger_recv, dispatchVars
  <2> QED
    BY <2>1, <2>2
<1>6. ASSUME NEW t \in TriggerTasks, send_event(t) PROVE LifeInv'
  BY <1>6, <1>0 DEF send_event, lifeVars, dispatchVars
<1>7. CASE triggers_stop
  BY <1>7, <1>0 DEF triggers_stop, lifeVars, dispatchVars
<1>8. CASE DispatchStep
  <2>1. dispatch \notin {"off", "stopped"} /\ UNCHANGED <<lifeVars, trigger>>
    BY <1>8 DEF DispatchStep, dispatch_recv, dispatch_resolve, dispatch_execute,
                dispatch_drops_handle, taskVars
  <2> QED
    BY <2>1 DEF lifeVars
<1>9. CASE start_triggers
  <2>1. start' = "spawned" /\ shutdown = "no" /\ shutdown' = "no"
    BY <1>9 DEF start_triggers
  <2> QED
    BY <2>1
<1>14. CASE store_handles
  BY <1>14 DEF store_handles, taskVars, dispatchVars
<1>15. CASE shutdown_signal
  BY <1>15 DEF shutdown_signal, taskVars, dispatchVars
<1>10. CASE shutdown_aborts_triggers
  BY <1>10 DEF shutdown_aborts_triggers, dispatchVars
<1>11. CASE shutdown_aborts_dispatch
  BY <1>11 DEF shutdown_aborts_dispatch, taskVars
<1>12. CASE StoreNext /\ UNCHANGED <<clockVars, lifeVars, taskVars, events, dispatchVars, runs>>
  BY <1>12, <1>1 DEF taskVars, dispatchVars
<1>13. CASE api_execute \/ \E r \in 1..Len(runs) : api_cancel(r) \/ run_ends(r)
  BY <1>13, <1>1 DEF api_execute, api_cancel, run_ends, taskVars, dispatchVars
<1> QED
  BY <1>3, <1>4, <1>5, <1>6, <1>7, <1>8, <1>9, <1>10, <1>11, <1>12, <1>13, <1>14,
     <1>15 DEF Next

-----------------------------------------------------------------------------
(* Idempotency keys *)

\* No key has been seen.
LEMMA InitKeys == Init => KeysInv
  BY DEF Init, KeysInv, OncePerKey

\* No run is added and the dispatch loop does not take an event.
LEMMA KeysStay ==
    ASSUME KeysInv, UNCHANGED <<seen_keys>>, Len(runs') = Len(runs),
           \A i \in 1..Len(runs) : runs'[i].key = runs[i].key,
           dispatch' \in {"resolve", "execute"} => dispatch \in {"resolve", "execute"} /\ event' = event
    PROVE  KeysInv'
BY DEF KeysInv, OncePerKey

\* A run with a new key, or without one, is added.
LEMMA KeysGrow ==
    ASSUME Shape, KeysInv, UNCHANGED <<seen_keys>>, NEW x \in Runs, runs' = Append(runs, x),
           x.key # 0 => x.key \in seen_keys /\ \A i \in 1..Len(runs) : runs[i].key # x.key,
           dispatch' \in {"resolve", "execute"} =>
               dispatch \in {"resolve", "execute"} /\ event' = event /\ x.key = 0
    PROVE  KeysInv'
<1>1. /\ Len(runs') = Len(runs) + 1 /\ Len(runs) \in Nat /\ runs'[Len(runs) + 1] = x
      /\ \A i \in 1..Len(runs) : runs'[i] = runs[i]
      /\ \A i \in 1..(Len(runs) + 1) : i = Len(runs) + 1 \/ i \in 1..Len(runs)
  BY AppendFacts DEF Shape, DispatchShape
<1>2. \A i \in 1..Len(runs') : runs'[i].key # 0 => runs'[i].key \in seen_keys
  BY <1>1 DEF KeysInv
<1>3. OncePerKey'
  BY <1>1 DEF KeysInv, OncePerKey
<1>4. dispatch' \in {"resolve", "execute"} /\ event'.key # 0 =>
           event'.key \in seen_keys' /\ \A r \in 1..Len(runs') : runs'[r].key # event'.key
  BY <1>1 DEF KeysInv
<1> QED
  BY <1>2, <1>3, <1>4 DEF KeysInv

\* A key is entered into seen_keys before its run is started.
LEMMA NextKeys ==
    ASSUME Shape, KeysInv, Next
    PROVE  KeysInv'
<1>1. CASE UNCHANGED <<dispatchVars, runs>>
  BY <1>1 DEF dispatchVars, KeysInv, OncePerKey
<1>2. CASE dispatch_recv
  <2>1. Head(events).key \notin seen_keys /\ Head(events).key # 0 =>
           Head(events).key \in seen_keys' /\ \A r \in 1..Len(runs) : runs[r].key # Head(events).key
    BY <1>2 DEF dispatch_recv, remember, KeysInv
  <2>2. runs' = runs /\ seen_keys \subseteq seen_keys' /\ dispatch = "recv"
    BY <1>2 DEF dispatch_recv, remember
  <2>3. CASE Head(events).key \in seen_keys
    BY <1>2, <2>2, <2>3 DEF dispatch_recv, KeysInv, OncePerKey
  <2>4. CASE Head(events).key \notin seen_keys
    BY <1>2, <2>1, <2>2, <2>4 DEF dispatch_recv, KeysInv, OncePerKey
  <2> QED
    BY <2>3, <2>4
<1>3. CASE dispatch_resolve
  BY <1>3, KeysStay DEF dispatch_resolve, Continue
<1>4. CASE dispatch_execute
  <2>1. CASE dispatch' = "handle"
    <3>1. PICK x \in Runs : runs' = Append(runs, x) /\ x.key = event.key
      BY <1>4, <2>1, ExecuteStarts
    <3>2. x.key # 0 => x.key \in seen_keys /\ \A i \in 1..Len(runs) : runs[i].key # x.key
      BY <1>4, <3>1 DEF dispatch_execute, KeysInv
    <3> QED
      BY <1>4, <2>1, <3>1, <3>2, KeysGrow DEF dispatch_execute
  <2>2. CASE dispatch' # "handle"
    BY <1>4, <2>2, KeysStay DEF dispatch_execute
  <2> QED
    BY <2>1, <2>2
<1>5. CASE dispatch_drops_handle
  BY <1>5, KeysStay, RunsHeld DEF dispatch_drops_handle, Shape, DispatchShape
<1>6. CASE api_execute
  <2>1. PICK x \in Runs : runs' = Append(runs, x) /\ x.key = 0
    BY <1>6, ApiStarts
  <2> QED
    BY <1>6, <2>1, KeysGrow DEF api_execute, dispatchVars
<1>7. ASSUME NEW r \in 1..Len(runs), api_cancel(r) PROVE KeysInv'
  BY <1>7, KeysStay, RunsHeld DEF api_cancel, dispatchVars, Shape, DispatchShape
<1>8. ASSUME NEW r \in 1..Len(runs), run_ends(r) PROVE KeysInv'
  BY <1>8, KeysStay, RunsEnded DEF run_ends, dispatchVars, Shape, DispatchShape
<1>9. CASE shutdown_aborts_dispatch
  BY <1>9, KeysStay, RunsHeld DEF shutdown_aborts_dispatch, Shape, DispatchShape
<1>10. CASE start_triggers
  BY <1>10, KeysStay DEF start_triggers
<1>11. CASE \/ StoreNext /\ UNCHANGED <<clockVars, lifeVars, taskVars, events, dispatchVars, runs>>
            \/ \E t \in Crons : cron_tick(t)
            \/ \E t \in TriggerTasks : send_event(t)
            \/ custom_fires \/ flow_trigger_recv \/ triggers_stop
            \/ store_handles \/ shutdown_signal \/ shutdown_aborts_triggers
  BY <1>11, <1>1 DEF cron_tick, send_event, custom_fires, flow_trigger_recv, triggers_stop,
              store_handles, shutdown_signal, shutdown_aborts_triggers
<1> QED
  BY <1>2, <1>3, <1>4, <1>5, <1>6, <1>7, <1>8, <1>9, <1>10, <1>11 DEF Next, DispatchStep

-----------------------------------------------------------------------------
(* Chaining: where the sources come from *)

\* Nothing has completed.
LEMMA InitChain == Init => ChainInv
<1> SUFFICES ASSUME Init PROVE ChainInv
  OBVIOUS
<1>1. SourcesSound
  BY DEF Init, SourcesSound, Sound, NoEvent
<1>2. UniqueC /\ UniqueE /\ UniqueR
  BY DEF Init, UniqueC, UniqueE, UniqueR
<1>3. ASSUME NEW s \in Nat \ {0} PROVE OnePlace(s)
  <2>1. pending["flow"].source = 0
    BY DEF Init, TriggerTasks, NoEvent
  <2> QED
    BY <2>1 DEF Init, OnePlace, InC, InP, InE, InV, InR
<1> QED
  BY <1>1, <1>2, <1>3 DEF ChainInv

\* Runs are never removed, and what has ended stays as it is.
RunsKept ==
    /\ Len(runs) <= Len(runs')
    /\ \A i \in 1..Len(runs) :
          /\ i \in 1..Len(runs') /\ runs'[i].flow = runs[i].flow /\ runs'[i].source = runs[i].source
          /\ runs[i].status # "Running" => runs'[i].status = runs[i].status

\* Runs are only added; what started one does not change and an ended one stays ended.
LEMMA NextRunsKept ==
    ASSUME Shape, Next
    PROVE  RunsKept
<1>0. runs \in Seq(Runs) /\ Len(runs) \in Nat
  BY DEF Shape, DispatchShape
<1>1. CASE runs' = runs
  BY <1>0, <1>1 DEF RunsKept
<1>2. ASSUME NEW x \in Runs, runs' = Append(runs, x) PROVE RunsKept
  BY <1>0, <1>2, AppendFacts DEF RunsKept
<1>3. ASSUME NEW r, runs' = [runs EXCEPT ![r].held = FALSE] PROVE RunsKept
  BY <1>0, <1>3, RunsHeld DEF RunsKept
<1>4. CASE dispatch_execute
  BY <1>1, <1>2, <1>4, ExecuteStarts
<1>5. CASE api_execute
  BY <1>2, <1>5, ApiStarts
<1>6. CASE dispatch_drops_handle
  BY <1>3, <1>6 DEF dispatch_drops_handle
<1>7. ASSUME NEW r \in 1..Len(runs), api_cancel(r) PROVE RunsKept
  BY <1>3, <1>7 DEF api_cancel
<1>8. CASE shutdown_aborts_dispatch
  BY <1>1, <1>3, <1>8 DEF shutdown_aborts_dispatch
<1>9. ASSUME NEW r \in 1..Len(runs), run_ends(r) PROVE RunsKept
  <2>1. PICK st \in {"Running", "Completed", "Failed", "Cancelled"} : runs' = [runs EXCEPT ![r].status = st]
    BY <1>9 DEF run_ends
  <2>2. runs[r].status = "Running"
    BY <1>9 DEF run_ends
  <2> QED
    BY <1>0, <2>1, <2>2, RunsEnded DEF RunsKept
<1>10. CASE \/ StoreNext /\ UNCHANGED <<clockVars, lifeVars, taskVars, events, dispatchVars, runs>>
            \/ \E t \in Crons : cron_tick(t)
            \/ \E t \in TriggerTasks : send_event(t)
            \/ custom_fires \/ flow_trigger_recv \/ triggers_stop
            \/ dispatch_recv \/ dispatch_resolve
            \/ start_triggers \/ store_handles \/ shutdown_signal \/ shutdown_aborts_triggers
  BY <1>1, <1>10 DEF cron_tick, send_event, custom_fires, flow_trigger_recv, triggers_stop,
              dispatch_recv, dispatch_resolve, start_triggers, store_handles, shutdown_signal,
              shutdown_aborts_triggers
<1> QED
  BY <1>4, <1>5, <1>6, <1>7, <1>8, <1>9, <1>10 DEF Next, DispatchStep

\* A source stays one.
LEMMA SoundStays ==
    ASSUME RunsKept, NEW x, Sound(x)
    PROVE  Sound(x)'
BY DEF RunsKept, Sound, Source

\* A run that has ended is known as such for good.
EndedRun(i) == i \in 1..Len(runs) /\ runs[i].status # "Running"

\* An ended run stays ended.
LEMMA EndedStays ==
    ASSUME RunsKept, NEW i, EndedRun(i)
    PROVE  EndedRun(i)'
BY DEF RunsKept, EndedRun

\* Parts of SourcesSound, one per place.
SoundC == \A i \in 1..Len(completions) : EndedRun(completions[i])
SoundP == \A t \in TriggerTasks : Sound(pending[t]) /\ (t # "flow" => pending[t].source = 0)
SoundE == \A i \in 1..Len(events) : Sound(events[i])
SoundR == \A r \in 1..Len(runs) : Sound(runs[r])

\* SourcesSound is the conjunction of its places.
LEMMA SourcesParts ==
    ASSUME TRUE
    PROVE  SourcesSound <=> SoundC /\ SoundP /\ SoundE /\ Sound(event) /\ SoundR
BY DEF SourcesSound, SoundC, SoundP, SoundE, SoundR, EndedRun

\* A place that is left alone stays sound while the runs go on.
LEMMA SoundPlaces ==
    ASSUME Shape, RunsKept, SourcesSound
    PROVE  /\ completions' = completions => SoundC'
           /\ pending' = pending => SoundP'
           /\ events' = events => SoundE'
           /\ event' = event => Sound(event)'
           /\ event' = NoEvent => Sound(event)'
           /\ \A i \in 1..Len(runs) : Sound(runs[i])'
<1>1. ASSUME completions' = completions PROVE SoundC'
  <2>1. \A i \in 1..Len(completions) : EndedRun(completions[i])
    BY SourcesParts DEF SoundC
  <2>2. ASSUME NEW i \in 1..Len(completions) PROVE EndedRun(completions[i])'
    <3>1. PICK x : x = completions[i]
      OBVIOUS
    <3>2. EndedRun(x)'
      BY <2>1, <3>1, EndedStays
    <3> QED
      BY <1>1, <3>1, <3>2
  <2> QED
    BY <1>1, <2>2 DEF SoundC
<1>2. ASSUME pending' = pending PROVE SoundP'
  <2>1. ASSUME NEW t \in TriggerTasks PROVE Sound(pending[t])' /\ (t # "flow" => pending[t].source = 0)
    <3>1. PICK x : x = pending[t]
      OBVIOUS
    <3>2. Sound(x)'
      BY <3>1, SourcesParts, SoundStays DEF SoundP
    <3> QED
      BY <1>2, <3>1, <3>2, SourcesParts DEF SoundP
  <2> QED
    BY <1>2, <2>1 DEF SoundP
<1>3. ASSUME events' = events PROVE SoundE'
  <2>1. ASSUME NEW i \in 1..Len(events) PROVE Sound(events[i])'
    <3>1. PICK x : x = events[i]
      OBVIOUS
    <3>2. Sound(x)'
      BY <3>1, SourcesParts, SoundStays DEF SoundE
    <3> QED
      BY <1>3, <3>1, <3>2
  <2> QED
    BY <1>3, <2>1 DEF SoundE
<1>4. ASSUME event' = event PROVE Sound(event)'
  <2>1. PICK x : x = event
    OBVIOUS
  <2>2. Sound(x)'
    BY <2>1, SourcesParts, SoundStays
  <2> QED
    BY <1>4, <2>1, <2>2
<1>5. ASSUME event' = NoEvent PROVE Sound(event)'
  BY <1>5 DEF Sound, NoEvent
<1>6. ASSUME NEW i \in 1..Len(runs) PROVE Sound(runs[i])'
  <2>1. PICK x : x = runs[i]
    OBVIOUS
  <2>2. Sound(x)'
    BY <2>1, SourcesParts, SoundStays DEF SoundR
  <2>3. runs'[i].flow = x.flow /\ runs'[i].source = x.source
    BY <2>1 DEF RunsKept
  <2> QED
    BY <2>2, <2>3 DEF Sound
<1> QED
  BY <1>1, <1>2, <1>3, <1>4, <1>5, <1>6

\* What the broadcast holds after a completion: the run that ended and what it held before,
\* in the same order, less the oldest if there was no room.
LEMMA BroadcastFacts ==
    ASSUME Shape, NEW r \in 1..Len(runs), run_ends(r)
    PROVE  \/ completions' = completions
           \/ \E d \in {0, 1} :
                 /\ Len(completions') = Len(completions) + 1 - d
                 /\ completions'[Len(completions) + 1 - d] = r
                 /\ \A i \in 1..(Len(completions) - d) :
                       i + d \in 1..Len(completions) /\ completions'[i] = completions[i + d]
<1>1. completions \in Seq(Nat) /\ r \in Nat /\ Len(completions) \in Nat
  BY DEF Shape, TaskShape, DispatchShape
<1> DEFINE a == Append(completions, r)
<1>2. /\ a \in Seq(Nat) /\ Len(a) = Len(completions) + 1 /\ a[Len(completions) + 1] = r /\ a # <<>>
      /\ \A i \in 1..Len(completions) : a[i] = completions[i]
  BY <1>1, AppendFacts
<1>3. completions' = completions \/ completions' = a \/ (completions' = Tail(a) /\ Len(a) > BroadcastCap)
  BY DEF run_ends, Newest
<1> HIDE DEF a
<1>4. ASSUME completions' = a
      PROVE  /\ Len(completions') = Len(completions) + 1 - 0
             /\ completions'[Len(completions) + 1 - 0] = r
             /\ \A i \in 1..(Len(completions) - 0) :
                       i + 0 \in 1..Len(completions) /\ completions'[i] = completions[i + 0]
  BY <1>1, <1>2, <1>4
<1>5. ASSUME completions' = Tail(a), Len(a) > BroadcastCap
      PROVE  /\ Len(completions') = Len(completions) + 1 - 1
             /\ completions'[Len(completions) + 1 - 1] = r
             /\ \A i \in 1..(Len(completions) - 1) :
                       i + 1 \in 1..Len(completions) /\ completions'[i] = completions[i + 1]
  <2>1. Len(Tail(a)) = Len(a) - 1 /\ \A i \in 1..Len(Tail(a)) : Tail(a)[i] = a[i + 1]
    BY <1>2, TailFacts
  <2>2. Len(completions) > 0
    BY <1>1, <1>2, <1>5, TriggerAssumption
  <2> QED
    BY <1>1, <1>2, <1>5, <2>1, <2>2
<1>6. 0 \in {0, 1} /\ 1 \in {0, 1}
  OBVIOUS
<1> QED
  BY <1>3, <1>4, <1>5, <1>6, Zenon

\* A trigger task takes an event in hand.
LEMMA EmitSound ==
    ASSUME Shape, RunsKept, SourcesSound, NEW t \in TriggerTasks, NEW ev, Emit(t, ev),
           Sound(ev)', t # "flow" => ev.source = 0
    PROVE  SoundP'
<1>1. ASSUME NEW u \in TriggerTasks PROVE Sound(pending[u])' /\ (u # "flow" => pending'[u].source = 0)
  <2>1. CASE u = t
    BY <2>1 DEF Emit, Shape, TaskShape
  <2>2. CASE u # t
    <3>1. PICK x : x = pending[u]
      OBVIOUS
    <3>2. Sound(x)'
      BY <3>1, SourcesParts, SoundStays DEF SoundP
    <3>3. pending'[u] = x
      BY <2>2, <3>1 DEF Emit, Shape, TaskShape
    <3> QED
      BY <3>1, <3>2, <3>3, SourcesParts DEF SoundP
  <2> QED
    BY <2>1, <2>2
<1> QED
  BY <1>1 DEF SoundP

\* A task has nothing in hand any more.
LEMMA DoneSound ==
    ASSUME Shape, RunsKept, SourcesSound, DOMAIN pending' = TriggerTasks,
           \A u \in TriggerTasks : pending'[u] = pending[u] \/ pending'[u] = NoEvent
    PROVE  SoundP'
<1>1. ASSUME NEW u \in TriggerTasks PROVE Sound(pending[u])' /\ (u # "flow" => pending'[u].source = 0)
  <2>1. CASE pending'[u] = NoEvent
    BY <2>1 DEF NoEvent, Sound
  <2>2. CASE pending'[u] = pending[u]
    <3>1. PICK x : x = pending[u]
      OBVIOUS
    <3>2. Sound(x)'
      BY <3>1, SourcesParts, SoundStays DEF SoundP
    <3> QED
      BY <2>2, <3>1, <3>2, SourcesParts DEF SoundP
  <2> QED
    BY <2>1, <2>2
<1> QED
  BY <1>1 DEF SoundP

\* Whatever names a completed run as its source names one that has ended.
LEMMA NextSources ==
    ASSUME Shape, SourcesSound, Next
    PROVE  SourcesSound'
<1>0. RunsKept /\ SoundC /\ SoundP /\ SoundE /\ Sound(event) /\ SoundR
  BY NextRunsKept, SourcesParts
<1>18. SoundC' /\ SoundP' /\ SoundE' /\ Sound(event)' /\ SoundR' => SourcesSound'
  BY DEF SourcesSound, SoundC, SoundP, SoundE, SoundR, EndedRun
<1>1. CASE runs' = runs /\ completions' = completions /\ events' = events /\ (event' = event \/ event' = NoEvent)
           /\ SoundP'
  BY <1>0, <1>1, SoundPlaces, <1>18 DEF SoundR
<1>2. ASSUME NEW t \in Crons, cron_tick(t) PROVE SourcesSound'
  <2>1. PICK k : Emit(t, Event("Main", k, NoVersion, 0))
    BY <1>2 DEF cron_tick
  <2>2. t \in TriggerTasks /\ Sound(Event("Main", k, NoVersion, 0))'
        /\ Event("Main", k, NoVersion, 0).source = 0
    BY DEF TriggerTasks, Sound, Event
  <2>3. SoundP'
    BY <1>0, <2>1, <2>2, EmitSound
  <2> QED
    BY <1>1, <1>2, <2>3 DEF cron_tick, dispatchVars
<1>3. CASE custom_fires
  <2>1. PICK v : Emit("custom", Event("Main", 0, v, 0))
    BY <1>3 DEF custom_fires
  <2>2. "custom" \in TriggerTasks /\ Sound(Event("Main", 0, v, 0))' /\ Event("Main", 0, v, 0).source = 0
    BY DEF TriggerTasks, Sound, Event
  <2>3. SoundP'
    BY <1>0, <2>1, <2>2, EmitSound
  <2> QED
    BY <1>1, <1>3, <2>3 DEF custom_fires, dispatchVars
<1>4. CASE flow_trigger_recv
  <2>1. completions \in Seq(Nat) /\ completions # <<>> /\ completions' = Tail(completions)
    BY <1>4 DEF flow_trigger_recv, Shape, TaskShape
  <2>2. /\ Head(completions) = completions[1] /\ 1 \in 1..Len(completions)
        /\ \A i \in 1..Len(completions') : i + 1 \in 1..Len(completions) /\ completions'[i] = completions[i + 1]
    BY <2>1, TailFacts
  <2>3. \A i \in 1..Len(completions') : EndedRun(completions'[i])
    BY <1>0, <2>2 DEF SoundC
  <2>4. SoundC' /\ runs' = runs
    BY <1>4, <2>3 DEF flow_trigger_recv, SoundC, EndedRun
  <2>5. PICK h : h = Head(completions)
    OBVIOUS
  <2>6. CASE matches(h)
    <3>1. Emit("flow", Event("Chained", 0, NoVersion, h)) /\ "flow" \in TriggerTasks
      BY <1>4, <2>5, <2>6 DEF flow_trigger_recv, TriggerTasks
    <3>2. Source(h)
      BY <1>0, <2>2, <2>5, <2>6 DEF SoundC, EndedRun, Source, matches
    <3>3. Sound(Event("Chained", 0, NoVersion, h))'
      BY <2>4, <3>2 DEF Sound, Source, Event
    <3>4. SoundP'
      BY <1>0, <3>1, <3>3, EmitSound
    <3> QED
      BY <1>0, <1>4, <2>4, <3>4, SoundPlaces, <1>18 DEF flow_trigger_recv, dispatchVars, SoundR
  <2>7. CASE ~matches(h)
    BY <1>0, <1>4, <2>4, <2>5, <2>7, SoundPlaces, <1>18 DEF flow_trigger_recv, dispatchVars, SoundR
  <2> QED
    BY <2>6, <2>7
<1>5. ASSUME NEW t \in TriggerTasks, send_event(t) PROVE SourcesSound'
  <2>1. pending[t] \in RealEvents /\ events \in Seq(RealEvents) /\ events' = Append(events, pending[t])
        /\ runs' = runs /\ DOMAIN pending = TriggerTasks
    BY <1>5 DEF send_event, Shape, TaskShape, DispatchShape
  <2>2. /\ Len(events') = Len(events) + 1 /\ events'[Len(events) + 1] = pending[t]
        /\ \A i \in 1..Len(events) : events'[i] = events[i]
        /\ \A i \in 1..(Len(events) + 1) : i = Len(events) + 1 \/ i \in 1..Len(events)
    BY <2>1, AppendFacts
  <2>3. \A i \in 1..Len(events') : Sound(events'[i])
    BY <1>0, <2>2 DEF SoundE, SoundP
  <2>4. SoundE'
    BY <2>1, <2>3 DEF SoundE, Sound, Source
  <2>5. SoundP'
    BY <1>0, <1>5, <2>1, DoneSound DEF send_event
  <2> QED
    BY <1>0, <1>5, <2>4, <2>5, SoundPlaces, <1>18 DEF send_event, dispatchVars, SoundR
<1>6. CASE dispatch_recv
  <2>1. events \in Seq(RealEvents) /\ events # <<>> /\ events' = Tail(events) /\ runs' = runs
    BY <1>6 DEF dispatch_recv, Shape, DispatchShape
  <2>2. /\ Head(events) = events[1] /\ 1 \in 1..Len(events)
        /\ \A i \in 1..Len(events') : i + 1 \in 1..Len(events) /\ events'[i] = events[i + 1]
    BY <2>1, TailFacts
  <2>3. \A i \in 1..Len(events') : Sound(events'[i])
    BY <1>0, <2>2 DEF SoundE
  <2>4. SoundE'
    BY <2>1, <2>3 DEF SoundE, Sound, Source
  <2>5. Sound(event)'
    <3>1. Sound(events[1])
      BY <1>0, <2>2 DEF SoundE
    <3>2. event' = event \/ event' = events[1]
      BY <1>6, <2>2 DEF dispatch_recv
    <3> QED
      BY <1>0, <2>1, <3>1, <3>2 DEF Sound, Source
  <2> QED
    BY <1>0, <1>6, <2>4, <2>5, SoundPlaces, <1>18 DEF dispatch_recv, taskVars, SoundR
<1>7. CASE dispatch_resolve
  <2>1. SoundP'
    BY <1>0, <1>7, SoundPlaces DEF dispatch_resolve, taskVars
  <2> QED
    BY <1>1, <1>7, <2>1 DEF dispatch_resolve, taskVars
<1>8. ASSUME NEW x \in Runs, runs' = Append(runs, x), Sound(x), UNCHANGED <<taskVars, events>>,
             event' = event \/ event' = NoEvent
      PROVE SourcesSound'
  <2>1. /\ Len(runs') = Len(runs) + 1 /\ runs'[Len(runs) + 1] = x
        /\ \A i \in 1..(Len(runs) + 1) : i = Len(runs) + 1 \/ i \in 1..Len(runs)
    BY <1>8, AppendFacts DEF Shape, DispatchShape
  <2>2. Sound(x)'
    BY <1>0, <1>8, SoundStays
  <2>3. SoundR'
    BY <1>0, <2>1, <2>2, SoundPlaces DEF SoundR
  <2> QED
    BY <1>0, <1>8, <2>3, SoundPlaces, <1>18 DEF taskVars
<1>9. CASE dispatch_execute
  <2>1. CASE runs' = runs
    <3>1. SoundP'
      BY <1>0, <1>9, SoundPlaces DEF dispatch_execute, taskVars
    <3> QED
      BY <1>1, <1>9, <2>1, <3>1, ExecuteStarts DEF dispatch_execute, taskVars
  <2>2. ASSUME NEW x \in Runs, runs' = Append(runs, x), x.flow = event.flow, x.source = event.source,
               event' = event
        PROVE SourcesSound'
    <3>1. Sound(x)
      BY <1>0, <2>2 DEF Sound
    <3> QED
      BY <1>8, <1>9, <2>2, <3>1 DEF dispatch_execute
  <2> QED
    BY <1>9, <2>1, <2>2, ExecuteStarts
<1>10. CASE api_execute
  <2>1. PICK x \in Runs : runs' = Append(runs, x) /\ x.flow = "Main" /\ x.source = 0
    BY <1>10, ApiStarts
  <2>2. Sound(x)
    BY <2>1 DEF Sound
  <2> QED
    BY <1>8, <1>10, <2>1, <2>2 DEF api_execute, dispatchVars
<1>11. ASSUME Len(runs') = Len(runs), UNCHANGED <<taskVars, events>>, event' = event \/ event' = NoEvent
       PROVE SourcesSound'
  BY <1>0, <1>11, SoundPlaces, <1>18 DEF SoundR, taskVars
<1>12. CASE dispatch_drops_handle
  BY <1>11, <1>12, RunsHeld DEF dispatch_drops_handle, Shape, DispatchShape
<1>13. ASSUME NEW r \in 1..Len(runs), api_cancel(r) PROVE SourcesSound'
  BY <1>11, <1>13, RunsHeld DEF api_cancel, Shape, DispatchShape, dispatchVars
<1>14. CASE shutdown_aborts_dispatch
  BY <1>11, <1>14, RunsHeld DEF shutdown_aborts_dispatch, Shape, DispatchShape
<1>15. ASSUME NEW r \in 1..Len(runs), run_ends(r) PROVE SourcesSound'
  <2>1. PICK st \in {"Running", "Completed", "Failed", "Cancelled"} :
           runs' = [runs EXCEPT ![r].status = st] /\ st # "Running"
    BY <1>15 DEF run_ends
  <2>2. Len(runs') = Len(runs) /\ runs'[r].status # "Running"
    BY <2>1, RunsEnded DEF Shape, DispatchShape
  <2>3. \A i \in 1..Len(completions') : completions'[i] = r \/ \E j \in 1..Len(completions) : completions'[i] = completions[j]
    <3>1. Len(completions) \in Nat
      BY DEF Shape, TaskShape
    <3> QED
      BY <1>15, <3>1, BroadcastFacts
  <2>4. EndedRun(r)'
    BY <2>2 DEF EndedRun
  <2>5. ASSUME NEW i \in 1..Len(completions') PROVE EndedRun(completions[i])'
    <3>1. CASE completions'[i] = r
      BY <2>4, <3>1 DEF EndedRun
    <3>2. ASSUME NEW j \in 1..Len(completions), completions'[i] = completions[j] PROVE EndedRun(completions[i])'
      <4>1. PICK x : x = completions[j]
        OBVIOUS
      <4>2. EndedRun(x)'
        BY <1>0, <4>1, EndedStays DEF SoundC
      <4> QED
        BY <3>2, <4>1, <4>2 DEF EndedRun
    <3> QED
      BY <2>3, <3>1, <3>2
  <2>6. SoundC'
    BY <2>5 DEF SoundC
  <2> QED
    BY <1>0, <1>15, <2>2, <2>6, SoundPlaces, <1>18 DEF run_ends, SoundR, dispatchVars
<1>16. CASE shutdown_aborts_triggers
  <2>1. SoundP'
    BY <1>0, <1>16, DoneSound DEF shutdown_aborts_triggers, Shape, TaskShape
  <2> QED
    BY <1>1, <1>16, <2>1 DEF shutdown_aborts_triggers, dispatchVars
<1>17. CASE \/ StoreNext /\ UNCHANGED <<clockVars, lifeVars, taskVars, events, dispatchVars, runs>>
            \/ triggers_stop \/ start_triggers \/ store_handles \/ shutdown_signal
  <2>1. UNCHANGED <<pending, completions, events, event, runs>>
    BY <1>17 DEF triggers_stop, start_triggers, store_handles, shutdown_signal, taskVars, dispatchVars
  <2>2. SoundP'
    BY <1>0, <2>1, SoundPlaces
  <2> QED
    BY <1>1, <2>1, <2>2
<1> QED
  BY <1>2, <1>3, <1>4, <1>5, <1>6, <1>7, <1>9, <1>10, <1>12, <1>13, <1>14, <1>15, <1>16, <1>17
  DEF Next, DispatchStep

-----------------------------------------------------------------------------
(* Chaining: a source is in one place *)

\* Uniqueness within a place and across places.
Places == UniqueC /\ UniqueE /\ UniqueR /\ \A s \in Nat \ {0} : OnePlace(s)

\* Sources leave places, and enter none.
LEMMA PlacesShrink ==
    ASSUME Places, UniqueC', UniqueE', UniqueR',
           \A s \in Nat \ {0} : /\ (InC(s)' => InC(s)) /\ (InP(s)' => InP(s)) /\ (InE(s)' => InE(s))
                                /\ (InV(s)' => InV(s)) /\ (InR(s)' => InR(s))
    PROVE  Places'
BY DEF Places, OnePlace

\* A place that is left alone holds what it held.
LEMMA PlacesStay ==
    ASSUME Places
    PROVE  /\ completions' = completions => UniqueC' /\ \A s : InC(s)' => InC(s)
           /\ pending'["flow"] = pending["flow"] => \A s : InP(s)' => InP(s)
           /\ events' = events => UniqueE' /\ \A s : InE(s)' => InE(s)
           /\ Len(runs') = Len(runs) /\ (\A i \in 1..Len(runs) : runs'[i].source = runs[i].source) =>
                 UniqueR' /\ \A s : InR(s)' => InR(s)
           /\ (dispatch' \in {"resolve", "execute"} => dispatch \in {"resolve", "execute"} /\ event' = event) =>
                 \A s : InV(s)' => InV(s)
BY DEF Places, UniqueC, UniqueE, UniqueR, InC, InP, InE, InR, InV

\* No source is in hand while the flow trigger waits, and none while the loop does.
LEMMA HandsEmpty ==
    ASSUME Shape, NEW s \in Nat \ {0}
    PROVE  /\ trigger["flow"] # "send" => ~InP(s)
           /\ dispatch \notin {"resolve", "execute"} => ~InV(s)
BY DEF Shape, TaskShape, TriggerTasks, InP, InV, NoEvent

\* A run that has not ended is in no place.
LEMMA RunningNowhere ==
    ASSUME Shape, SourcesSound, NEW r \in 1..Len(runs), runs[r].status = "Running"
    PROVE  ~InC(r) /\ ~InP(r) /\ ~InE(r) /\ ~InV(r) /\ ~InR(r)
<1>0. r # 0 /\ "flow" \in TriggerTasks
  BY DEF TriggerTasks
<1>1. ASSUME NEW x, Sound(x) PROVE x.source # r
  BY <1>0, <1>1 DEF Sound, Source
<1>2. ~InC(r)
  BY DEF SourcesSound, InC
<1>3. ~InP(r)
  BY <1>0, <1>1 DEF SourcesSound, InP
<1>4. ~InE(r)
  BY <1>1 DEF SourcesSound, InE
<1>5. ~InV(r)
  BY <1>1 DEF SourcesSound, InV
<1>6. ~InR(r)
  BY <1>1 DEF SourcesSound, InR
<1> QED
  BY <1>2, <1>3, <1>4, <1>5, <1>6

\* The flow trigger reads a completion: its source leaves the broadcast for the trigger's hand.
LEMMA RecvMoves ==
    ASSUME Shape, SourcesSound, Places, flow_trigger_recv
    PROVE  Places'
<1>1. completions \in Seq(Nat) /\ completions # <<>> /\ completions' = Tail(completions)
      /\ Len(completions) \in Nat
  BY DEF flow_trigger_recv, Shape, TaskShape
<1>2. /\ Head(completions) = completions[1] /\ 1 \in 1..Len(completions) /\ Head(completions) \in Nat
      /\ Len(completions') = Len(completions) - 1
      /\ \A i \in 1..Len(completions') : i + 1 \in 1..Len(completions) /\ completions'[i] = completions[i + 1]
  BY <1>1, TailFacts
<1>3. PICK h : h = Head(completions)
  OBVIOUS
<1>4. UniqueC'
  BY <1>1, <1>2 DEF Places, UniqueC
<1>5. \A s : InC(s)' => InC(s) /\ s # h
  BY <1>1, <1>2, <1>3 DEF Places, UniqueC, InC
<1>6. UniqueE' /\ UniqueR' /\ \A s : (InE(s)' => InE(s)) /\ (InR(s)' => InR(s)) /\ (InV(s)' => InV(s))
  BY PlacesStay DEF flow_trigger_recv, dispatchVars
<1>7. InC(h) /\ "flow" \in TriggerTasks
  BY <1>2, <1>3 DEF InC, TriggerTasks
<1>8. ASSUME NEW s \in Nat \ {0} PROVE ~InP(s) /\ (InP(s)' => s = h)
  <2>1. ~InP(s)
    BY HandsEmpty DEF flow_trigger_recv
  <2>2. CASE matches(h)
    BY <1>3, <1>7, <2>1, <2>2 DEF flow_trigger_recv, Emit, InP, Shape, TaskShape, Event
  <2>3. CASE ~matches(h)
    BY <1>3, <2>1, <2>3 DEF flow_trigger_recv, InP
  <2> QED
    BY <2>1, <2>2, <2>3
<1>9. ASSUME NEW s \in Nat \ {0} PROVE OnePlace(s)'
  BY <1>5, <1>6, <1>7, <1>8 DEF Places, OnePlace
<1> QED
  BY <1>4, <1>6, <1>9 DEF Places

\* A trigger task sends: the source in its hand goes into the channel.
LEMMA SendMoves ==
    ASSUME Shape, SourcesSound, Places, NEW t \in TriggerTasks, send_event(t)
    PROVE  Places'
<1>1. pending[t] \in RealEvents /\ events \in Seq(RealEvents) /\ events' = Append(events, pending[t])
      /\ DOMAIN pending = TriggerTasks /\ "flow" \in TriggerTasks
  BY DEF send_event, Shape, TaskShape, DispatchShape, TriggerTasks
<1>2. /\ Len(events') = Len(events) + 1 /\ events'[Len(events) + 1] = pending[t] /\ Len(events) \in Nat
      /\ \A i \in 1..Len(events) : events'[i] = events[i]
      /\ \A i \in 1..(Len(events) + 1) : i = Len(events) + 1 \/ i \in 1..Len(events)
  BY <1>1, AppendFacts
<1>3. PICK h : h = pending[t].source
  OBVIOUS
<1>4. h \in Nat /\ (h # 0 => t = "flow" /\ InP(h))
  BY <1>1, <1>3 DEF RealEvents, SourcesSound, InP
<1>5. h # 0 => ~InE(h)
  BY <1>4 DEF Places, OnePlace
<1>6. UniqueE'
  <2>1. ASSUME NEW i \in 1..Len(events'), NEW j \in 1..Len(events'),
               events'[i].source = events'[j].source, events'[i].source # 0
        PROVE i = j
    BY <1>2, <1>3, <1>5, <2>1 DEF Places, UniqueE, InE
  <2> QED
    BY <2>1 DEF UniqueE
<1>7. \A s : InE(s)' => InE(s) \/ s = h
  BY <1>2, <1>3 DEF InE
<1>8. UniqueC' /\ UniqueR' /\ \A s : (InC(s)' => InC(s)) /\ (InR(s)' => InR(s)) /\ (InV(s)' => InV(s))
  BY PlacesStay DEF send_event, dispatchVars
<1>9. ASSUME NEW s \in Nat \ {0} PROVE InP(s)' => InP(s) /\ s # h
  <2>1. CASE t = "flow"
    BY <1>1, <2>1 DEF send_event, InP, NoEvent
  <2>2. CASE t # "flow"
    BY <1>1, <1>4, <2>2 DEF send_event, InP
  <2> QED
    BY <2>1, <2>2
<1>10. ASSUME NEW s \in Nat \ {0} PROVE OnePlace(s)'
  BY <1>4, <1>7, <1>8, <1>9 DEF Places, OnePlace
<1> QED
  BY <1>6, <1>8, <1>10 DEF Places

\* The dispatch loop takes an event: its source leaves the channel for the loop's hand.
LEMMA TakeMoves ==
    ASSUME Shape, SourcesSound, Places, dispatch_recv
    PROVE  Places'
<1>1. events \in Seq(RealEvents) /\ events # <<>> /\ events' = Tail(events) /\ Len(events) \in Nat
  BY DEF dispatch_recv, Shape, DispatchShape
<1>2. /\ Head(events) = events[1] /\ 1 \in 1..Len(events)
      /\ Len(events') = Len(events) - 1
      /\ \A i \in 1..Len(events') : i + 1 \in 1..Len(events) /\ events'[i] = events[i + 1]
  BY <1>1, TailFacts
<1>3. PICK h : h = events[1].source
  OBVIOUS
<1>4. UniqueE'
  BY <1>1, <1>2 DEF Places, UniqueE
<1>5. \A s \in Nat \ {0} : InE(s)' => InE(s) /\ s # h
  BY <1>1, <1>2, <1>3 DEF Places, UniqueE, InE
<1>6. UniqueC' /\ UniqueR' /\ \A s : (InC(s)' => InC(s)) /\ (InR(s)' => InR(s)) /\ (InP(s)' => InP(s))
  BY PlacesStay DEF dispatch_recv, taskVars
<1>7. InE(h)
  BY <1>2, <1>3 DEF InE
<1>8. ASSUME NEW s \in Nat \ {0} PROVE ~InV(s) /\ (InV(s)' => s = h)
  BY <1>2, <1>3 DEF dispatch_recv, InV
<1>9. ASSUME NEW s \in Nat \ {0} PROVE OnePlace(s)'
  BY <1>5, <1>6, <1>7, <1>8 DEF Places, OnePlace
<1> QED
  BY <1>4, <1>6, <1>9 DEF Places

\* A run is started: the source in the loop's hand, if there is one, goes into the run.
LEMMA StartMoves ==
    ASSUME Shape, Places, NEW x \in Runs, runs' = Append(runs, x), UNCHANGED <<taskVars, events>>,
           \/ x.source = 0 /\ UNCHANGED <<dispatch, event>>
           \/ dispatch = "execute" /\ dispatch' = "handle" /\ x.source = event.source
    PROVE  Places'
<1>1. /\ Len(runs') = Len(runs) + 1 /\ runs'[Len(runs) + 1] = x /\ Len(runs) \in Nat
      /\ \A i \in 1..Len(runs) : runs'[i] = runs[i]
      /\ \A i \in 1..(Len(runs) + 1) : i = Len(runs) + 1 \/ i \in 1..Len(runs)
  BY AppendFacts DEF Shape, DispatchShape
<1>2. PICK h : h = x.source
  OBVIOUS
<1>3. h \in Nat /\ (h # 0 => InV(h))
  BY <1>2 DEF Runs, InV
<1>4. h # 0 => ~InR(h)
  BY <1>3 DEF Places, OnePlace
<1>5. UniqueR'
  <2>1. ASSUME NEW i \in 1..Len(runs'), NEW j \in 1..Len(runs'),
               runs'[i].source = runs'[j].source, runs'[i].source # 0
        PROVE i = j
    BY <1>1, <1>2, <1>4, <2>1 DEF Places, UniqueR, InR
  <2> QED
    BY <2>1 DEF UniqueR
<1>6. \A s : InR(s)' => InR(s) \/ s = h
  BY <1>1, <1>2 DEF InR
<1>7. UniqueC' /\ UniqueE' /\ \A s : (InC(s)' => InC(s)) /\ (InE(s)' => InE(s)) /\ (InP(s)' => InP(s))
  BY PlacesStay DEF taskVars
<1>8. ASSUME NEW s \in Nat \ {0} PROVE InV(s)' => InV(s) /\ s # h
  BY <1>2 DEF InV
<1>9. ASSUME NEW s \in Nat \ {0} PROVE OnePlace(s)'
  BY <1>3, <1>6, <1>7, <1>8 DEF Places, OnePlace
<1> QED
  BY <1>5, <1>7, <1>9 DEF Places

\* A run ends: it is a new source in the broadcast.
LEMMA EndMoves ==
    ASSUME Shape, SourcesSound, Places, NEW r \in 1..Len(runs), run_ends(r)
    PROVE  Places'
<1>1. ~InC(r) /\ ~InP(r) /\ ~InE(r) /\ ~InV(r) /\ ~InR(r)
  BY RunningNowhere DEF run_ends
<1>2. PICK st \in {"Running", "Completed", "Failed", "Cancelled"} : runs' = [runs EXCEPT ![r].status = st]
  BY DEF run_ends
<1>3. Len(runs') = Len(runs) /\ \A i \in 1..Len(runs) : runs'[i].source = runs[i].source
  BY <1>2, RunsEnded DEF Shape, DispatchShape
<1>4. UniqueE' /\ UniqueR' /\ \A s : /\ (InE(s)' => InE(s)) /\ (InR(s)' => InR(s))
                                     /\ (InV(s)' => InV(s)) /\ (InP(s)' => InP(s))
  BY <1>3, PlacesStay DEF run_ends, dispatchVars
<1>5. CASE completions' = completions
  BY <1>4, <1>5, PlacesStay, PlacesShrink
<1>6. ASSUME NEW d \in {0, 1},
             Len(completions') = Len(completions) + 1 - d, completions'[Len(completions) + 1 - d] = r,
             \A i \in 1..(Len(completions) - d) :
                 i + d \in 1..Len(completions) /\ completions'[i] = completions[i + d]
      PROVE Places'
  <2>1. Len(completions) \in Nat
    BY DEF Shape, TaskShape
  <2>2. \A i \in 1..Len(completions') : i = Len(completions) + 1 - d \/ i \in 1..(Len(completions) - d)
    BY <1>6, <2>1
  <2>3. \A i \in 1..Len(completions) : completions[i] # r
    BY <1>1 DEF InC
  <2>4. UniqueC'
    <3>1. ASSUME NEW i \in 1..Len(completions'), NEW j \in 1..Len(completions'), completions'[i] = completions'[j]
          PROVE i = j
      <4> DEFINE last == Len(completions) + 1 - d
      <4>1. \A k \in 1..Len(completions') :
               \/ k = last /\ completions'[k] = r
               \/ k # last /\ k + d \in 1..Len(completions) /\ completions'[k] = completions[k + d]
                  /\ completions'[k] # r
        BY <1>6, <2>1, <2>2, <2>3
      <4> HIDE DEF last
      <4>2. CASE i = last
        BY <3>1, <4>1, <4>2
      <4>3. CASE i # last
        <5>1. j # last
          BY <3>1, <4>1, <4>3
        <5>2. completions[i + d] = completions[j + d] /\ i + d \in 1..Len(completions)
              /\ j + d \in 1..Len(completions)
          BY <3>1, <4>1, <4>3, <5>1
        <5>3. i + d = j + d
          BY <5>2 DEF Places, UniqueC
        <5>4. i \in Nat /\ j \in Nat /\ d \in Nat
          BY <1>6
        <5> QED
          BY <5>3, <5>4
      <4> QED
        BY <4>2, <4>3
    <3> QED
      BY <3>1 DEF UniqueC
  <2>5. \A s : InC(s)' => InC(s) \/ s = r
    BY <1>6, <2>2 DEF InC
  <2>6. ASSUME NEW s \in Nat \ {0} PROVE OnePlace(s)'
    BY <1>1, <1>4, <2>5 DEF Places, OnePlace
  <2> QED
    BY <1>4, <2>4, <2>6 DEF Places
<1> QED
  BY <1>5, <1>6, BroadcastFacts

\* A completion is in one place only: broadcast, in the hands of the flow trigger, in the channel, in dispatch, or in the run it started.
LEMMA NextPlaces ==
    ASSUME Shape, SourcesSound, Places, Next
    PROVE  Places'
<1>0. "flow" \in TriggerTasks /\ DOMAIN pending = TriggerTasks
  BY DEF TriggerTasks, Shape, TaskShape
<1>1. ASSUME UNCHANGED <<completions, events>>, Len(runs') = Len(runs),
             \A i \in 1..Len(runs) : runs'[i].source = runs[i].source,
             dispatch' \in {"resolve", "execute"} => dispatch \in {"resolve", "execute"} /\ event' = event,
             \A s \in Nat \ {0} : InP(s)' => InP(s)
      PROVE Places'
  BY <1>1, PlacesStay, PlacesShrink
<1>2. ASSUME pending'["flow"] = pending["flow"] PROVE \A s \in Nat \ {0} : InP(s)' => InP(s)
  BY <1>2 DEF InP
<1>3. ASSUME NEW t \in TriggerTasks, NEW ev, Emit(t, ev), t # "flow" PROVE pending'["flow"] = pending["flow"]
  BY <1>0, <1>3 DEF Emit
<1>4. \A t \in Crons : t \in TriggerTasks /\ t # "flow"
  BY TriggerAssumption DEF TriggerTasks
<1>5. ASSUME NEW t \in Crons, cron_tick(t) PROVE Places'
  <2>1. pending'["flow"] = pending["flow"]
    BY <1>3, <1>4, <1>5 DEF cron_tick
  <2> QED
    BY <1>1, <1>2, <1>5, <2>1 DEF cron_tick, dispatchVars
<1>6. CASE custom_fires
  <2>1. pending'["flow"] = pending["flow"]
    BY <1>3, <1>6 DEF custom_fires, TriggerTasks
  <2> QED
    BY <1>1, <1>2, <1>6, <2>1 DEF custom_fires, dispatchVars
<1>7. CASE dispatch_resolve
  <2>1. pending' = pending
    BY <1>7 DEF dispatch_resolve, taskVars
  <2> QED
    BY <1>1, <1>2, <1>7, <2>1 DEF dispatch_resolve, taskVars, Continue
<1>8. CASE dispatch_execute
  <2>1. CASE dispatch' = "handle"
    <3>1. PICK x \in Runs : runs' = Append(runs, x) /\ x.source = event.source
      BY <1>8, <2>1, ExecuteStarts
    <3> QED
      BY <1>8, <2>1, <3>1, StartMoves DEF dispatch_execute
  <2>2. CASE dispatch' # "handle"
    <3>1. pending' = pending /\ runs' = runs /\ dispatch' = "recv" /\ UNCHANGED <<completions, events>>
      BY <1>8, <2>2 DEF dispatch_execute, taskVars
    <3> QED
      BY <1>1, <1>2, <3>1
  <2> QED
    BY <2>1, <2>2
<1>9. CASE api_execute
  <2>1. PICK x \in Runs : runs' = Append(runs, x) /\ x.source = 0
    BY <1>9, ApiStarts
  <2> QED
    BY <1>9, <2>1, StartMoves DEF api_execute, dispatchVars
<1>10. CASE dispatch_drops_handle
  BY <1>1, <1>2, <1>10, RunsHeld DEF dispatch_drops_handle, taskVars, Shape, DispatchShape
<1>11. ASSUME NEW r \in 1..Len(runs), api_cancel(r) PROVE Places'
  BY <1>1, <1>2, <1>11, RunsHeld DEF api_cancel, taskVars, dispatchVars, Shape, DispatchShape
<1>12. CASE shutdown_aborts_dispatch
  BY <1>1, <1>2, <1>12, RunsHeld DEF shutdown_aborts_dispatch, taskVars, Shape, DispatchShape
<1>13. CASE shutdown_aborts_triggers
  <2>1. \A s \in Nat \ {0} : InP(s)' => InP(s)
    BY <1>0, <1>13 DEF shutdown_aborts_triggers, InP, NoEvent
  <2> QED
    BY <1>1, <1>13, <2>1 DEF shutdown_aborts_triggers, dispatchVars
<1>14. CASE start_triggers
  <2>1. dispatch' = "recv" /\ UNCHANGED <<pending, completions, events, runs>>
    BY <1>14 DEF start_triggers
  <2> QED
    BY <1>1, <1>2, <2>1
<1>15. CASE \/ StoreNext /\ UNCHANGED <<clockVars, lifeVars, taskVars, events, dispatchVars, runs>>
            \/ triggers_stop \/ store_handles \/ shutdown_signal
  <2>1. UNCHANGED <<pending, completions, events, dispatch, event, runs>>
    BY <1>15 DEF triggers_stop, store_handles, shutdown_signal, taskVars, dispatchVars
  <2> QED
    BY <1>1, <1>2, <2>1
<1> QED
  BY <1>5, <1>6, <1>7, <1>8, <1>9, <1>10, <1>11, <1>12, <1>13, <1>14, <1>15,
     RecvMoves, SendMoves, TakeMoves, EndMoves DEF Next, DispatchStep

-----------------------------------------------------------------------------
(* All of it *)

TriggersInv == Shape /\ LifeInv /\ KeysInv /\ ChainInv

\* The invariant holds at the start.
LEMMA InitTriggersInv == Init => TriggersInv
  BY InitShape, InitLife, InitKeys, InitChain DEF TriggersInv

\* Every step keeps it.
LEMMA NextTriggersInv == TriggersInv /\ [Next]_vars => TriggersInv'
<1> SUFFICES ASSUME TriggersInv, [Next]_vars PROVE TriggersInv'
  OBVIOUS
<1>1. CASE Next
  <2>1. Shape /\ LifeInv /\ KeysInv /\ SourcesSound /\ Places
    BY DEF TriggersInv, ChainInv, Places
  <2>2. Shape'
    <3>1. CASE StoreNext /\ UNCHANGED <<clockVars, lifeVars, taskVars, events, dispatchVars, runs>>
      <4>1. StoreShape'
        BY <2>1, <3>1, SaveKeepsShape DEF StoreNext, Shape
      <4> QED
        BY <2>1, <3>1, <4>1 DEF Shape, TaskShape, DispatchShape, clockVars, taskVars, dispatchVars
    <3> QED
      BY <1>1, <2>1, <3>1, TasksKeepShape, DispatchKeepsShape, RunsKeepShape, LifeKeepsShape
      DEF Next, DispatchStep
  <2>3. LifeInv' /\ KeysInv' /\ SourcesSound' /\ Places'
    BY <1>1, <2>1, NextLife, NextKeys, NextSources, NextPlaces
  <2> QED
    BY <2>2, <2>3 DEF TriggersInv, ChainInv, Places
<1>2. CASE UNCHANGED vars
  BY <1>2 DEF vars, TriggersInv, Shape, StoreShape, SaverShape, TaskShape, DispatchShape, LifeInv, KeysInv,
              OncePerKey, ChainInv, SourcesSound, Sound, Source, UniqueC, UniqueE, UniqueR, OnePlace,
              InC, InP, InE, InV, InR, storeVars, clockVars, lifeVars, taskVars, dispatchVars
<1> QED
  BY <1>1, <1>2

\* It says what StartsOnce says.
LEMMA TriggersInvStartsOnce == TriggersInv => StartsOnce
<1> SUFFICES ASSUME TriggersInv PROVE StartsOnce
  OBVIOUS
<1>1. TypeOK
  <2>1. ASSUME NEW r \in 1..Len(runs) PROVE runs[r].version \in Graphs \cup {NoVersion}
    <3>1. runs[r] \in Runs
      BY DEF TriggersInv, Shape, DispatchShape
    <3> QED
      BY <3>1 DEF Runs
  <2> QED
    BY <2>1 DEF TriggersInv, Shape, TaskShape, DispatchShape, TypeOK
<1>2. OncePerKey
  BY DEF TriggersInv, KeysInv
<1>3. ChainOnce
  <2>1. ASSUME NEW r \in 1..Len(runs), runs[r].flow = "Chained"
        PROVE  /\ Source(runs[r].source) /\ runs[r].source # 0
               /\ \A s \in 1..Len(runs) : s # r => runs[s].source # runs[r].source
    <3>1. Source(runs[r].source)
      BY <2>1 DEF TriggersInv, ChainInv, SourcesSound, Sound
    <3>2. runs[r].source # 0
      BY <3>1 DEF Source
    <3> QED
      BY <3>1, <3>2 DEF TriggersInv, ChainInv, UniqueR
  <2> QED
    BY <2>1 DEF ChainOnce, Source
<1>4. QuietAfterShutdown
  BY DEF TriggersInv, LifeInv, QuietAfterShutdown
<1> QED
  BY <1>1, <1>2, <1>3, <1>4 DEF StartsOnce

\* start_triggers and its dispatch loop, for every set of cron triggers and every channel
\* capacity: at most one run per idempotency key, exactly one source per chained run and
\* at most one chained run per source although the broadcast may lag, and no task left
\* after an orderly shutdown.
THEOREM RunsStartOnce == Spec => []StartsOnce
BY InitTriggersInv, NextTriggersInv, TriggersInvStartsOnce, PTL DEF Spec

\* FlowVersioning::get_current, as the dispatch loop uses it while clients save: the head
\* names a stored version in every state of the trigger system too.
THEOREM HeadResolvesForTriggers == Spec => []HeadResolves
<1>1. Init => StoreInv
  BY InitStoreInv DEF Init
<1>2. StoreInv /\ [Next]_vars => StoreInv'
  <2> SUFFICES ASSUME StoreInv, [Next]_vars PROVE StoreInv'
    OBVIOUS
  <2>1. CASE UNCHANGED storeVars
    BY <2>1 DEF storeVars, StoreInv, SaverShape, StoredFirst, HeadResolves
  <2>2. CASE StoreNext
    BY <2>2, SaveKeepsStoreInv DEF StoreNext
  <2>3. StoreNext \/ UNCHANGED storeVars
    BY DEF Next, vars, DispatchStep, cron_tick, send_event, custom_fires, flow_trigger_recv,
           triggers_stop, dispatch_recv, dispatch_resolve, dispatch_execute, dispatch_drops_handle,
           api_execute, api_cancel, run_ends, start_triggers, store_handles, shutdown_signal,
           shutdown_aborts_triggers, shutdown_aborts_dispatch
  <2> QED
    BY <2>1, <2>2, <2>3
<1>3. StoreInv => HeadResolves
  BY DEF StoreInv
<1> QED
  BY <1>1, <1>2, <1>3, PTL DEF Spec
=============================================================================
