------------------------------- MODULE Bindings -------------------------------
(***************************************************************************)
(* One observed session as an application sees it: the ObserverSession or  *)
(* AdapterSession (cleargate-flow-engine/src/observer, cleargate-adapters) *)
(* behind the object a language binding wraps it in.                       *)
(*                                                                         *)
(*   rust    the crates used directly: finish takes the session by value,  *)
(*           so the borrow checker keeps it apart from every other call    *)
(*   node    one thread calls into the addon                               *)
(*   python  several threads; the GIL is released around block_on          *)
(*   dotnet  several threads, a table of wrappers behind a mutex that is   *)
(*           released around block_on                                      *)
(*                                                                         *)
(* The three bindings take a raw pointer to the session under the lock and *)
(* use it after releasing the lock; finish moves the session out of the    *)
(* wrapper.  Using the pointer after that is undefined behaviour: ub is    *)
(* set, and nothing is said about what the program does from there on.     *)
(*                                                                         *)
(* The write pipeline itself is the module WritePipeline.  What a session  *)
(* meets of it: critical events are delivered in order, an advisory event  *)
(* or the RunCompleted of a drop is refused by a full channel, and finish  *)
(* waits for the last flush, both calls of which can fail.                 *)
(***************************************************************************)
EXTENDS FrameworkAdapters

CONSTANTS Hosts,        \* hosts to consider: a subset of AllHosts
          Sources,      \* kinds of session: "observer" or a framework
          Threads,      \* application threads
          StatusStrings, \* what the application passes to finish
          MaxCalls,     \* LLM and tool calls the application makes
          MaxExtras     \* further callbacks and steps it reports

AllHosts == {"rust", "node", "python", "dotnet"}
ASSUME BindingsAssumption ==
  /\ Hosts \subseteq AllHosts
  /\ Sources \subseteq Frameworks \cup {"observer"}
  /\ MaxCalls \in Nat /\ MaxExtras \in Nat
  /\ 1..MaxCalls \subseteq Ids

VARIABLES host, source,
          slot,         \* the wrapper's Option: "absent", "some", "none", "removed"
          finished,     \* the AtomicBool of the Node and Python wrappers
          pending,      \* pending_llm_starts and pending_tool_starts
          seen_edges, seen_nodes, topology_set,
          log,          \* the events handed to the session's write pipeline
          stored,       \* the flush loop has written all of them
          lost,         \* "hint": a full channel refused a topology hint;
                        \* "tail": the store failed both calls of the last flush
          pc, raw, ev,  \* per thread: where it is, its callback, the event in hand
          calls,        \* the application's calls and how far each has come
          extras,       \* callbacks still allowed
          ub            \* a pointer was used after its session was taken

ThreadSymmetry == Permutations(Threads)
session == <<slot, finished, pending, seen_edges, seen_nodes, topology_set, log, stored,
             lost>>
app == <<calls, extras>>
vars == <<host, source, session, pc, raw, ev, app, ub>>

Nobody == [cb |-> "none", id |-> Missing, no |-> 0]
NoEvent == [type |-> "none"]
Numbers == 1..MaxCalls

Init ==
  /\ host \in Hosts /\ source \in Sources
  /\ slot = "absent" /\ finished = FALSE
  /\ pending = [k \in {"llm", "tool"} |-> [n \in Keys |-> NoEvent]]
  /\ seen_edges = <<>> /\ seen_nodes = {} /\ topology_set = FALSE
  /\ log = <<>> /\ stored = TRUE /\ lost = {}
  /\ pc = [t \in Threads |-> "idle"]
  /\ raw = [t \in Threads |-> Nobody]
  /\ ev = [t \in Threads |-> NoEvent]
  /\ calls = <<>> /\ extras = 0
  /\ ub = FALSE

-----------------------------------------------------------------------------
\* Thread t may enter a call: in Node there is one thread.
Idle(t) == pc[t] = "idle" /\ (host = "node" => \A u \in Threads : pc[u] = "idle")
Alone(t) == \A u \in Threads \ {t} : pc[u] = "idle"

\* Thread t's call is over; the application learns the result.
Return(t, result) ==
  /\ pc' = [pc EXCEPT ![t] = "idle"]
  /\ raw' = [raw EXCEPT ![t] = Nobody]
  /\ ev' = [ev EXCEPT ![t] = NoEvent]
  /\ calls' = IF raw[t].no = 0 THEN calls
              ELSE [calls EXCEPT ![raw[t].no].phase =
                      CASE @ = "starting" -> "open"
                        [] @ = "ending" -> IF result = "ok" THEN "recorded" ELSE "refused"]
  /\ UNCHANGED <<host, source, extras>>

Goto(t, label) == pc' = [pc EXCEPT ![t] = label]

(***************************************************************************)
(* The application: calls of the framework it observes, and what it says   *)
(* about each.                                                             *)
(***************************************************************************)
StartCallback(kind) ==
  IF source = "semantic_kernel" /\ kind = "tool" THEN "function_invoking"
  ELSE IF kind = "llm" THEN "on_llm_start" ELSE "on_tool_start"
EndCallback(kind) ==
  IF source = "semantic_kernel" /\ kind = "tool" THEN "function_invoked"
  ELSE IF kind = "llm" THEN "on_llm_end" ELSE "on_tool_end"
CallKinds == IF source = "langgraph" THEN {"llm"} ELSE {"llm", "tool"}
ExtraCallbacks ==
  CASE source = "langchain"       -> {"on_chain_start", "on_chain_end", "on_retry"}
    [] source = "langgraph"       -> {"node_start", "node_end", "edge", "state_update"}
    [] source = "semantic_kernel" -> {"prompt_rendering", "prompt_rendered"}

\* LangChain gives every call its own run id; the others name a node or a function.
IdsFor(no) ==
  IF source = "langchain" THEN {no, Missing} ELSE {1, Missing}

\* The name of the tool: LangChain sends it with the start of a call only.
ToolName(id) == IF source = "langchain" THEN 1 ELSE id

Enter(t, callback) ==
  /\ Idle(t) /\ slot # "absent"
  /\ (host = "rust" => slot = "some")
  /\ raw' = [raw EXCEPT ![t] = callback]
  /\ Goto(t, IF host = "python" /\ source # "observer" THEN "entered" ELSE "checked")
  /\ UNCHANGED <<host, source, session, ev, ub>>

\* A callback of the framework: a call starts, a call ends, or something else happens.
Callback(t) ==
  \/ /\ Len(calls) < MaxCalls
     /\ \E kind \in CallKinds, id \in IdsFor(Len(calls) + 1) :
          /\ Enter(t, [cb |-> StartCallback(kind), id |-> id, tool |-> ToolName(id),
                       no |-> Len(calls) + 1])
          /\ calls' = Append(calls, [kind |-> kind, id |-> id, phase |-> "starting"])
     /\ UNCHANGED extras
  \/ /\ \E no \in DOMAIN calls :
          /\ calls[no].phase = "open"
          /\ Enter(t, [cb |-> EndCallback(calls[no].kind), id |-> calls[no].id,
                       tool |-> IF source = "langchain" THEN Missing ELSE calls[no].id,
                       no |-> no])
          /\ calls' = [calls EXCEPT ![no].phase = "ending"]
     /\ UNCHANGED extras
  \/ /\ extras < MaxExtras /\ extras' = extras + 1
     /\ \E cb \in ExtraCallbacks : Enter(t, [cb |-> cb, id |-> 1, to |-> Missing, no |-> 0])
     /\ UNCHANGED calls

\* An observer reports a whole call, or a step, at once.
Observe(t, kind) ==
  \E id \in IdsFor(0) :
     \/ /\ kind # "step" /\ Len(calls) < MaxCalls
        /\ Enter(t, [cb |-> IF kind = "llm" THEN "record_llm" ELSE "record_tool", id |-> id,
                     no |-> Len(calls) + 1])
        /\ calls' = Append(calls, [kind |-> kind, id |-> id, phase |-> "ending"])
        /\ UNCHANGED extras
     \/ /\ kind = "step" /\ extras < MaxExtras /\ extras' = extras + 1
        /\ Enter(t, [cb |-> "record_step", id |-> id, no |-> 0])
        /\ UNCHANGED calls

(***************************************************************************)
(* A session starts and its wrapper is created.  When the store is         *)
(* unreachable or the framework unknown there is no wrapper.               *)
(***************************************************************************)
Open(t) ==
  /\ Idle(t) /\ slot = "absent"
  /\ slot' = "some" /\ log' = <<[type |-> "started"]>> /\ stored' = FALSE
  /\ UNCHANGED <<host, source, finished, pending, seen_edges, seen_nodes, topology_set,
                 lost, pc, raw, ev, app, ub>>

(***************************************************************************)
(* on_event and the record_* calls of the wrappers.  Python's on_event     *)
(* tests the flag and then runs json.dumps, during which the GIL can       *)
(* change hands; a payload that is not JSON is refused.                    *)
(***************************************************************************)
CheckFinished(t) ==
  /\ pc[t] = "entered"
  /\ \/ /\ ~finished
        /\ Goto(t, "checked")
        /\ UNCHANGED <<host, source, session, raw, ev, app, ub>>
     \/ Return(t, "err") /\ UNCHANGED <<session, ub>>

\* Defect: the pointer is taken without looking.
Live_unchecked == TRUE

\* The wrapper still has its session and, where it has a flag, the flag is clear.
session_ptr == ~finished /\ slot = "some"
get_session == ~finished /\ slot = "some"
Live ==
  CASE host = "python" -> session_ptr
    [] host = "node"   -> get_session
    [] OTHER           -> slot = "some"

\* The wrapper takes a pointer to its session and lets go of the lock.
Borrow(t) ==
  /\ pc[t] = "checked"
  /\ \/ /\ Live
        /\ Goto(t, "borrowed")
        /\ UNCHANGED <<host, source, session, raw, ev, app, ub>>
     \/ Return(t, "err") /\ UNCHANGED <<session, ub>>

\* What the pointer of a borrowed session points to is no longer the session.
Dangling == slot # "some"
Use == ub' = Dangling

-----------------------------------------------------------------------------
(***************************************************************************)
(* AdapterSession::on_event and handle_event, and the direct recording     *)
(* calls of an ObserverSession.                                            *)
(***************************************************************************)
Observed(callback) ==
  CASE callback.cb = "record_llm"  -> <<[type |-> "llm_whole", key |-> Name(callback.id), no |-> callback.no]>>
    [] callback.cb = "record_tool" -> <<[type |-> "tool_whole", key |-> Name(callback.id), no |-> callback.no]>>
    [] callback.cb = "record_step" -> <<StepStart(Name(callback.id), callback.no)>>

Translated(t) ==
  IF source = "observer" THEN Observed(raw[t]) ELSE translate(source, raw[t])

KindOf(e) == IF e.type \in {"llm_start", "llm_end", "llm_whole"} THEN "llm" ELSE "tool"

\* Defect: every start is parked under one key.
park_shared(e) == pending' = [pending EXCEPT ![KindOf(e)][Name(Missing)] = e]

\* A start is parked under the event's key, over whatever is parked there.
park(e) == pending' = [pending EXCEPT ![KindOf(e)][e.key] = e]

\* An end takes the parked start and becomes a complete invocation; without one the
\* request is empty and a tool has the name the end gives it.
unpark(t, e) ==
  LET parked == pending[KindOf(e)][e.key]
      found == parked # NoEvent IN
  /\ pending' = [pending EXCEPT ![KindOf(e)][e.key] = NoEvent]
  /\ ev' = [ev EXCEPT ![t] =
       [type |-> KindOf(e),
        node |-> IF KindOf(e) = "llm" THEN e.key ELSE IF found THEN parked.tool ELSE e.tool,
        req |-> IF found THEN parked.no ELSE 0, resp |-> e.no]]

handle_start(t, e) ==
  /\ e.type \in {"llm_start", "tool_start"}
  /\ park(e)
  /\ Return(t, "ok")
  /\ UNCHANGED <<slot, finished, seen_edges, seen_nodes, topology_set, log, stored, lost>>

\* Defect: an end without a start is dropped.
handle_end_unmatched(t, e) ==
  /\ e.type \in {"llm_end", "tool_end"}
  /\ IF pending[KindOf(e)][e.key] = NoEvent THEN Return(t, "ok") /\ UNCHANGED session
     ELSE /\ unpark(t, e)
          /\ Goto(t, "recording")
          /\ UNCHANGED <<host, source, slot, finished, seen_edges, seen_nodes, topology_set, log,
                         stored, lost, raw, app>>

handle_end(t, e) ==
  /\ e.type \in {"llm_end", "tool_end"}
  /\ unpark(t, e)
  /\ Goto(t, "recording")
  /\ UNCHANGED <<host, source, slot, finished, seen_edges, seen_nodes, topology_set, log, stored,
                 lost, raw, app>>

handle_transition(t, e) ==
  /\ e.type = "transition"
  /\ seen_edges' = Append(seen_edges, <<e.from, e.to>>)
  /\ Return(t, "ok")
  /\ UNCHANGED <<slot, finished, pending, seen_nodes, topology_set, log, stored, lost>>

handle_step(t, e) ==
  /\ e.type = "step"
  /\ ev' = [ev EXCEPT ![t] = [type |-> "step", node |-> e.name, req |-> e.no, resp |-> e.no]]
  /\ Goto(t, "recording")
  /\ UNCHANGED <<host, source, session, raw, app>>

handle_whole(t, e) ==
  /\ e.type \in {"llm_whole", "tool_whole"}
  /\ ev' = [ev EXCEPT ![t] = [type |-> KindOf(e), node |-> e.key, req |-> e.no, resp |-> e.no]]
  /\ Goto(t, "recording")
  /\ UNCHANGED <<host, source, session, raw, app>>

handle_event(t) ==
  /\ pc[t] = "borrowed"
  /\ Use
  /\ IF Translated(t) = <<>> THEN Return(t, "ok") /\ UNCHANGED session
     ELSE LET e == Translated(t)[1] IN
          \/ handle_start(t, e) \/ handle_end(t, e) \/ handle_transition(t, e)
          \/ handle_step(t, e) \/ handle_whole(t, e)

\* ObserverSession::record_*: the node is tracked, then the event is written.
record(t) ==
  /\ pc[t] = "recording"
  /\ Use
  /\ seen_nodes' = seen_nodes \cup {ev[t].node}
  /\ log' = Append(log, ev[t]) /\ stored' = FALSE
  /\ Return(t, "ok")
  /\ UNCHANGED <<slot, finished, pending, seen_edges, topology_set, lost>>

\* A hint goes through the advisory channel, which refuses it when it is full.
record_advisory(hint) ==
  \/ log' = Append(log, hint) /\ stored' = FALSE /\ lost' = lost
  \/ log' = log /\ stored' = stored /\ lost' = lost \cup {"hint"}

\* ObserverSession::set_flow_topology, which only the Rust interface offers: the flag is
\* set first, so a hint that is refused is not made up for at the end.
set_flow_topology(t) ==
  /\ Idle(t) /\ host = "rust" /\ source = "observer" /\ slot = "some"
  /\ extras < MaxExtras /\ extras' = extras + 1
  /\ topology_set' = TRUE
  /\ record_advisory(edge_topology(<<<<Name(1), Name(Missing)>>>>))
  /\ UNCHANGED <<host, source, slot, finished, pending, seen_edges, seen_nodes, pc, raw, ev,
                 calls, ub>>

-----------------------------------------------------------------------------
(***************************************************************************)
(* finish.  The flag is stored and the session moved out of the wrapper in *)
(* one go (under the GIL, on the only thread, or under the table's lock);  *)
(* the rest works on the moved session.                                    *)
(***************************************************************************)
status_from_str(s) ==
  CASE s = "failed" -> "failed" [] s = "cancelled" -> "cancelled" [] OTHER -> "completed"

Take(t, status) ==
  /\ slot' = "none"
  /\ finished' = (host \in {"node", "python"})
  /\ ev' = [ev EXCEPT ![t] = [type |-> "completed", status |-> status]]
  /\ Goto(t, "taken")
  /\ UNCHANGED <<host, source, pending, seen_edges, seen_nodes, topology_set, log, stored, lost,
                 raw, app, ub>>

Finish(t, s) ==
  /\ Idle(t) /\ slot # "absent"
  /\ (host = "rust" => Alone(t) /\ slot = "some")
  /\ \/ slot = "some" /\ Take(t, status_from_str(s))
     \/ slot # "some" /\ Return(t, "err") /\ UNCHANGED <<session, ub>>

\* AdapterSession::finish hands over the transitions; ObserverSession::finish
\* infers a chain when nobody set a topology.  Neither looks at the result.
finish_topology(t) ==
  /\ pc[t] = "taken"
  /\ seen_edges' = <<>>
  /\ topology_set' = (topology_set \/ seen_edges # <<>>)
  /\ \/ seen_edges # <<>> /\ record_advisory(edge_topology(seen_edges))
     \/ ~topology_set' /\ seen_nodes # {} /\ record_advisory(inferred_topology(seen_nodes))
     \/ seen_edges = <<>> /\ (topology_set \/ seen_nodes = {}) /\ UNCHANGED <<log, stored, lost>>
  /\ Goto(t, "closing")
  /\ UNCHANGED <<host, source, slot, finished, pending, seen_nodes, raw, ev, app, ub>>

\* The last flush: write_batch, and once more when it fails; then the batch is given up.
last_flush(first, again) ==
  /\ stored' = (first \/ again)
  /\ lost' = IF first \/ again THEN lost ELSE lost \cup {"tail"}

\* ExecutionSession::finish writes RunCompleted and returns Ok once the pipeline has shut
\* down, whatever the store said.
finish_inner(t) ==
  /\ pc[t] = "closing"
  /\ log' = Append(log, ev[t])
  /\ \E first, again \in BOOLEAN : last_flush(first, again)
  /\ Return(t, "ok")
  /\ UNCHANGED <<slot, finished, pending, seen_edges, seen_nodes, topology_set, ub>>

\* The wrapper goes away: a session that was never finished tries to write a failed
\* RunCompleted as it is dropped, which a full channel refuses.
Drop(t) ==
  /\ Idle(t) /\ slot \in {"some", "none"}
  /\ (host # "dotnet" => Alone(t))
  /\ slot' = "removed"
  /\ \/ /\ slot = "some" /\ stored' = FALSE
        /\ log' = Append(log, [type |-> "completed", status |-> "failed"])
     \/ UNCHANGED <<log, stored>>
  /\ UNCHANGED <<host, source, finished, pending, seen_edges, seen_nodes, topology_set, lost,
                 pc, raw, ev, app, ub>>

\* The flush loop writes what it has buffered, until the last flush.
flush ==
  /\ ~stored /\ "tail" \notin lost
  /\ stored' = TRUE
  /\ UNCHANGED <<host, source, slot, finished, pending, seen_edges, seen_nodes, topology_set,
                 log, lost, pc, raw, ev, app, ub>>

-----------------------------------------------------------------------------
(***************************************************************************)
(* The interfaces.  The Rust types:                                        *)
(***************************************************************************)
IsObserver == source = "observer"
ObserverSession_start(t) == host = "rust" /\ IsObserver /\ Open(t)
ObserverSession_record(t) ==
  host = "rust" /\ IsObserver /\ \E kind \in {"llm", "tool", "step"} : Observe(t, kind)
ObserverSession_finish(t) ==
  host = "rust" /\ IsObserver /\ \E s \in StatusStrings : Finish(t, s)
AdapterSession_start(t) == host = "rust" /\ ~IsObserver /\ Open(t)
AdapterSession_on_event(t) == host = "rust" /\ ~IsObserver /\ Callback(t)
AdapterSession_finish(t) ==
  host = "rust" /\ ~IsObserver /\ \E s \in StatusStrings : Finish(t, s)
Session_drop(t) == host \in {"rust", "python", "node"} /\ Alone(t) /\ Drop(t)

\* The C functions behind the .NET package.
cleargate_observer_start(t) == host = "dotnet" /\ IsObserver /\ Open(t)
cleargate_observer_record_llm_call(t) == host = "dotnet" /\ IsObserver /\ Observe(t, "llm")
cleargate_observer_record_tool_call(t) == host = "dotnet" /\ IsObserver /\ Observe(t, "tool")
cleargate_observer_record_step(t) == host = "dotnet" /\ IsObserver /\ Observe(t, "step")
cleargate_observer_finish(t) ==
  host = "dotnet" /\ IsObserver /\ \E s \in StatusStrings : Finish(t, s)
cleargate_observer_destroy(t) == host = "dotnet" /\ IsObserver /\ Drop(t)
cleargate_adapter_start(t) == host = "dotnet" /\ ~IsObserver /\ Open(t)
cleargate_adapter_on_event(t) == host = "dotnet" /\ ~IsObserver /\ Callback(t)
cleargate_adapter_finish(t) ==
  host = "dotnet" /\ ~IsObserver /\ \E s \in StatusStrings : Finish(t, s)
cleargate_adapter_destroy(t) == host = "dotnet" /\ ~IsObserver /\ Drop(t)

\* The Python classes.  Leaving a with block finishes the session, as failed if an
\* exception is under way.
PyObserver_start(t) == host = "python" /\ IsObserver /\ Open(t)
PyObserver_record_llm_call(t) == host = "python" /\ IsObserver /\ Observe(t, "llm")
PyObserver_record_tool_call(t) == host = "python" /\ IsObserver /\ Observe(t, "tool")
PyObserver_record_step(t) == host = "python" /\ IsObserver /\ Observe(t, "step")
PyObserver_finish(t) ==
  host = "python" /\ IsObserver /\ \E s \in StatusStrings : Finish(t, s)
PyObserver_exit(t) ==
  host = "python" /\ IsObserver /\ \E s \in {"failed", "completed"} : Finish(t, s)
PyAdapter_start(t) == host = "python" /\ ~IsObserver /\ Open(t)
PyAdapter_on_event(t) == host = "python" /\ ~IsObserver /\ Callback(t)
PyAdapter_finish(t) ==
  host = "python" /\ ~IsObserver /\ \E s \in StatusStrings : Finish(t, s)
PyAdapter_exit(t) ==
  host = "python" /\ ~IsObserver /\ \E s \in {"failed", "completed"} : Finish(t, s)

\* The Node classes.
NapiObserver_start(t) == host = "node" /\ IsObserver /\ Open(t)
NapiObserver_record_llm_call(t) == host = "node" /\ IsObserver /\ Observe(t, "llm")
NapiObserver_record_tool_call(t) == host = "node" /\ IsObserver /\ Observe(t, "tool")
NapiObserver_record_step(t) == host = "node" /\ IsObserver /\ Observe(t, "step")
NapiObserver_finish(t) ==
  host = "node" /\ IsObserver /\ \E s \in StatusStrings : Finish(t, s)
NapiAdapter_start(t) == host = "node" /\ ~IsObserver /\ Open(t)
NapiAdapter_on_event(t) == host = "node" /\ ~IsObserver /\ Callback(t)
NapiAdapter_finish(t) ==
  host = "node" /\ ~IsObserver /\ \E s \in StatusStrings : Finish(t, s)

\* What a reader gets: the C functions look the handle up, the Python and Node
\* objects keep the store as long as they live.
Stored == IF stored THEN "all" ELSE "part"
cleargate_observer_get == IF slot \in {"absent", "removed"} THEN "null" ELSE Stored
cleargate_adapter_get == IF slot \in {"absent", "removed"} THEN "null" ELSE Stored
PyObserver_get == Stored
PyAdapter_get == Stored
NapiObserver_get == Stored
NapiAdapter_get == Stored
get_events ==
  CASE host = "dotnet" -> IF IsObserver THEN cleargate_observer_get ELSE cleargate_adapter_get
    [] host = "python" -> IF IsObserver THEN PyObserver_get ELSE PyAdapter_get
    [] host = "node"   -> IF IsObserver THEN NapiObserver_get ELSE NapiAdapter_get
    [] OTHER           -> Stored

Rust(t) ==
  \/ ObserverSession_start(t) \/ ObserverSession_record(t) \/ ObserverSession_finish(t)
  \/ AdapterSession_start(t) \/ AdapterSession_on_event(t) \/ AdapterSession_finish(t)
  \/ set_flow_topology(t) \/ Session_drop(t)
DotNet(t) ==
  \/ cleargate_observer_start(t) \/ cleargate_observer_record_llm_call(t)
  \/ cleargate_observer_record_tool_call(t) \/ cleargate_observer_record_step(t)
  \/ cleargate_observer_finish(t) \/ cleargate_observer_destroy(t)
  \/ cleargate_adapter_start(t) \/ cleargate_adapter_on_event(t)
  \/ cleargate_adapter_finish(t) \/ cleargate_adapter_destroy(t)
Python(t) ==
  \/ PyObserver_start(t) \/ PyObserver_record_llm_call(t) \/ PyObserver_record_tool_call(t)
  \/ PyObserver_record_step(t) \/ PyObserver_finish(t) \/ PyObserver_exit(t)
  \/ PyAdapter_start(t) \/ PyAdapter_on_event(t) \/ PyAdapter_finish(t) \/ PyAdapter_exit(t)
Node(t) ==
  \/ NapiObserver_start(t) \/ NapiObserver_record_llm_call(t)
  \/ NapiObserver_record_tool_call(t) \/ NapiObserver_record_step(t) \/ NapiObserver_finish(t)
  \/ NapiAdapter_start(t) \/ NapiAdapter_on_event(t) \/ NapiAdapter_finish(t)
Step(t) ==
  \/ Rust(t) \/ DotNet(t) \/ Python(t) \/ Node(t)
  \/ CheckFinished(t) \/ Borrow(t) \/ handle_event(t) \/ record(t)
  \/ finish_topology(t) \/ finish_inner(t)

\* What follows undefined behaviour is not followed.
Next == ~ub /\ (flush \/ \E t \in Threads : Step(t))
Spec == Init /\ [][Next]_vars

-----------------------------------------------------------------------------
Finishing == \E t \in Threads : pc[t] \in {"taken", "closing"}
Invocations == {i \in DOMAIN log : log[i].type \in {"llm", "tool"}}
Completions == {i \in DOMAIN log : log[i].type = "completed"}
Hints == {i \in DOMAIN log : log[i].type = "topology"}

\* Two calls of a kind whose callbacks carry the same key.
SameKey(a, b) == calls[a].kind = calls[b].kind /\ calls[a].id = calls[b].id

\* A recorded invocation joins a response with the request of the same call; when
\* there was none, with no request; the request of another call only if the two
\* calls carried the same key.  A LangChain run id never repeats, so there only
\* callbacks without a run id can be confused.
Paired ==
  \A i \in Invocations : log[i].req \notin {0, log[i].resp} =>
     /\ SameKey(log[i].req, log[i].resp)
     /\ source = "langchain" => calls[log[i].resp].id = Missing

\* An invocation whose last callback was answered with success is in the log exactly
\* once, and one that was refused is not there, however the threads interleave.
AcknowledgedOnce ==
  ub \/ \A no \in DOMAIN calls :
     LET entries == {i \in Invocations : log[i].resp = no} IN
     /\ calls[no].phase = "recorded" => Cardinality(entries) = 1
     /\ calls[no].phase = "refused" => entries = {}

\* A session ends once: two finishes, or a finish and a destroy, never both write
\* RunCompleted, and nothing is recorded after it.
ClosedOnce ==
  ub \/ \A i \in Completions : i = Len(log)

\* A finished session that recorded anything has a hint, unless the advisory channel was full
\* when the hint was sent (adapter.rs:352: it "may or may not arrive"); an adapter adds only
\* one, its transitions or the chain; and a chain names exactly what was recorded.
TopologySound ==
  ub \/ /\ (slot = "none" /\ Completions # {} /\ seen_nodes # {}) => Hints # {} \/ "hint" \in lost
        /\ source # "observer" => Cardinality(Hints) <= 1
        /\ ~topology_set => \A i \in Hints : Range(log[i].nodes) = seen_nodes

\* Once finish has returned Ok, a reader sees the whole log, unless the store failed both
\* calls of the last flush: no other call or thread adds to the log behind finish's back.
FinishedIsReadable ==
  (slot = "none" /\ ~Finishing /\ ~ub) => get_events = "all" \/ "tail" \in lost

\* What a session leaves behind is complete: every acknowledged invocation once, one end, a
\* topology of what was recorded, and all of it readable once finish has returned, up to a
\* hint the advisory channel refused and a last batch the store refused twice.
SessionComplete == AcknowledgedOnce /\ ClosedOnce /\ TopologySound /\ FinishedIsReadable

\* The borrow checker, and Node's single thread, keep the session alive while it is used.
BorrowSafe == host \in {"rust", "node"} => ~ub

\* The pointer a Python wrapper uses after releasing the lock is valid.
PointerValid == ~ub

=============================================================================
