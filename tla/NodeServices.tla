----------------------------- MODULE NodeServices -----------------------------
(***************************************************************************)
(* What a node reaches through its context (node_ctx.rs): events, LLM      *)
(* records, secrets, the state store and the queue, from native handlers   *)
(* and from nodes in shared libraries (dylib.rs), whose thread goes on     *)
(* when the attempt has timed out.  An attempt owns two channels that      *)
(* execute_node drains once the handler is done (executor/node.rs).        *)
(***************************************************************************)
EXTENDS Integers, Sequences, FiniteSets, SequencesExt

CONSTANTS Attempts,      \* attempts of nodes of one run, as numbers in the order the run makes them
          Dylib,         \* those whose handler is a shared library
          Keys,          \* keys of the state store
          Capacity,      \* of an attempt's channels (1000 in the code)
          MaxCalls,      \* calls an attempt makes
          Subscribers,   \* of the one topic
          BROADCAST_CAPACITY, MaxPublished,
          Absent

ASSUME NodeServicesAssumption ==
  /\ Attempts \subseteq Nat /\ Dylib \subseteq Attempts
  /\ {Capacity, MaxCalls, BROADCAST_CAPACITY, MaxPublished} \subseteq Nat \ {0}
  /\ Absent \notin Nat

VARIABLES pc,        \* execute_node of an attempt
          handler,   \* the handler: out, in, blocked (in record_llm_call), parsing, gone
          event_ch, llm_ch,   \* the channels, of call numbers
          kept_events, kept_llm, \* what execute_node drained
          acked,     \* LLM calls the handler was told are recorded
          calls,     \* calls made
          timed_out,
          state,     \* InMemoryState of the run: key -> value and sensitivity
          read,      \* what an attempt read last
          library,   \* the shared library: absent, loaded, failed, unloaded
          string,    \* what became of the string of node_run
          meta_string, \* and of the string of node_meta
          bus,       \* messages sent to the topic so far
          receiver,  \* of a subscriber: none, open, dropped
          since,     \* the first message sent after it subscribed
          cursor, hand, \* its bridge: next message, message in hand
          inbox, got    \* its channel, what it took

attempt_vars == <<pc, handler, event_ch, llm_ch, kept_events, kept_llm, acked, calls, timed_out>>
state_vars == <<state, read>>
dylib_vars == <<library, string, meta_string>>
queue_vars == <<bus, receiver, since, cursor, hand, inbox, got>>
vars == <<attempt_vars, state_vars, dylib_vars, queue_vars>>

--------------------------------------------------------------------------
(* Calls of a handler.  MaxCalls bounds them.                              *)

Calling(a) == handler[a] = "in" /\ calls[a] < MaxCalls
Call(a) == calls[a] + 1
Counted(a) == calls' = [calls EXCEPT ![a] = @ + 1]
Only_calls(a) == Counted(a) /\ UNCHANGED <<pc, handler, event_ch, llm_ch, kept_events, kept_llm, acked, timed_out>>
Open(a) == pc[a] # "closed"

\* try_send: an event that finds the channel full or closed is dropped.
try_send(a) ==
  /\ event_ch' = IF Open(a) /\ Len(event_ch[a]) < Capacity
                 THEN [event_ch EXCEPT ![a] = Append(@, Call(a))] ELSE event_ch
  /\ Counted(a) /\ UNCHANGED <<pc, handler, llm_ch, kept_events, kept_llm, acked, timed_out>>
emit(a) == try_send(a)
emit_llm_chunk(a) == try_send(a)
emit_sensitive(a) == try_send(a)

\* Defect: it does not wait for room.
record_llm_call_now(a) ==
  /\ IF Open(a)
     THEN /\ llm_ch' = IF Len(llm_ch[a]) < Capacity THEN [llm_ch EXCEPT ![a] = Append(@, Call(a))] ELSE llm_ch
          /\ acked' = [acked EXCEPT ![a] = Append(@, Call(a))]
     ELSE UNCHANGED <<llm_ch, acked>>
  /\ Counted(a) /\ UNCHANGED <<pc, handler, event_ch, kept_events, kept_llm, timed_out>>
\* send().await: waits for room, fails once the receiver is gone.
record_llm_call(a) ==
  /\ IF Open(a) /\ Len(llm_ch[a]) < Capacity
     THEN /\ llm_ch' = [llm_ch EXCEPT ![a] = Append(@, Call(a))]
          /\ acked' = [acked EXCEPT ![a] = Append(@, Call(a))]
          /\ UNCHANGED handler
     ELSE /\ handler' = IF Open(a) THEN [handler EXCEPT ![a] = "blocked"] ELSE handler
          /\ UNCHANGED <<llm_ch, acked>>
  /\ Counted(a) /\ UNCHANGED <<pc, event_ch, kept_events, kept_llm, timed_out>>
\* Defect: it is not told that the receiver is gone.
recorded_open(a) ==
  /\ handler[a] = "blocked" /\ handler' = [handler EXCEPT ![a] = "in"]
  /\ Open(a) /\ Len(llm_ch[a]) < Capacity
  /\ llm_ch' = [llm_ch EXCEPT ![a] = Append(@, calls[a])]
  /\ acked' = [acked EXCEPT ![a] = Append(@, calls[a])]
  /\ UNCHANGED <<pc, event_ch, kept_events, kept_llm, calls, timed_out, state_vars, dylib_vars, queue_vars>>
\* The wait ends.
recorded(a) ==
  /\ handler[a] = "blocked" /\ handler' = [handler EXCEPT ![a] = "in"]
  /\ \/ /\ Open(a) /\ Len(llm_ch[a]) < Capacity
        /\ llm_ch' = [llm_ch EXCEPT ![a] = Append(@, calls[a])]
        /\ acked' = [acked EXCEPT ![a] = Append(@, calls[a])]
     \/ ~Open(a) /\ UNCHANGED <<llm_ch, acked>>
  /\ UNCHANGED <<pc, event_ch, kept_events, kept_llm, calls, timed_out, state_vars, dylib_vars, queue_vars>>

set(key, value, sensitivity) == state' = [state EXCEPT ![key] = [value |-> value, sensitivity |-> sensitivity]]
get(key) == IF state[key] = Absent THEN Absent ELSE state[key].value
state_set(a, key) == set(key, a, "None") /\ Only_calls(a) /\ UNCHANGED read
state_set_secret(a, key) == set(key, a, "Secret") /\ Only_calls(a) /\ UNCHANGED read
state_get(a, key) == read' = [read EXCEPT ![a] = get(key)] /\ Only_calls(a) /\ UNCHANGED state
secret(a) == Only_calls(a)

\* A message nobody is subscribed for is dropped.
Exists == \E s \in Subscribers : cursor[s] # Absent
publish(a) ==
  /\ Len(bus) < MaxPublished
  /\ bus' = IF Exists THEN Append(bus, Len(bus) + 1) ELSE bus
  /\ Only_calls(a)

native_call(a) ==
  /\ a \notin Dylib /\ Calling(a)
  /\ \/ /\ emit(a) \/ emit_llm_chunk(a) \/ emit_sensitive(a) \/ record_llm_call(a) \/ secret(a)
        /\ UNCHANGED <<state_vars, queue_vars>>
     \/ /\ \E key \in Keys : state_set(a, key) \/ state_set_secret(a, key) \/ state_get(a, key)
        /\ UNCHANGED queue_vars
     \/ publish(a) /\ UNCHANGED <<state_vars, receiver, since, cursor, hand, inbox, got>>
  /\ UNCHANGED dylib_vars

--------------------------------------------------------------------------
(* Callbacks of a library: each reads its C strings as UTF-8 and JSON and  *)
(* returns -1 or null when it cannot; the strings it hands out live in the *)
(* context of the thread until node_run has returned.                      *)

Reads == {"well-formed", "malformed"}
Refused(a) == Only_calls(a) /\ UNCHANGED state_vars
emit_trampoline(a, arg) == IF arg = "malformed" THEN Refused(a) ELSE emit(a) /\ UNCHANGED state_vars
record_llm_call_trampoline(a, arg) ==
  IF arg = "malformed" THEN Refused(a) ELSE record_llm_call(a) /\ UNCHANGED state_vars
secret_get_trampoline(a, arg) == IF arg = "malformed" THEN Refused(a) ELSE secret(a) /\ UNCHANGED state_vars
state_get_trampoline(a, arg, key) == IF arg = "malformed" THEN Refused(a) ELSE state_get(a, key)
state_set_trampoline(a, arg, key) == IF arg = "malformed" THEN Refused(a) ELSE state_set(a, key)

\* The callbacks a library is given: neither the queue nor human input.
as_vtable(a, arg) ==
  \/ emit_trampoline(a, arg) \/ record_llm_call_trampoline(a, arg) \/ secret_get_trampoline(a, arg)
  \/ \E key \in Keys : state_get_trampoline(a, arg, key) \/ state_set_trampoline(a, arg, key)
dylib_call(a) ==
  /\ a \in Dylib /\ Calling(a)
  /\ \E arg \in Reads : as_vtable(a, arg)
  /\ UNCHANGED <<dylib_vars, queue_vars>>

--------------------------------------------------------------------------
(* Loading.  A directory entry is a manifest and a library.                *)

Required == {"node_meta", "node_run", "node_free"}
Manifests == {"ok", "invalid JSON", "no library"}
Metas == {"ok", "null", "panic", "invalid UTF-8", "invalid JSON"}
load_symbol(symbols) == IF Required \subseteq symbols THEN "ok" ELSE "SymbolNotFound"
\* The error of load, or the handler; the metadata string is freed unless it is not UTF-8.
load(opens, symbols, meta) ==
  IF ~opens THEN "LoadFailed"
  ELSE IF load_symbol(symbols) # "ok" THEN "SymbolNotFound"
  ELSE IF meta # "ok" THEN meta ELSE "handler"
load_from_manifest(manifest, opens, symbols, meta) ==
  IF manifest # "ok" THEN "ManifestError" ELSE load(opens, symbols, meta)
\* An entry that cannot be loaded is skipped.
scan ==
  /\ library = "absent"
  /\ \E manifest \in Manifests, opens \in BOOLEAN, symbols \in {Required, {"node_meta"}}, meta \in Metas :
       LET result == load_from_manifest(manifest, opens, symbols, meta)
       IN /\ library' = IF result = "handler" THEN "loaded" ELSE "failed"
          /\ meta_string' = CASE result \in {"handler", "invalid JSON"} -> "freed"
                              [] result = "invalid UTF-8" -> "leaked" [] OTHER -> "none"
  /\ UNCHANGED string
  /\ UNCHANGED <<attempt_vars, state_vars, queue_vars>>

\* The engine is gone and with it the last reference to the handler.
unload ==
  /\ library = "loaded" /\ \A a \in Dylib : pc[a] = "closed"
  /\ library' = "unloaded"
  /\ UNCHANGED <<attempt_vars, state_vars, string, meta_string, queue_vars>>

--------------------------------------------------------------------------
(* execute_node.                                                           *)

\* The handler starts; a library's runs on a thread of its own.  The threads of earlier attempts
\* that timed out may still run.
run(a) ==
  /\ pc[a] = "start" /\ (a \in Dylib => library = "loaded")
  /\ \A b \in Attempts : b < a => pc[b] = "closed"
  /\ pc' = [pc EXCEPT ![a] = "called"] /\ handler' = [handler EXCEPT ![a] = "in"]
  /\ UNCHANGED <<event_ch, llm_ch, kept_events, kept_llm, acked, calls, timed_out, state_vars, dylib_vars, queue_vars>>
native_return(a) ==
  /\ a \notin Dylib /\ handler[a] = "in" /\ pc[a] = "called"
  /\ handler' = [handler EXCEPT ![a] = "gone"] /\ pc' = [pc EXCEPT ![a] = "ended"]
  /\ UNCHANGED <<event_ch, llm_ch, kept_events, kept_llm, acked, calls, timed_out, state_vars, dylib_vars, queue_vars>>

Ends(a) == pc' = IF pc[a] = "called" THEN [pc EXCEPT ![a] = "ended"] ELSE pc
\* node_run returns a string, null or unwinds; nobody may be waiting for it any more.
node_run_returns(a) ==
  /\ a \in Dylib /\ handler[a] = "in"
  /\ \/ /\ handler' = [handler EXCEPT ![a] = "parsing"] /\ UNCHANGED pc
        /\ string' = [string EXCEPT ![a] = "live"]
     \/ handler' = [handler EXCEPT ![a] = "gone"] /\ Ends(a) /\ UNCHANGED string
  /\ UNCHANGED <<event_ch, llm_ch, kept_events, kept_llm, acked, calls, timed_out, state_vars, library, meta_string, queue_vars>>
\* Defect: it returns before it has freed what is not JSON.
parse_run_result_early(a) ==
  /\ handler[a] = "parsing" /\ handler' = [handler EXCEPT ![a] = "gone"] /\ Ends(a)
  /\ \E result \in {"invalid UTF-8", "invalid JSON", "value", "error"} :
       string' = [string EXCEPT ![a] = CASE result = "invalid UTF-8" -> "leaked"
                                         [] result = "invalid JSON" -> "live" [] OTHER -> "freed"]
  /\ UNCHANGED <<event_ch, llm_ch, kept_events, kept_llm, acked, calls, timed_out, state_vars, library, meta_string, queue_vars>>
\* The string is copied and freed, then parsed; one that is not UTF-8 is not freed.
parse_run_result(a) ==
  /\ handler[a] = "parsing" /\ handler' = [handler EXCEPT ![a] = "gone"] /\ Ends(a)
  /\ \E result \in {"invalid UTF-8", "invalid JSON", "value", "error"} :
       string' = [string EXCEPT ![a] = IF result = "invalid UTF-8" THEN "leaked" ELSE "freed"]
  /\ UNCHANGED <<event_ch, llm_ch, kept_events, kept_llm, acked, calls, timed_out, state_vars, library, meta_string, queue_vars>>

\* The timeout drops the future: a native handler with it, a library's thread goes on.
timeout(a) ==
  /\ pc[a] = "called" /\ pc' = [pc EXCEPT ![a] = "ended"]
  /\ timed_out' = [timed_out EXCEPT ![a] = TRUE]
  /\ handler' = IF a \in Dylib THEN handler ELSE [handler EXCEPT ![a] = "gone"]
  /\ UNCHANGED <<event_ch, llm_ch, kept_events, kept_llm, acked, calls, state_vars, dylib_vars, queue_vars>>
\* try_recv until the channel is empty, one record at a time.
drain_llm(a) ==
  /\ pc[a] = "ended"
  /\ IF llm_ch[a] = <<>> THEN pc' = [pc EXCEPT ![a] = "drained"] /\ UNCHANGED <<kept_llm, llm_ch>>
     ELSE /\ kept_llm' = [kept_llm EXCEPT ![a] = Append(@, Head(llm_ch[a]))]
          /\ llm_ch' = [llm_ch EXCEPT ![a] = Tail(@)] /\ UNCHANGED pc
  /\ UNCHANGED <<handler, event_ch, kept_events, acked, calls, timed_out, state_vars, dylib_vars, queue_vars>>
drain_events(a) ==
  /\ pc[a] = "drained"
  /\ IF event_ch[a] = <<>> THEN pc' = [pc EXCEPT ![a] = "recording"] /\ UNCHANGED <<kept_events, event_ch>>
     ELSE /\ kept_events' = [kept_events EXCEPT ![a] = Append(@, Head(event_ch[a]))]
          /\ event_ch' = [event_ch EXCEPT ![a] = Tail(@)] /\ UNCHANGED pc
  /\ UNCHANGED <<handler, llm_ch, kept_llm, acked, calls, timed_out, state_vars, dylib_vars, queue_vars>>
\* NodeCompleted or NodeFailed is written, then the receivers go.
close(a) ==
  /\ pc[a] = "recording" /\ pc' = [pc EXCEPT ![a] = "closed"]
  /\ UNCHANGED <<handler, event_ch, llm_ch, kept_events, kept_llm, acked, calls, timed_out, state_vars, dylib_vars, queue_vars>>
execute_node(a) == run(a) \/ timeout(a) \/ drain_llm(a) \/ drain_events(a) \/ close(a)

--------------------------------------------------------------------------
(* The in-memory queue: a broadcast channel per topic and, for every       *)
(* subscription, a task that forwards to a channel of its own.             *)

Oldest == IF Len(bus) > BROADCAST_CAPACITY THEN Len(bus) - BROADCAST_CAPACITY + 1 ELSE 1
subscribe(s) ==
  /\ receiver[s] = "none" /\ receiver' = [receiver EXCEPT ![s] = "open"]
  /\ cursor' = [cursor EXCEPT ![s] = Len(bus) + 1] /\ since' = [since EXCEPT ![s] = Len(bus) + 1]
  /\ UNCHANGED <<attempt_vars, state_vars, dylib_vars, bus, hand, inbox, got>>
\* Defect: it waits for the next message when it has lagged.
bridge_recv_resubscribed(s) ==
  /\ cursor[s] # Absent /\ hand[s] = Absent /\ cursor[s] <= Len(bus)
  /\ IF cursor[s] < Oldest THEN cursor' = [cursor EXCEPT ![s] = Len(bus) + 1] /\ UNCHANGED hand
     ELSE hand' = [hand EXCEPT ![s] = bus[cursor[s]]] /\ cursor' = [cursor EXCEPT ![s] = @ + 1]
  /\ UNCHANGED <<attempt_vars, state_vars, dylib_vars, bus, receiver, since, inbox, got>>
\* Lagged moves to the oldest message the ring has; Ok takes one.
bridge_recv(s) ==
  /\ cursor[s] # Absent /\ hand[s] = Absent /\ cursor[s] <= Len(bus)
  /\ IF cursor[s] < Oldest THEN cursor' = [cursor EXCEPT ![s] = Oldest] /\ UNCHANGED hand
     ELSE hand' = [hand EXCEPT ![s] = bus[cursor[s]]] /\ cursor' = [cursor EXCEPT ![s] = @ + 1]
  /\ UNCHANGED <<attempt_vars, state_vars, dylib_vars, bus, receiver, since, inbox, got>>
\* It waits for room in the channel of the subscriber, and ends once that is dropped.
bridge_send(s) ==
  /\ hand[s] # Absent /\ hand' = [hand EXCEPT ![s] = Absent]
  /\ \/ /\ receiver[s] = "open" /\ Len(inbox[s]) < BROADCAST_CAPACITY
        /\ inbox' = [inbox EXCEPT ![s] = Append(@, hand[s])] /\ UNCHANGED cursor
     \/ receiver[s] = "dropped" /\ cursor' = [cursor EXCEPT ![s] = Absent] /\ UNCHANGED inbox
  /\ UNCHANGED <<attempt_vars, state_vars, dylib_vars, bus, receiver, since, got>>
\* The subscriber takes a message, or drops its receiver.
receive(s) ==
  /\ receiver[s] = "open" /\ inbox[s] # <<>> /\ got' = [got EXCEPT ![s] = Append(@, Head(inbox[s]))]
  /\ inbox' = [inbox EXCEPT ![s] = Tail(@)]
  /\ UNCHANGED <<attempt_vars, state_vars, dylib_vars, bus, receiver, since, cursor, hand>>
drop_receiver(s) ==
  /\ receiver[s] = "open" /\ receiver' = [receiver EXCEPT ![s] = "dropped"]
  /\ inbox' = [inbox EXCEPT ![s] = <<>>]
  /\ UNCHANGED <<attempt_vars, state_vars, dylib_vars, bus, since, cursor, hand, got>>

--------------------------------------------------------------------------

Init ==
  /\ pc = [a \in Attempts |-> "start"] /\ handler = [a \in Attempts |-> "out"]
  /\ event_ch = [a \in Attempts |-> <<>>] /\ llm_ch = [a \in Attempts |-> <<>>]
  /\ kept_events = [a \in Attempts |-> <<>>] /\ kept_llm = [a \in Attempts |-> <<>>]
  /\ acked = [a \in Attempts |-> <<>>] /\ calls = [a \in Attempts |-> 0]
  /\ timed_out = [a \in Attempts |-> FALSE]
  /\ state = [k \in Keys |-> Absent] /\ read = [a \in Attempts |-> Absent]
  /\ library = "absent" /\ string = [a \in Dylib |-> "none"]
  /\ meta_string = "none"
  /\ bus = <<>> /\ receiver = [s \in Subscribers |-> "none"]
  /\ since = [s \in Subscribers |-> Absent] /\ cursor = [s \in Subscribers |-> Absent] /\ hand = [s \in Subscribers |-> Absent]
  /\ inbox = [s \in Subscribers |-> <<>>] /\ got = [s \in Subscribers |-> <<>>]

Next ==
  \/ \E a \in Attempts :
       \/ native_call(a) \/ dylib_call(a) \/ recorded(a)
       \/ native_return(a) \/ node_run_returns(a) \/ parse_run_result(a) \/ execute_node(a)
  \/ scan \/ unload
  \/ \E s \in Subscribers : subscribe(s) \/ bridge_recv(s) \/ bridge_send(s) \/ receive(s) \/ drop_receiver(s)

\* The runtime runs what is ready: timers fire, tasks that can go on do.
Fairness == \A a \in Attempts :
  /\ WF_vars(timeout(a)) /\ WF_vars(drain_llm(a)) /\ WF_vars(drain_events(a)) /\ WF_vars(close(a))
  /\ WF_vars(recorded(a))
Spec == Init /\ [][Next]_vars /\ Fairness

--------------------------------------------------------------------------
(* Properties.                                                             *)

\* An LLM call a handler was told is recorded is in the result of its attempt, once and in
\* order, however many it made; only a thread that outlived a timeout can be told so of a call
\* that is lost.  (Events, which try_send may drop, are not promised.)
CallsKept ==
  \A a \in Attempts : pc[a] = "closed" =>
    /\ ~timed_out[a] => kept_llm[a] = acked[a]
    /\ IsPrefix(kept_llm[a], acked[a])
    /\ a \notin Dylib => kept_llm[a] = acked[a]

\* A handler that waits in record_llm_call because nobody drains its channel is let go: by
\* its timeout, after which the receivers are dropped.
BlockedCallReturns == \A a \in Attempts : handler[a] = "blocked" ~> handler[a] # "blocked"

\* A string of a library is freed by the time its user is done, but for one that is not UTF-8;
\* and the library goes away under a thread that runs its code only after a timeout.
StringsAndCode ==
  /\ \A a \in Dylib : handler[a] = "gone" => string[a] # "live"
  /\ library = "unloaded" => \A a \in Dylib :
       handler[a] \in {"in", "blocked", "parsing"} => timed_out[a]

\* A subscriber gets messages in the order of publication, none twice, and misses one sent
\* after it subscribed only when as many as the ring holds were sent after it.
QueueInOrder ==
  \A s \in {r \in Subscribers : receiver[r] = "open"} :
    LET seen == got[s] \o inbox[s] \o (IF hand[s] = Absent THEN <<>> ELSE <<hand[s]>>)
    IN /\ \A k \in 1..(Len(seen) - 1) : seen[k] < seen[k + 1]
       /\ \A m \in since[s]..(cursor[s] - 1) :
            m \notin ToSet(seen) => Len(bus) >= m + BROADCAST_CAPACITY
=============================================================================
