---------------------------- MODULE BindingsProofs ----------------------------
(***************************************************************************)
(* BorrowSafe, Paired and SessionComplete, for every number of threads,    *)
(* calls and identifiers and every mix of hosts and frameworks.            *)
(*                                                                         *)
(* In Rust and in Node a thread that has borrowed the session keeps it in  *)
(* its slot, because a call that takes it out runs alone.  An invocation   *)
(* joins two callbacks through the key it was parked under, and the key    *)
(* determines the kind and the identifier of the call.                     *)
(*                                                                         *)
(* A thread that is about to write an invocation has a call that is ending *)
(* and that nobody else works on (TalkInv), so the invocations in the log  *)
(* are those of the acknowledged calls, once each (Booked).  The session   *)
(* leaves its slot once, and the thread that took it writes the end when   *)
(* nobody can write any more (EndInv) and before that the one topology     *)
(* that is still missing (TopInv).                                         *)
(***************************************************************************)
EXTENDS Bindings, SequenceTheorems, FiniteSetTheorems, TLAPS

LlmCallbacks == {"on_llm_start", "on_llm_end", "record_llm"}
ToolCallbacks == {"on_tool_start", "on_tool_end", "function_invoking", "function_invoked", "record_tool"}
ObserverCallbacks == {"record_llm", "record_tool", "record_step"}
CallTypes == {"llm_start", "llm_end", "llm_whole", "tool_start", "tool_end", "tool_whole"}
Phases == {"starting", "open", "ending", "recorded", "refused"}
CallRecords == [kind : {"llm", "tool"}, id : Ids \cup {Missing}, phase : Phases]

\* A thread that holds a pointer to the session finds it there.
BorrowInv ==
  /\ DOMAIN pc = Threads
  /\ host \in {"rust", "node"} => ~ub /\ \A t \in Threads : pc[t] \in {"borrowed", "recording"} => slot = "some"

\* A sequence of whatever.
IsSequence(q) == q \in Seq({q[i] : i \in DOMAIN q})

CallShape ==
  /\ calls \in Seq(CallRecords) /\ IsSequence(log) /\ source \in Frameworks \cup {"observer"}
  /\ DOMAIN pc = Threads /\ DOMAIN raw = Threads /\ DOMAIN ev = Threads
  /\ DOMAIN pending = {"llm", "tool"} /\ \A k \in {"llm", "tool"} : DOMAIN pending[k] = Keys

\* A LangChain call is named by its number, if at all.
IdInv == source = "langchain" => \A n \in 1..Len(calls) : calls[n].id \in {n, Missing}

\* The callback r of a thread is about a call of c that is under way.
RawIn(c, r) ==
  /\ r.no # 0 => r.no \in 1..Len(c) /\ c[r.no].phase \in {"starting", "ending"}
  /\ r.cb \in LlmCallbacks => r.no # 0 /\ c[r.no].kind = "llm" /\ c[r.no].id = r.id
  /\ r.cb \in ToolCallbacks => r.no # 0 /\ c[r.no].kind = "tool" /\ c[r.no].id = r.id

\* No two threads work on the same call, and an observer reports whole calls and steps.
RawInv ==
  /\ \A t \in Threads : RawIn(calls, raw[t])
  /\ \A t, u \in Threads : t # u /\ raw[t].no # 0 => raw[t].no # raw[u].no
  /\ source = "observer" =>
       \A t \in Threads : pc[t] \in {"entered", "checked", "borrowed"} => raw[t].cb \in ObserverCallbacks

\* A start p parked under a key is about a call of c with that key.
ParkedIn(c, k, key, p) ==
  p # NoEvent => p.no \in 1..Len(c) /\ c[p.no].kind = k /\ Name(c[p.no].id) = key
PendingInv == \A k \in {"llm", "tool"}, key \in Keys : ParkedIn(calls, k, key, pending[k][key])

\* An invocation e with the request of another call joins two calls of c with the same key.
JoinedIn(c, e) ==
  e.type \in {"llm", "tool"} /\ e.req \notin {0, e.resp} =>
    /\ e.req \in 1..Len(c) /\ e.resp \in 1..Len(c)
    /\ c[e.req].kind = c[e.resp].kind /\ c[e.req].id = c[e.resp].id
JoinInv == (\A t \in Threads : JoinedIn(calls, ev[t])) /\ \A i \in 1..Len(log) : JoinedIn(calls, log[i])

CallsInv == CallShape /\ IdInv /\ RawInv /\ PendingInv /\ JoinInv

-----------------------------------------------------------------------------
(* Steps, whatever the interface they come through *)

\* A step of a thread is one of a dozen kinds, whichever interface it came through.
LEMMA StepKinds ==
  ASSUME NEW t \in Threads, Step(t)
  PROVE  \/ Open(t) \/ (source # "observer" /\ Callback(t))
         \/ (source = "observer" /\ \E kind \in {"llm", "tool", "step"} : Observe(t, kind))
         \/ (\E s \in {"failed", "completed"} \cup StatusStrings : Finish(t, s)) \/ Drop(t) \/ set_flow_topology(t)
         \/ CheckFinished(t) \/ Borrow(t) \/ handle_event(t) \/ record(t) \/ finish_topology(t) \/ finish_inner(t)
<1>1. CASE Rust(t)
  BY <1>1 DEF IsObserver, Rust, ObserverSession_start, ObserverSession_record, ObserverSession_finish, AdapterSession_start,
     AdapterSession_on_event, AdapterSession_finish, Session_drop
<1>2. CASE DotNet(t)
  BY <1>2 DEF IsObserver, DotNet, cleargate_observer_start, cleargate_observer_record_llm_call, cleargate_observer_record_tool_call,
     cleargate_observer_record_step, cleargate_observer_finish, cleargate_observer_destroy, cleargate_adapter_start,
     cleargate_adapter_on_event, cleargate_adapter_finish, cleargate_adapter_destroy
<1>3. CASE Python(t)
  BY <1>3 DEF IsObserver, Python, PyObserver_start, PyObserver_record_llm_call, PyObserver_record_tool_call, PyObserver_record_step,
     PyObserver_finish, PyObserver_exit, PyAdapter_start, PyAdapter_on_event, PyAdapter_finish, PyAdapter_exit
<1>4. CASE Node(t)
  BY <1>4 DEF IsObserver, Node, NapiObserver_start, NapiObserver_record_llm_call, NapiObserver_record_tool_call,
     NapiObserver_record_step, NapiObserver_finish, NapiAdapter_start, NapiAdapter_on_event, NapiAdapter_finish
<1> QED
  BY <1>1, <1>2, <1>3, <1>4 DEF Step

\* A step of one thread, as far as borrowing goes.
LEMMA BorrowStep ==
  ASSUME BorrowInv, NEW t \in Threads, host' = host, DOMAIN pc' = Threads,
         \A u \in Threads : u # t => pc'[u] = pc[u],
         host \in {"rust", "node"} => ub' = FALSE /\ (pc'[t] \in {"borrowed", "recording"} => slot' = "some"),
         host \in {"rust", "node"} => slot' = slot \/ slot' = "some" \/ \A u \in Threads : pc[u] = "idle"
  PROVE  BorrowInv'
BY DEF BorrowInv

\* Every step keeps the session in place under a thread that has borrowed it.
LEMMA BorrowSteps ==
  ASSUME BorrowInv, [Next]_vars
  PROVE  BorrowInv'
<1>1. ASSUME NEW t \in Threads, Open(t) PROVE BorrowInv'
  BY <1>1 DEF Open, Idle, BorrowInv
<1>2. ASSUME NEW t \in Threads, Callback(t) \/ \E kind \in {"llm", "tool", "step"} : Observe(t, kind)
      PROVE BorrowInv'
  <2>1. UNCHANGED <<host, session, ub>> /\ pc' = [pc EXCEPT ![t] = IF host = "python" /\ source # "observer" THEN "entered" ELSE "checked"]
    BY <1>2 DEF Callback, Observe, Enter, Goto
  <2> QED
    BY <2>1, BorrowStep DEF session, BorrowInv
<1>3. ASSUME NEW t \in Threads, NEW s, Finish(t, s) PROVE BorrowInv'
  <2>1. Idle(t) /\ (host = "rust" => Alone(t)) /\ host' = host /\ ub' = ub
    BY <1>3 DEF Finish, Take, Return
  <2>2. host \in {"rust", "node"} => \A u \in Threads : pc[u] = "idle"
    BY <2>1 DEF Idle, Alone
  <2>3. pc' = [pc EXCEPT ![t] = "taken"] \/ pc' = [pc EXCEPT ![t] = "idle"]
    BY <1>3 DEF Finish, Take, Return, Goto
  <2> QED
    BY <2>1, <2>2, <2>3, BorrowStep DEF BorrowInv
<1>4. ASSUME NEW t \in Threads, Drop(t) PROVE BorrowInv'
  <2>1. Idle(t) /\ (host # "dotnet" => Alone(t)) /\ UNCHANGED <<host, ub, pc>>
    BY <1>4 DEF Drop
  <2>2. host \in {"rust", "node"} => \A u \in Threads : pc[u] = "idle"
    BY <2>1 DEF Idle, Alone
  <2> QED
    BY <2>1, <2>2 DEF BorrowInv
<1>5. ASSUME NEW t \in Threads, set_flow_topology(t) PROVE BorrowInv'
  BY <1>5 DEF set_flow_topology, BorrowInv
<1>6. ASSUME NEW t \in Threads, CheckFinished(t) \/ Borrow(t) PROVE BorrowInv'
  <2>1. UNCHANGED <<host, slot, ub>>
    BY <1>6 DEF CheckFinished, Borrow, Return, session
  <2>2. \/ pc' = [pc EXCEPT ![t] = "idle"] \/ pc' = [pc EXCEPT ![t] = "checked"]
        \/ Live /\ pc' = [pc EXCEPT ![t] = "borrowed"]
    BY <1>6 DEF CheckFinished, Borrow, Return, Goto
  <2>3. host \in {"rust", "node"} /\ Live => slot = "some"
    BY DEF Live, get_session
  <2> QED
    BY <2>1, <2>2, <2>3, BorrowStep DEF BorrowInv
<1>7. ASSUME NEW t \in Threads, handle_event(t) \/ record(t) PROVE BorrowInv'
  <2>1. /\ pc[t] \in {"borrowed", "recording"} /\ UNCHANGED <<host, slot>> /\ ub' = (slot # "some")
        /\ (pc' = [pc EXCEPT ![t] = "idle"] \/ pc' = [pc EXCEPT ![t] = "recording"])
    <3>1. CASE record(t)
      BY <3>1 DEF record, Use, Dangling, Return
    <3>2. CASE handle_event(t)
      BY <3>2 DEF handle_event, handle_start, handle_end, handle_transition, handle_step, handle_whole, Use, Dangling,
         Return, Goto, session
    <3> QED
      BY <1>7, <3>1, <3>2
  <2> QED
    BY <2>1, BorrowStep DEF BorrowInv
<1>8. ASSUME NEW t \in Threads, finish_topology(t) \/ finish_inner(t) PROVE BorrowInv'
  <2>1. UNCHANGED <<host, slot, ub>> /\ (pc' = [pc EXCEPT ![t] = "idle"] \/ pc' = [pc EXCEPT ![t] = "closing"])
    BY <1>8 DEF finish_topology, finish_inner, Return, Goto
  <2> QED
    BY <2>1, BorrowStep DEF BorrowInv
<1>9. CASE flush \/ UNCHANGED vars
  BY <1>9 DEF flush, vars, session, BorrowInv
<1>10. ASSUME NEW t \in Threads, Step(t) PROVE BorrowInv'
  BY <1>1, <1>2, <1>3, <1>4, <1>5, <1>6, <1>7, <1>8, <1>10, StepKinds
<1> QED
  BY <1>9, <1>10 DEF Next

\* Where the session is used by value, or by the only thread, no pointer to it dangles: for
\* every number of threads and calls and every framework.
THEOREM BorrowsAreSafe == Spec => []BorrowSafe
<1>1. Init => BorrowInv
  BY DEF Init, BorrowInv
<1>2. BorrowInv => BorrowSafe
  BY DEF BorrowInv, BorrowSafe
<1> QED
  BY <1>1, <1>2, BorrowSteps, PTL DEF Spec

-----------------------------------------------------------------------------
(* Calls are only added and only their phases change, so what is said of a call stays true *)

Grow(c, d) == Len(c) <= Len(d) /\ \A n \in 1..Len(c) : d[n].kind = c[n].kind /\ d[n].id = c[n].id

\* What is parked stays under the key of its call.
LEMMA ParkedStays ==
  ASSUME NEW c \in Seq(CallRecords), NEW d \in Seq(CallRecords), Grow(c, d), NEW k, NEW key, NEW p, ParkedIn(c, k, key, p)
  PROVE  ParkedIn(d, k, key, p)
BY DEF Grow, ParkedIn

\* A joined invocation stays joined.
LEMMA JoinedStays ==
  ASSUME NEW c \in Seq(CallRecords), NEW d \in Seq(CallRecords), Grow(c, d), NEW e, JoinedIn(c, e)
  PROVE  JoinedIn(d, e)
BY DEF Grow, JoinedIn

\* The callback of a thread stays about its call, if that call's phase stays.
LEMMA RawStays ==
  ASSUME NEW c \in Seq(CallRecords), NEW d \in Seq(CallRecords), Grow(c, d), NEW r, RawIn(c, r),
         r.no # 0 => d[r.no].phase = c[r.no].phase
  PROVE  RawIn(d, r)
BY DEF Grow, RawIn

\* A call is appended.
LEMMA GrowAppend ==
  ASSUME NEW c \in Seq(CallRecords), NEW x \in CallRecords
  PROVE  /\ Append(c, x) \in Seq(CallRecords) /\ Grow(c, Append(c, x)) /\ Len(Append(c, x)) = Len(c) + 1
         /\ Append(c, x)[Len(c) + 1] = x /\ \A n \in 1..Len(c) : Append(c, x)[n] = c[n]
BY DEF Grow

SetPhase(c, n, p) == [c EXCEPT ![n].phase = p]
\* The phase of a call changes.
LEMMA GrowPhase ==
  ASSUME NEW c \in Seq(CallRecords), NEW n \in 1..Len(c), NEW p \in Phases, NEW d, d = SetPhase(c, n, p)
  PROVE  /\ d \in Seq(CallRecords) /\ Grow(c, d) /\ Len(d) = Len(c) /\ d[n].phase = p
         /\ \A m \in 1..Len(c) : m # n => d[m] = c[m]
<1>a. c[n] \in CallRecords
  OBVIOUS
<1>1. c[n] \in CallRecords /\ [c[n] EXCEPT !.phase = p] \in CallRecords
  <2>1. PICK x : x = c[n]
    OBVIOUS
  <2>2. x \in CallRecords => [x EXCEPT !.phase = p] \in CallRecords
    BY DEF CallRecords
  <2> QED
    BY <1>a, <2>1, <2>2
<1>2. d \in Seq(CallRecords) /\ Len(d) = Len(c)
  BY <1>1 DEF SetPhase
<1>3. d[n] = [c[n] EXCEPT !.phase = p] /\ \A m \in 1..Len(c) : m # n => d[m] = c[m]
  BY DEF SetPhase
<1>4. d[n].kind = c[n].kind /\ d[n].id = c[n].id /\ d[n].phase = p
  BY <1>1, <1>3 DEF CallRecords
<1>5. \A m \in 1..Len(c) : d[m].kind = c[m].kind /\ d[m].id = c[m].id
  BY <1>3, <1>4
<1>6. Grow(c, d)
  BY <1>2, <1>5 DEF Grow
<1> QED
  BY <1>2, <1>3, <1>4, <1>6

\* Calls that stay the same grow.
LEMMA GrowSame == ASSUME NEW c \in Seq(CallRecords) PROVE Grow(c, c)
BY DEF Grow

\* Sequences of whatever: one more element, one or two more, none.
LEMMA AnyAppend ==
  ASSUME NEW q, IsSequence(q), NEW x
  PROVE  /\ IsSequence(Append(q, x)) /\ Len(q) \in Nat /\ Len(Append(q, x)) = Len(q) + 1
         /\ Append(q, x)[Len(q) + 1] = x /\ \A i \in 1..Len(q) : Append(q, x)[i] = q[i]
<1> DEFINE S == {q[i] : i \in DOMAIN q} \cup {x}
<1>1. q \in Seq(S)
  BY DEF IsSequence
<1> HIDE DEF S
<1>2. x \in S
  BY DEF S
<1>3. /\ Append(q, x) \in Seq(S) /\ Len(q) \in Nat /\ Len(Append(q, x)) = Len(q) + 1
      /\ Append(q, x)[Len(q) + 1] = x /\ \A i \in 1..Len(q) : Append(q, x)[i] = q[i]
  BY <1>1, <1>2
<1>4. ASSUME NEW r \in Seq(S) PROVE IsSequence(r)
  BY <1>4 DEF IsSequence
<1> QED
  BY <1>3, <1>4

\* A step that adds to the calls and to the log, by what it does to the rest.
LEMMA CallsKept ==
  ASSUME CallsInv, source' = source, DOMAIN pc' = Threads, DOMAIN raw' = Threads, DOMAIN ev' = Threads,
         calls' \in Seq(CallRecords), Grow(calls, calls'), IdInv', RawInv',
         DOMAIN pending' = {"llm", "tool"}, \A k \in {"llm", "tool"} : DOMAIN pending'[k] = Keys,
         \A k \in {"llm", "tool"}, key \in Keys :
           pending'[k][key] = pending[k][key] \/ ParkedIn(calls', k, key, pending'[k][key]),
         \A t \in Threads : ev'[t] = ev[t] \/ JoinedIn(calls', ev'[t]),
         IsSequence(log'),
         \A i \in 1..Len(log') : \/ \E j \in 1..Len(log) : log'[i] = log[j]
                                 \/ \E t \in Threads : log'[i] = ev[t]
                                 \/ JoinedIn(calls', log'[i])
  PROVE  CallsInv'
<1> PICK c, d : c = calls /\ d = calls'
  OBVIOUS
<1>1. c \in Seq(CallRecords) /\ d \in Seq(CallRecords) /\ Grow(c, d)
  BY DEF CallsInv, CallShape
<1>2. CallShape'
  BY DEF CallShape, CallsInv
<1>3. ASSUME NEW k \in {"llm", "tool"}, NEW key \in Keys PROVE ParkedIn(d, k, key, pending'[k][key])
  <2>1. ParkedIn(c, k, key, pending[k][key])
    BY DEF CallsInv, PendingInv
  <2>2. ParkedIn(d, k, key, pending[k][key])
    BY <1>1, <2>1, ParkedStays
  <2> QED
    BY <2>2
<1>4. ASSUME NEW t \in Threads PROVE JoinedIn(d, ev[t])
  <2>1. JoinedIn(c, ev[t])
    BY DEF CallsInv, JoinInv
  <2> QED
    BY <1>1, <2>1, JoinedStays
<1>5. ASSUME NEW j \in 1..Len(log) PROVE JoinedIn(d, log[j])
  <2>1. JoinedIn(c, log[j])
    BY DEF CallsInv, JoinInv
  <2> QED
    BY <1>1, <2>1, JoinedStays
<1>6. \A t \in Threads : JoinedIn(d, ev'[t])
  BY <1>4
<1>7. \A i \in 1..Len(log') : JoinedIn(d, log'[i])
  BY <1>4, <1>5
<1> QED
  BY <1>2, <1>3, <1>6, <1>7 DEF CallsInv, PendingInv, JoinInv

-----------------------------------------------------------------------------
(* The callbacks in hand *)

\* A thread that moves on within its call.
LEMMA MoveKeeps ==
  ASSUME IdInv, RawInv, UNCHANGED <<source, raw, calls>>,
         \A u \in Threads : pc'[u] \in {"entered", "checked", "borrowed"} => pc[u] \in {"entered", "checked", "borrowed"}
  PROVE  IdInv' /\ RawInv'
BY DEF IdInv, RawInv

\* A call returns: its thread has nothing in hand and the call is in its next phase.
LEMMA ReturnKeeps ==
  ASSUME CallShape, IdInv, RawInv, NEW t \in Threads, NEW result, Return(t, result)
  PROVE  /\ source' = source /\ DOMAIN pc' = Threads /\ DOMAIN raw' = Threads /\ DOMAIN ev' = Threads
         /\ calls' \in Seq(CallRecords) /\ Grow(calls, calls') /\ IdInv' /\ RawInv'
         /\ \A u \in Threads : ev'[u] = ev[u] \/ JoinedIn(calls', ev'[u])
<1>1. /\ source' = source /\ pc' = [pc EXCEPT ![t] = "idle"] /\ raw' = [raw EXCEPT ![t] = Nobody]
      /\ ev' = [ev EXCEPT ![t] = NoEvent]
  BY DEF Return
<1>2. DOMAIN pc' = Threads /\ DOMAIN raw' = Threads /\ DOMAIN ev' = Threads /\ calls \in Seq(CallRecords)
  BY <1>1 DEF CallShape
<1>3. \A u \in Threads : u # t => raw'[u] = raw[u] /\ pc'[u] = pc[u] /\ ev'[u] = ev[u]
  BY <1>1
<1>4. raw'[t] = Nobody /\ pc'[t] = "idle" /\ ev'[t] = NoEvent
  BY <1>1 DEF CallShape
<1>5. RawIn(calls', raw'[t]) /\ raw'[t].no = 0 /\ JoinedIn(calls', ev'[t])
  BY <1>4 DEF RawIn, Nobody, LlmCallbacks, ToolCallbacks, JoinedIn, NoEvent
<1>6. CASE raw[t].no = 0
  <2>1. calls' = calls /\ Grow(calls, calls')
    BY <1>2, <1>6, GrowSame DEF Return
  <2>2. RawInv'
    BY <1>1, <1>3, <1>4, <1>5, <2>1 DEF RawInv
  <2>3. IdInv'
    BY <1>1, <2>1 DEF IdInv
  <2> QED
    BY <1>1, <1>2, <1>3, <1>5, <2>1, <2>2, <2>3
<1>7. CASE raw[t].no # 0
  <2> PICK n, c, d : n = raw[t].no /\ c = calls /\ d = calls'
    OBVIOUS
  <2>1. n \in 1..Len(c) /\ c[n].phase \in {"starting", "ending"} /\ c \in Seq(CallRecords)
    BY <1>2, <1>7 DEF RawInv, RawIn
  <2>2. PICK p \in Phases : d = SetPhase(c, n, p)
    <3>1. CASE c[n].phase = "starting"
      <4>1. d = [c EXCEPT ![n].phase = "open"]
        BY <1>7, <3>1 DEF Return
      <4> QED
        BY <4>1 DEF Phases, SetPhase
    <3>2. CASE c[n].phase = "ending"
      <4>1. d = [c EXCEPT ![n].phase = IF result = "ok" THEN "recorded" ELSE "refused"]
        BY <1>7, <3>2 DEF Return
      <4> QED
        BY <4>1 DEF Phases, SetPhase
    <3> QED
      BY <2>1, <3>1, <3>2
  <2>3. d \in Seq(CallRecords) /\ Grow(c, d) /\ Len(d) = Len(c) /\ \A m \in 1..Len(c) : m # n => d[m] = c[m]
    BY <2>1, <2>2, GrowPhase
  <2>4. IdInv'
    BY <1>1, <2>3 DEF IdInv, Grow
  <2>5. ASSUME NEW u \in Threads, u # t PROVE RawIn(d, raw[u])
    <3> PICK r : r = raw[u]
      OBVIOUS
    <3>1. RawIn(c, r) /\ r.no # n
      BY <1>7, <2>5 DEF RawInv
    <3>2. r.no # 0 => d[r.no].phase = c[r.no].phase
      BY <2>3, <3>1 DEF RawIn
    <3> QED
      BY <2>1, <2>3, <3>1, <3>2, RawStays
  <2>6. RawInv'
    BY <1>1, <1>3, <1>4, <1>5, <2>5 DEF RawInv
  <2> QED
    BY <1>1, <1>2, <1>3, <1>5, <2>3, <2>4, <2>6
<1> QED
  BY <1>6, <1>7

\* A callback about a new call.
LEMMA EnterNew ==
  ASSUME CallShape, IdInv, RawInv, NEW t \in Threads, UNCHANGED source,
         \A u \in Threads : u # t => raw'[u] = raw[u] /\ pc'[u] = pc[u],
         NEW x \in CallRecords, calls' = Append(calls, x), x.phase \in {"starting", "ending"},
         raw'[t].no = Len(calls) + 1, raw'[t].id = x.id,
         raw'[t].cb \in (IF x.kind = "llm" THEN LlmCallbacks ELSE ToolCallbacks),
         source = "observer" => raw'[t].cb \in ObserverCallbacks,
         source = "langchain" => x.id \in {Len(calls) + 1, Missing}
  PROVE  calls' \in Seq(CallRecords) /\ Grow(calls, calls') /\ IdInv' /\ RawInv'
<1> PICK c, d : c = calls /\ d = calls'
  OBVIOUS
<1>0. c \in Seq(CallRecords) /\ Len(c) \in Nat
  BY DEF CallShape
<1>1. /\ d \in Seq(CallRecords) /\ Grow(c, d) /\ Len(d) = Len(c) + 1
      /\ d[Len(c) + 1] = x /\ \A n \in 1..Len(c) : d[n] = c[n]
  BY <1>0, GrowAppend
<1>2. IdInv'
  BY <1>0, <1>1 DEF IdInv
<1>3. RawIn(d, raw'[t])
  <2> PICK r : r = raw'[t]
    OBVIOUS
  <2>1. r.no = Len(c) + 1 /\ r.id = x.id /\ r.no # 0 /\ r.no \in 1..Len(d) /\ d[r.no] = x
    BY <1>0, <1>1
  <2>2. r.cb \in LlmCallbacks => x.kind = "llm"
    BY DEF LlmCallbacks, ToolCallbacks
  <2>3. x.kind \in {"llm", "tool"}
    BY DEF CallRecords
  <2>4. r.cb \in ToolCallbacks => x.kind = "tool"
    BY <2>3 DEF LlmCallbacks, ToolCallbacks
  <2> QED
    BY <2>1, <2>2, <2>4 DEF RawIn
<1>4. ASSUME NEW u \in Threads, u # t PROVE RawIn(d, raw'[u]) /\ raw'[u].no # Len(c) + 1
  <2> PICK r : r = raw[u]
    OBVIOUS
  <2>1. RawIn(c, r) /\ raw'[u] = r
    BY <1>4 DEF RawInv
  <2>2. r.no # 0 => d[r.no].phase = c[r.no].phase /\ r.no # Len(c) + 1
    BY <1>0, <1>1, <2>1 DEF RawIn
  <2>3. RawIn(d, r)
    BY <1>0, <1>1, <2>1, <2>2, RawStays
  <2> QED
    BY <1>0, <2>1, <2>2, <2>3
<1>5. RawInv'
  BY <1>1, <1>3, <1>4 DEF RawInv
<1> QED
  BY <1>1, <1>2, <1>5

\* A callback about a call that was open.
LEMMA EnterOpen ==
  ASSUME CallShape, IdInv, RawInv, NEW t \in Threads, UNCHANGED source,
         \A u \in Threads : u # t => raw'[u] = raw[u] /\ pc'[u] = pc[u],
         NEW n \in 1..Len(calls), calls[n].phase = "open", calls' = SetPhase(calls, n, "ending"),
         raw'[t].no = n, raw'[t].id = calls[n].id,
         raw'[t].cb \in (IF calls[n].kind = "llm" THEN LlmCallbacks ELSE ToolCallbacks),
         source # "observer"
  PROVE  calls' \in Seq(CallRecords) /\ Grow(calls, calls') /\ IdInv' /\ RawInv'
<1> PICK c, d, k : c = calls /\ d = calls' /\ k = c[n].kind
  OBVIOUS
<1> PICK p : p = "ending"
  OBVIOUS
<1>0. c \in Seq(CallRecords) /\ Len(c) \in Nat /\ n \in 1..Len(c) /\ p \in Phases /\ d = SetPhase(c, n, p)
  BY DEF CallShape, Phases
<1>1. /\ d \in Seq(CallRecords) /\ Grow(c, d) /\ Len(d) = Len(c) /\ d[n].phase = p
      /\ \A m \in 1..Len(c) : m # n => d[m] = c[m]
  BY <1>0, GrowPhase
<1>2. IdInv'
  BY <1>0, <1>1 DEF IdInv, Grow
<1>3. d[n].kind = k /\ d[n].id = c[n].id /\ k \in {"llm", "tool"}
  <2>1. c[n] \in CallRecords
    BY <1>0
  <2> QED
    BY <1>1, <2>1 DEF Grow, CallRecords
<1>4. RawIn(d, raw'[t])
  <2> PICK r : r = raw'[t]
    OBVIOUS
  <2>1. r.no = n /\ r.id = d[n].id /\ r.cb \in (IF k = "llm" THEN LlmCallbacks ELSE ToolCallbacks)
    BY <1>3
  <2>2. d[n].phase = "ending" /\ n \in 1..Len(d) /\ n # 0
    BY <1>0, <1>1
  <2> QED
    BY <1>3, <2>1, <2>2 DEF RawIn, LlmCallbacks, ToolCallbacks
<1>5. ASSUME NEW u \in Threads, u # t PROVE RawIn(d, raw'[u]) /\ raw'[u].no # n
  <2> PICK r : r = raw[u]
    OBVIOUS
  <2>1. RawIn(c, r) /\ raw'[u] = r
    BY <1>5 DEF RawInv
  <2>2. r.no # n
    BY <2>1 DEF RawIn
  <2>3. r.no # 0 => d[r.no].phase = c[r.no].phase
    BY <1>0, <1>1, <2>1, <2>2 DEF RawIn
  <2>4. RawIn(d, r)
    BY <1>0, <1>1, <2>1, <2>3, RawStays
  <2> QED
    BY <2>1, <2>2, <2>4
<1>6. RawInv'
  <2>1. \A u \in Threads : RawIn(d, raw'[u])
    BY <1>4, <1>5
  <2>2. \A u, v \in Threads : u # v /\ raw'[u].no # 0 => raw'[u].no # raw'[v].no
    BY <1>5 DEF RawInv
  <2>3. source' # "observer"
    OBVIOUS
  <2> QED
    BY <2>1, <2>2, <2>3 DEF RawInv
<1> QED
  BY <1>1, <1>2, <1>6

\* A callback that is about no call.
LEMMA EnterOther ==
  ASSUME CallShape, IdInv, RawInv, NEW t \in Threads, UNCHANGED <<source, calls>>,
         \A u \in Threads : u # t => raw'[u] = raw[u] /\ pc'[u] = pc[u],
         raw'[t].no = 0, raw'[t].cb \notin LlmCallbacks \cup ToolCallbacks,
         source = "observer" => raw'[t].cb \in ObserverCallbacks
  PROVE  calls' \in Seq(CallRecords) /\ Grow(calls, calls') /\ IdInv' /\ RawInv'
<1>1. calls' \in Seq(CallRecords) /\ Grow(calls, calls')
  BY GrowSame DEF CallShape
<1>2. RawIn(calls', raw'[t])
  BY DEF RawIn
<1>3. IdInv'
  BY DEF IdInv
<1>4. RawInv'
  BY <1>2 DEF RawInv
<1> QED
  BY <1>1, <1>3, <1>4

\* What a callback is translated to carries the key and the number of its call.
LEMMA TranslatedMatches ==
  ASSUME source \in Frameworks \cup {"observer"}, NEW t \in Threads, RawIn(calls, raw[t]), NEW e,
         source = "observer" => raw[t].cb \in ObserverCallbacks, Translated(t) # <<>>, e = Translated(t)[1]
  PROVE  e.type \in CallTypes =>
           /\ raw[t].no # 0 /\ e.no = raw[t].no /\ e.key = Name(raw[t].id)
           /\ calls[raw[t].no].id = raw[t].id /\ calls[raw[t].no].kind = KindOf(e)
<1> PICK r : r = raw[t]
  OBVIOUS
<1> USE DEF RawIn, LlmCallbacks, ToolCallbacks, CallTypes, KindOf
<1>1. CASE source = "observer"
  BY <1>1 DEF Translated, Observed, ObserverCallbacks, StepStart
<1>2. CASE source = "langchain"
  BY <1>2 DEF Translated, translate, LangChain, LlmStart, LlmEnd, ToolStart, ToolEnd, StepStart, StepEnd
<1>3. CASE source = "langgraph"
  BY <1>3 DEF Translated, translate, LangGraph, LlmStart, LlmEnd, StepStart, StepEnd, NodeTransition
<1>4. CASE source = "semantic_kernel"
  BY <1>4 DEF Translated, translate, SemanticKernel, LlmStart, LlmEnd, ToolStart, ToolEnd, StepStart, StepEnd
<1> QED
  BY <1>1, <1>2, <1>3, <1>4 DEF Frameworks

-----------------------------------------------------------------------------
(* Each action *)

\* A call that is entered leaves the session and the events in hand alone.
LEMMA EnterKeeps ==
  ASSUME CallsInv, NEW t \in Threads, NEW r, Enter(t, r),
         calls' \in Seq(CallRecords), Grow(calls, calls'), IdInv', RawInv'
  PROVE  CallsInv'
<1>1. UNCHANGED <<source, pending, ev, log>> /\ raw' = [raw EXCEPT ![t] = r] /\ DOMAIN pc' = DOMAIN pc
  BY DEF Enter, Goto, session
<1>2. DOMAIN raw' = Threads /\ DOMAIN pc' = Threads /\ DOMAIN ev' = Threads
  BY <1>1 DEF CallsInv, CallShape
<1>3. IsSequence(log') /\ DOMAIN pending' = {"llm", "tool"} /\ \A k \in {"llm", "tool"} : DOMAIN pending'[k] = Keys
  BY <1>1 DEF CallsInv, CallShape
<1> QED
  BY <1>1, <1>2, <1>3, CallsKept

\* What a thread that enters has in hand.
LEMMA EnterFacts ==
  ASSUME CallShape, NEW t \in Threads, NEW r, Enter(t, r)
  PROVE  source' = source /\ raw'[t] = r /\ \A u \in Threads : u # t => raw'[u] = raw[u] /\ pc'[u] = pc[u]
BY DEF CallShape, Enter, Goto

\* The identifiers of a new call.
LEMMA IdsForCalls ==
  ASSUME CallShape, Len(calls) < MaxCalls, NEW id, id \in IdsFor(Len(calls) + 1) \/ (source = "observer" /\ id \in IdsFor(0))
  PROVE  id \in Ids \cup {Missing} /\ (source = "langchain" => id \in {Len(calls) + 1, Missing})
<1>1. Len(calls) \in Nat
  BY DEF CallShape
<1>2. Len(calls) + 1 \in 1..MaxCalls /\ 1 \in 1..MaxCalls
  BY <1>1, BindingsAssumption
<1>3. Len(calls) + 1 \in Ids /\ 1 \in Ids
  BY <1>2, BindingsAssumption
<1> QED
  BY <1>3 DEF IdsFor

\* A callback of a framework: a call starts, ends, or something else happens.
LEMMA CallbackKeeps ==
  ASSUME CallsInv, NEW t \in Threads, source # "observer", Callback(t)
  PROVE  CallsInv'
<1>0. CallShape /\ IdInv /\ RawInv
  BY DEF CallsInv
<1>1. ASSUME NEW kind \in CallKinds, NEW id \in IdsFor(Len(calls) + 1), Len(calls) < MaxCalls,
             Enter(t, [cb |-> StartCallback(kind), id |-> id, tool |-> ToolName(id), no |-> Len(calls) + 1]),
             calls' = Append(calls, [kind |-> kind, id |-> id, phase |-> "starting"])
      PROVE  CallsInv'
  <2> PICK x, r : /\ x = [kind |-> kind, id |-> id, phase |-> "starting"]
                  /\ r = [cb |-> StartCallback(kind), id |-> id, tool |-> ToolName(id), no |-> Len(calls) + 1]
    OBVIOUS
  <2>1. id \in Ids \cup {Missing} /\ (source = "langchain" => id \in {Len(calls) + 1, Missing})
    BY <1>0, <1>1, IdsForCalls
  <2>2. kind \in {"llm", "tool"}
    BY <1>1 DEF CallKinds
  <2>3. x \in CallRecords /\ x.phase \in {"starting", "ending"} /\ x.id = id /\ x.kind = kind
    BY <2>1, <2>2 DEF CallRecords, Phases
  <2>4. r.cb \in (IF kind = "llm" THEN LlmCallbacks ELSE ToolCallbacks) /\ r.id = id /\ r.no = Len(calls) + 1
    BY <2>2 DEF StartCallback, LlmCallbacks, ToolCallbacks
  <2>5. source' = source /\ raw'[t] = r /\ \A u \in Threads : u # t => raw'[u] = raw[u] /\ pc'[u] = pc[u]
    BY <1>0, <1>1, EnterFacts
  <2>6. calls' = Append(calls, x) /\ Enter(t, r)
    BY <1>1
  <2>7. calls' \in Seq(CallRecords) /\ Grow(calls, calls') /\ IdInv' /\ RawInv'
    BY <1>0, <2>1, <2>3, <2>4, <2>5, <2>6, EnterNew
  <2> QED
    BY <2>6, <2>7, EnterKeeps
<1>2. ASSUME NEW no \in DOMAIN calls, calls[no].phase = "open",
             Enter(t, [cb |-> EndCallback(calls[no].kind), id |-> calls[no].id,
                       tool |-> IF source = "langchain" THEN Missing ELSE calls[no].id, no |-> no]),
             calls' = [calls EXCEPT ![no].phase = "ending"]
      PROVE  CallsInv'
  <2> PICK r : r = [cb |-> EndCallback(calls[no].kind), id |-> calls[no].id,
                    tool |-> IF source = "langchain" THEN Missing ELSE calls[no].id, no |-> no]
    OBVIOUS
  <2>1. no \in 1..Len(calls) /\ calls[no] \in CallRecords
    BY <1>0 DEF CallShape
  <2>2. calls[no].kind \in {"llm", "tool"}
    BY <2>1 DEF CallRecords
  <2>3. /\ r.cb \in (IF calls[no].kind = "llm" THEN LlmCallbacks ELSE ToolCallbacks)
        /\ r.id = calls[no].id /\ r.no = no
    BY <2>2 DEF EndCallback, LlmCallbacks, ToolCallbacks
  <2>4. source' = source /\ raw'[t] = r /\ \A u \in Threads : u # t => raw'[u] = raw[u] /\ pc'[u] = pc[u]
    BY <1>0, <1>2, EnterFacts
  <2>5. calls' = SetPhase(calls, no, "ending") /\ Enter(t, r)
    BY <1>2 DEF SetPhase
  <2>6. calls' \in Seq(CallRecords) /\ Grow(calls, calls') /\ IdInv' /\ RawInv'
    <3>1. /\ raw'[t].no = no /\ raw'[t].id = calls[no].id /\ UNCHANGED source
          /\ raw'[t].cb \in (IF calls[no].kind = "llm" THEN LlmCallbacks ELSE ToolCallbacks)
      BY <2>3, <2>4
    <3>2. calls[no].phase = "open"
      BY <1>2
    <3> QED
      BY <1>0, <2>1, <2>4, <2>5, <3>1, <3>2, EnterOpen
  <2> QED
    BY <2>5, <2>6, EnterKeeps
<1>3. ASSUME NEW cb \in ExtraCallbacks, Enter(t, [cb |-> cb, id |-> 1, to |-> Missing, no |-> 0]), calls' = calls
      PROVE  CallsInv'
  <2> PICK r : r = [cb |-> cb, id |-> 1, to |-> Missing, no |-> 0]
    OBVIOUS
  <2>1. r.no = 0 /\ r.cb \notin LlmCallbacks \cup ToolCallbacks
    BY <1>0, <1>3 DEF CallShape, Frameworks, ExtraCallbacks, LlmCallbacks, ToolCallbacks
  <2>2. source' = source /\ raw'[t] = r /\ \A u \in Threads : u # t => raw'[u] = raw[u] /\ pc'[u] = pc[u]
    BY <1>0, <1>3, EnterFacts
  <2>3. calls' \in Seq(CallRecords) /\ Grow(calls, calls') /\ IdInv' /\ RawInv'
    BY <1>0, <1>3, <2>1, <2>2, EnterOther
  <2> QED
    BY <1>3, <2>3, EnterKeeps
<1> QED
  BY <1>1, <1>2, <1>3 DEF Callback

\* An observer reports a whole call or a step.
LEMMA ObserveKeeps ==
  ASSUME CallsInv, NEW t \in Threads, NEW kind \in {"llm", "tool", "step"}, source = "observer", Observe(t, kind)
  PROVE  CallsInv'
<1>0. CallShape /\ IdInv /\ RawInv
  BY DEF CallsInv
<1>1. ASSUME NEW id \in IdsFor(0), kind # "step", Len(calls) < MaxCalls,
             Enter(t, [cb |-> IF kind = "llm" THEN "record_llm" ELSE "record_tool", id |-> id, no |-> Len(calls) + 1]),
             calls' = Append(calls, [kind |-> kind, id |-> id, phase |-> "ending"])
      PROVE  CallsInv'
  <2> PICK x, r : /\ x = [kind |-> kind, id |-> id, phase |-> "ending"]
                  /\ r = [cb |-> IF kind = "llm" THEN "record_llm" ELSE "record_tool", id |-> id, no |-> Len(calls) + 1]
    OBVIOUS
  <2>1. id \in Ids \cup {Missing} /\ (source = "langchain" => id \in {Len(calls) + 1, Missing})
    BY <1>0, <1>1, IdsForCalls
  <2>2. kind \in {"llm", "tool"}
    BY <1>1
  <2>3. x \in CallRecords /\ x.phase \in {"starting", "ending"} /\ x.id = id /\ x.kind = kind
    BY <2>1, <2>2 DEF CallRecords, Phases
  <2>4. /\ r.cb \in (IF kind = "llm" THEN LlmCallbacks ELSE ToolCallbacks) /\ r.cb \in ObserverCallbacks
        /\ r.id = id /\ r.no = Len(calls) + 1
    BY <2>2 DEF LlmCallbacks, ToolCallbacks, ObserverCallbacks
  <2>5. source' = source /\ raw'[t] = r /\ \A u \in Threads : u # t => raw'[u] = raw[u] /\ pc'[u] = pc[u]
    BY <1>0, <1>1, EnterFacts
  <2>6. calls' = Append(calls, x) /\ Enter(t, r)
    BY <1>1
  <2>7. calls' \in Seq(CallRecords) /\ Grow(calls, calls') /\ IdInv' /\ RawInv'
    BY <1>0, <2>1, <2>3, <2>4, <2>5, <2>6, EnterNew
  <2> QED
    BY <2>6, <2>7, EnterKeeps
<1>2. ASSUME NEW id \in IdsFor(0), Enter(t, [cb |-> "record_step", id |-> id, no |-> 0]), calls' = calls
      PROVE  CallsInv'
  <2> PICK r : r = [cb |-> "record_step", id |-> id, no |-> 0]
    OBVIOUS
  <2>1. r.no = 0 /\ r.cb \notin LlmCallbacks \cup ToolCallbacks /\ r.cb \in ObserverCallbacks
    BY DEF LlmCallbacks, ToolCallbacks, ObserverCallbacks
  <2>2. source' = source /\ raw'[t] = r /\ \A u \in Threads : u # t => raw'[u] = raw[u] /\ pc'[u] = pc[u]
    BY <1>0, <1>2, EnterFacts
  <2>3. calls' \in Seq(CallRecords) /\ Grow(calls, calls') /\ IdInv' /\ RawInv'
    BY <1>0, <1>2, <2>1, <2>2, EnterOther
  <2> QED
    BY <1>2, <2>3, EnterKeeps
<1> QED
  BY <1>1, <1>2 DEF Observe

\* Steps that leave the calls alone: the log may grow by events that are no invocations, or by
\* the event a thread has in hand.
LEMMA PassKeeps ==
  ASSUME CallsInv, UNCHANGED <<source, raw, calls, pending>>, DOMAIN pc' = Threads, DOMAIN ev' = Threads,
         \A u \in Threads : pc'[u] \in {"entered", "checked", "borrowed"} => pc[u] \in {"entered", "checked", "borrowed"},
         \A u \in Threads : ev'[u] = ev[u] \/ JoinedIn(calls, ev'[u]),
         IsSequence(log'),
         \A i \in 1..Len(log') : \/ \E j \in 1..Len(log) : log'[i] = log[j]
                                 \/ \E u \in Threads : log'[i] = ev[u]
                                 \/ JoinedIn(calls, log'[i])
  PROVE  CallsInv'
<1>1. CallShape /\ IdInv /\ RawInv
  BY DEF CallsInv
<1>2. IdInv' /\ RawInv'
  BY <1>1, MoveKeeps
<1>3. calls' \in Seq(CallRecords) /\ Grow(calls, calls')
  BY <1>1, GrowSame DEF CallShape
<1>4. DOMAIN raw' = Threads /\ DOMAIN pending' = {"llm", "tool"} /\ \A k \in {"llm", "tool"} : DOMAIN pending'[k] = Keys
  BY <1>1 DEF CallShape
<1> QED
  BY <1>2, <1>3, <1>4, CallsKept

\* A call returns: the same, with its call in the next phase.
LEMMA ReturnPass ==
  ASSUME CallsInv, NEW t \in Threads, NEW result, Return(t, result), UNCHANGED pending, IsSequence(log'),
         \A i \in 1..Len(log') : (\E j \in 1..Len(log) : log'[i] = log[j]) \/ \E u \in Threads : log'[i] = ev[u]
  PROVE  CallsInv'
<1>1. CallShape /\ IdInv /\ RawInv
  BY DEF CallsInv
<1>2. /\ source' = source /\ DOMAIN pc' = Threads /\ DOMAIN raw' = Threads /\ DOMAIN ev' = Threads
      /\ calls' \in Seq(CallRecords) /\ Grow(calls, calls') /\ IdInv' /\ RawInv'
      /\ \A u \in Threads : ev'[u] = ev[u] \/ JoinedIn(calls', ev'[u])
  BY <1>1, ReturnKeeps
<1>4. DOMAIN pending' = {"llm", "tool"} /\ \A k \in {"llm", "tool"} : DOMAIN pending'[k] = Keys
  BY <1>1 DEF CallShape
<1> QED
  BY <1>2, <1>4, CallsKept

\* The log is as before, or has one more event.
LEMMA LogSame ==
  ASSUME CallsInv, log' = log
  PROVE  IsSequence(log') /\ \A i \in 1..Len(log') : \E j \in 1..Len(log) : log'[i] = log[j]
BY DEF CallsInv, CallShape

\* One more event.
LEMMA LogMore ==
  ASSUME CallsInv, NEW x, log' = Append(log, x)
  PROVE  IsSequence(log') /\ \A i \in 1..Len(log') : (\E j \in 1..Len(log) : log'[i] = log[j]) \/ log'[i] = x
<1>1. IsSequence(log)
  BY DEF CallsInv, CallShape
<1>2. /\ IsSequence(log') /\ Len(log) \in Nat /\ Len(log') = Len(log) + 1
      /\ log'[Len(log) + 1] = x /\ \A i \in 1..Len(log) : log'[i] = log[i]
  BY <1>1, AnyAppend
<1>3. ASSUME NEW i \in 1..Len(log') PROVE (\E j \in 1..Len(log) : log'[i] = log[j]) \/ log'[i] = x
  <2>1. CASE i = Len(log) + 1
    BY <1>2, <2>1
  <2>2. CASE i # Len(log) + 1
    <3>1. i \in 1..Len(log)
      BY <1>2, <2>2
    <3> QED
      BY <1>2, <3>1
  <2> QED
    BY <2>1, <2>2
<1> QED
  BY <1>2, <1>3

\* Opening, moving on, taking the session, dropping it.
LEMMA OpenKeeps ==
  ASSUME CallsInv, NEW t \in Threads, Open(t)
  PROVE  CallsInv'
<1>1. UNCHANGED <<source, raw, calls, pending, pc, ev>> /\ log' = <<[type |-> "started"]>>
  BY DEF Open, app
<1>2. IsSequence(log') /\ \A i \in 1..Len(log') : JoinedIn(calls, log'[i])
  BY <1>1 DEF IsSequence, JoinedIn
<1>3. DOMAIN pc' = Threads /\ DOMAIN ev' = Threads
  BY <1>1 DEF CallsInv, CallShape
<1> QED
  BY <1>1, <1>2, <1>3, PassKeeps

\* A thread moves on towards the session, or is refused.
LEMMA MovingKeeps ==
  ASSUME CallsInv, NEW t \in Threads, CheckFinished(t) \/ Borrow(t)
  PROVE  CallsInv'
<1>1. pending' = pending /\ log' = log
  BY DEF CheckFinished, Borrow, session
<1>2. IsSequence(log') /\ \A i \in 1..Len(log') : \E j \in 1..Len(log) : log'[i] = log[j]
  BY <1>1, LogSame
<1>3. CASE Return(t, "err")
  BY <1>1, <1>2, <1>3, ReturnPass
<1>4. CASE ~Return(t, "err")
  <2>1. /\ UNCHANGED <<source, raw, calls, ev>> /\ pc[t] \in {"entered", "checked"}
        /\ \E l \in {"checked", "borrowed"} : pc' = [pc EXCEPT ![t] = l]
    BY <1>4 DEF CheckFinished, Borrow, Goto, app
  <2>2. DOMAIN pc' = Threads /\ DOMAIN ev' = Threads
    BY <2>1 DEF CallsInv, CallShape
  <2>3. \A u \in Threads : pc'[u] \in {"entered", "checked", "borrowed"} => pc[u] \in {"entered", "checked", "borrowed"}
    BY <2>1
  <2> QED
    BY <1>1, <1>2, <2>1, <2>2, <2>3, PassKeeps
<1> QED
  BY <1>3, <1>4

\* finish takes the session, or is refused.
LEMMA FinishKeeps ==
  ASSUME CallsInv, NEW t \in Threads, NEW s, Finish(t, s)
  PROVE  CallsInv'
<1>1. pending' = pending /\ log' = log
  BY DEF Finish, Take, session
<1>2. IsSequence(log') /\ \A i \in 1..Len(log') : \E j \in 1..Len(log) : log'[i] = log[j]
  BY <1>1, LogSame
<1>3. CASE Return(t, "err")
  BY <1>1, <1>2, <1>3, ReturnPass
<1>4. CASE ~Return(t, "err")
  <2>1. /\ UNCHANGED <<source, raw, calls>> /\ pc' = [pc EXCEPT ![t] = "taken"]
        /\ \E st : ev' = [ev EXCEPT ![t] = [type |-> "completed", status |-> st]]
    BY <1>4 DEF Finish, Take, Goto, app
  <2>2. DOMAIN pc' = Threads /\ DOMAIN ev' = Threads
    BY <2>1 DEF CallsInv, CallShape
  <2>3. \A u \in Threads : pc'[u] \in {"entered", "checked", "borrowed"} => pc[u] \in {"entered", "checked", "borrowed"}
    BY <2>1 DEF CallsInv, CallShape
  <2>4. \A u \in Threads : ev'[u] = ev[u] \/ JoinedIn(calls, ev'[u])
    BY <2>1 DEF CallsInv, CallShape, JoinedIn
  <2> QED
    BY <1>1, <1>2, <2>1, <2>2, <2>3, <2>4, PassKeeps
<1> QED
  BY <1>3, <1>4

\* The wrapper goes away.
LEMMA DropKeeps ==
  ASSUME CallsInv, NEW t \in Threads, Drop(t)
  PROVE  CallsInv'
<1> PICK x : x = [type |-> "completed", status |-> "failed"]
  OBVIOUS
<1>1. UNCHANGED <<source, raw, calls, pending, pc, ev>> /\ (log' = log \/ log' = Append(log, x))
  BY DEF Drop, app
<1>2. JoinedIn(calls, x)
  BY DEF JoinedIn
<1>3. /\ IsSequence(log')
      /\ \A i \in 1..Len(log') : (\E j \in 1..Len(log) : log'[i] = log[j]) \/ JoinedIn(calls, log'[i])
  <2>1. CASE log' = log
    BY <2>1, LogSame
  <2>2. CASE log' = Append(log, x)
    BY <1>2, <2>2, LogMore
  <2> QED
    BY <1>1, <2>1, <2>2
<1>4. DOMAIN pc' = Threads /\ DOMAIN ev' = Threads
  BY <1>1 DEF CallsInv, CallShape
<1> QED
  BY <1>1, <1>3, <1>4, PassKeeps

\* A topology is set by hand.
LEMMA TopologyKeeps ==
  ASSUME CallsInv, NEW t \in Threads, set_flow_topology(t)
  PROVE  CallsInv'
<1> PICK x : x = edge_topology(<<<<Name(1), Name(Missing)>>>>)
  OBVIOUS
<1>1. UNCHANGED <<source, raw, calls, pending, pc, ev>> /\ (log' = log \/ log' = Append(log, x))
  BY DEF set_flow_topology, record_advisory
<1>2. JoinedIn(calls, x)
  BY DEF JoinedIn, edge_topology
<1>3. /\ IsSequence(log')
      /\ \A i \in 1..Len(log') : (\E j \in 1..Len(log) : log'[i] = log[j]) \/ JoinedIn(calls, log'[i])
  <2>1. CASE log' = log
    BY <2>1, LogSame
  <2>2. CASE log' = Append(log, x)
    BY <1>2, <2>2, LogMore
  <2> QED
    BY <1>1, <2>1, <2>2
<1>4. DOMAIN pc' = Threads /\ DOMAIN ev' = Threads
  BY <1>1 DEF CallsInv, CallShape
<1> QED
  BY <1>1, <1>3, <1>4, PassKeeps

\* An event in hand is written.
LEMMA RecordKeeps ==
  ASSUME CallsInv, NEW t \in Threads, record(t) \/ finish_inner(t)
  PROVE  CallsInv'
<1>1. pending' = pending /\ log' = Append(log, ev[t]) /\ Return(t, "ok")
  BY DEF record, finish_inner
<1> PICK x : x = ev[t]
  OBVIOUS
<1>2. IsSequence(log') /\ \A i \in 1..Len(log') : (\E j \in 1..Len(log) : log'[i] = log[j]) \/ log'[i] = x
  BY <1>1, LogMore
<1> QED
  BY <1>1, <1>2, ReturnPass

\* finish writes the topology.
LEMMA ClosingKeeps ==
  ASSUME CallsInv, NEW t \in Threads, finish_topology(t)
  PROVE  CallsInv'
<1>1. UNCHANGED <<source, raw, calls, pending, ev>> /\ pc' = [pc EXCEPT ![t] = "closing"]
  BY DEF finish_topology, Goto, app
<1>2. PICK x : (log' = log \/ log' = Append(log, x)) /\ x \in {edge_topology(seen_edges), inferred_topology(seen_nodes)}
  BY DEF finish_topology, record_advisory
<1>3. JoinedIn(calls, x)
  BY <1>2 DEF edge_topology, inferred_topology, JoinedIn
<1>4. /\ IsSequence(log')
      /\ \A i \in 1..Len(log') : (\E j \in 1..Len(log) : log'[i] = log[j]) \/ JoinedIn(calls, log'[i])
  <2>1. CASE log' = log
    BY <2>1, LogSame
  <2>2. CASE log' = Append(log, x)
    BY <1>3, <2>2, LogMore
  <2> QED
    BY <1>2, <2>1, <2>2
<1>5. DOMAIN pc' = Threads /\ DOMAIN ev' = Threads
  BY <1>1 DEF CallsInv, CallShape
<1>6. \A u \in Threads : pc'[u] \in {"entered", "checked", "borrowed"} => pc[u] \in {"entered", "checked", "borrowed"}
  BY <1>1 DEF CallsInv, CallShape
<1> QED
  BY <1>1, <1>4, <1>5, <1>6, PassKeeps

\* The key of an identifier names it.
LEMMA NamesDiffer ==
  ASSUME NEW a \in Ids \cup {Missing}, NEW b \in Ids \cup {Missing}, Name(a) = Name(b)
  PROVE  a = b /\ Name(a) \in Keys
<1>1. a \in Nat /\ b \in Nat
  BY IdsAssumption DEF Missing
<1> QED
  BY <1>1 DEF Name, Keys

\* A callback is handled: a start is parked under its key, an end takes what is parked there.
LEMMA HandleKeeps ==
  ASSUME CallsInv, NEW t \in Threads, handle_event(t)
  PROVE  CallsInv'
<1>0. CallShape /\ IdInv /\ RawInv /\ PendingInv
  BY DEF CallsInv
<1>1. CASE Translated(t) = <<>>
  <2>1. Return(t, "ok") /\ pending' = pending /\ log' = log
    BY <1>1 DEF handle_event, session
  <2>2. IsSequence(log') /\ \A i \in 1..Len(log') : \E j \in 1..Len(log) : log'[i] = log[j]
    BY <2>1, LogSame
  <2> QED
    BY <2>1, <2>2, ReturnPass
<1>2. CASE Translated(t) # <<>>
  <2> PICK e : e = Translated(t)[1]
    OBVIOUS
  <2>1. \/ handle_start(t, e) \/ handle_end(t, e) \/ handle_transition(t, e) \/ handle_step(t, e) \/ handle_whole(t, e)
    BY <1>2 DEF handle_event
  <2>2. pc[t] = "borrowed"
    BY DEF handle_event
  <2> PICK n, k, key : n = raw[t].no /\ k = KindOf(e) /\ key = e.key
    OBVIOUS
  <2>3. e.type \in CallTypes => n # 0 /\ e.no = n /\ key = Name(raw[t].id) /\ calls[n].id = raw[t].id /\ calls[n].kind = k
    <3>1. source \in Frameworks \cup {"observer"} /\ RawIn(calls, raw[t]) /\ (source = "observer" => raw[t].cb \in ObserverCallbacks)
      BY <1>0, <2>2 DEF CallShape, RawInv
    <3> QED
      BY <1>2, <3>1, TranslatedMatches
  <2>4. n # 0 => n \in 1..Len(calls) /\ calls[n] \in CallRecords
    BY <1>0 DEF CallShape, RawInv, RawIn
  <2>5. e.type \in CallTypes =>
          /\ n \in 1..Len(calls) /\ e.no = n /\ key = Name(calls[n].id) /\ calls[n].kind = k /\ calls[n].id \in Ids \cup {Missing}
          /\ key \in Keys /\ k \in {"llm", "tool"}
    BY <2>3, <2>4 DEF CallRecords, Keys, KindOf
  <2>6. log' = log
    BY <2>1 DEF handle_start, handle_end, handle_transition, handle_step, handle_whole, session
  <2>7. IsSequence(log') /\ \A i \in 1..Len(log') : \E j \in 1..Len(log) : log'[i] = log[j]
    BY <2>6, LogSame
  <2>8. CASE handle_transition(t, e)
    <3>1. Return(t, "ok") /\ pending' = pending
      BY <2>8 DEF handle_transition
    <3> QED
      BY <2>7, <3>1, ReturnPass
  <2>9. CASE handle_step(t, e) \/ handle_whole(t, e)
    <3>1. /\ UNCHANGED <<source, raw, calls, pending>> /\ pc' = [pc EXCEPT ![t] = "recording"]
          /\ \E ty, no : ev' = [ev EXCEPT ![t] = [type |-> ty, node |-> no, req |-> e.no, resp |-> e.no]]
      BY <2>9 DEF handle_step, handle_whole, Goto, session, app
    <3>2. DOMAIN pc' = Threads /\ DOMAIN ev' = Threads
      BY <1>0, <3>1 DEF CallShape
    <3>3. \A u \in Threads : pc'[u] \in {"entered", "checked", "borrowed"} => pc[u] \in {"entered", "checked", "borrowed"}
      BY <1>0, <3>1 DEF CallShape
    <3>4. \A u \in Threads : ev'[u] = ev[u] \/ JoinedIn(calls, ev'[u])
      BY <1>0, <3>1 DEF CallShape, JoinedIn
    <3> QED
      BY <2>7, <3>1, <3>2, <3>3, <3>4, PassKeeps
  <2>10. CASE handle_start(t, e)
    <3>1. Return(t, "ok") /\ pending' = [pending EXCEPT ![k][key] = e] /\ e.type \in CallTypes
      BY <2>10 DEF handle_start, park, CallTypes
    <3>2. /\ source' = source /\ DOMAIN pc' = Threads /\ DOMAIN raw' = Threads /\ DOMAIN ev' = Threads
          /\ calls' \in Seq(CallRecords) /\ Grow(calls, calls') /\ IdInv' /\ RawInv'
          /\ \A u \in Threads : ev'[u] = ev[u] \/ JoinedIn(calls', ev'[u])
      BY <1>0, <3>1, ReturnKeeps
    <3>3. ParkedIn(calls, k, key, e)
      BY <2>5, <3>1 DEF ParkedIn
    <3>4. ParkedIn(calls', k, key, e)
      BY <1>0, <3>2, <3>3, ParkedStays DEF CallShape
    <3>5. DOMAIN pending' = {"llm", "tool"} /\ \A kk \in {"llm", "tool"} : DOMAIN pending'[kk] = Keys
      BY <1>0, <3>1 DEF CallShape
    <3>6. \A kk \in {"llm", "tool"}, q \in Keys : pending'[kk][q] = pending[kk][q] \/ (kk = k /\ q = key /\ pending'[kk][q] = e)
      BY <1>0, <3>1 DEF CallShape
    <3>7. \A kk \in {"llm", "tool"}, q \in Keys : pending'[kk][q] = pending[kk][q] \/ ParkedIn(calls', kk, q, pending'[kk][q])
      BY <3>4, <3>6
    <3> QED
      BY <2>7, <3>2, <3>5, <3>7, CallsKept
  <2>11. CASE handle_end(t, e)
    <3> PICK p : p = pending[k][key]
      OBVIOUS
    <3>1. /\ UNCHANGED <<source, raw, calls>> /\ pc' = [pc EXCEPT ![t] = "recording"] /\ e.type \in CallTypes
          /\ pending' = [pending EXCEPT ![k][key] = NoEvent]
          /\ \E no : ev' = [ev EXCEPT ![t] = [type |-> k, node |-> no, req |-> IF p # NoEvent THEN p.no ELSE 0, resp |-> e.no]]
      BY <2>11 DEF handle_end, unpark, Goto, CallTypes, app
    <3>2. DOMAIN pc' = Threads /\ DOMAIN ev' = Threads
      BY <1>0, <3>1 DEF CallShape
    <3>3. \A u \in Threads : pc'[u] \in {"entered", "checked", "borrowed"} => pc[u] \in {"entered", "checked", "borrowed"}
      BY <1>0, <3>1 DEF CallShape
    <3>4. IdInv' /\ RawInv'
      BY <1>0, <3>1, <3>3, MoveKeeps
    <3>5. ParkedIn(calls, k, key, p)
      BY <1>0, <2>5, <3>1 DEF PendingInv
    <3>6. p # NoEvent => p.no \in 1..Len(calls) /\ calls[p.no].kind = calls[n].kind /\ calls[p.no].id = calls[n].id
      <4> SUFFICES ASSUME p # NoEvent
                   PROVE  p.no \in 1..Len(calls) /\ calls[p.no].kind = calls[n].kind /\ calls[p.no].id = calls[n].id
        OBVIOUS
      <4>1. p.no \in 1..Len(calls) /\ calls[p.no].kind = k /\ Name(calls[p.no].id) = key
        BY <3>5 DEF ParkedIn
      <4>2. calls[p.no] \in CallRecords
        <5> PICK m : m = p.no
          OBVIOUS
        <5>1. m \in 1..Len(calls) /\ calls \in Seq(CallRecords)
          BY <1>0, <4>1 DEF CallShape
        <5> QED
          BY <5>1
      <4>3. calls[p.no].id \in Ids \cup {Missing}
        BY <4>2 DEF CallRecords
      <4>4. PICK a, b : a = calls[p.no].id /\ b = calls[n].id
        OBVIOUS
      <4>5. /\ a \in Ids \cup {Missing} /\ b \in Ids \cup {Missing} /\ Name(a) = Name(b)
        BY <2>5, <3>1, <4>1, <4>3, <4>4
      <4>6. a = b
        BY <4>5, NamesDiffer
      <4> QED
        BY <2>5, <3>1, <4>1, <4>4, <4>6
    <3>7. \A u \in Threads : ev'[u] = ev[u] \/ JoinedIn(calls, ev'[u])
      <4>1. PICK no : ev' = [ev EXCEPT ![t] = [type |-> k, node |-> no, req |-> IF p # NoEvent THEN p.no ELSE 0, resp |-> e.no]]
        BY <3>1
      <4>2. ev'[t].req = (IF p # NoEvent THEN p.no ELSE 0) /\ ev'[t].resp = n /\ n \in 1..Len(calls)
        BY <1>0, <2>5, <3>1, <4>1 DEF CallShape
      <4>3. JoinedIn(calls, ev'[t])
        BY <3>6, <4>2 DEF JoinedIn
      <4> QED
        BY <4>1, <4>3
    <3>8. DOMAIN pending' = {"llm", "tool"} /\ \A kk \in {"llm", "tool"} : DOMAIN pending'[kk] = Keys
      BY <1>0, <3>1 DEF CallShape
    <3>9. \A kk \in {"llm", "tool"}, q \in Keys : pending'[kk][q] = pending[kk][q] \/ pending'[kk][q] = NoEvent
      BY <1>0, <3>1 DEF CallShape
    <3>10. \A kk \in {"llm", "tool"}, q \in Keys : pending'[kk][q] = pending[kk][q] \/ ParkedIn(calls', kk, q, pending'[kk][q])
      BY <3>9 DEF ParkedIn
    <3>11. calls' \in Seq(CallRecords) /\ Grow(calls, calls') /\ DOMAIN raw' = Threads
      BY <1>0, <3>1, GrowSame DEF CallShape
    <3> QED
      BY <2>7, <3>1, <3>2, <3>4, <3>7, <3>8, <3>10, <3>11, CallsKept
  <2> QED
    BY <2>1, <2>8, <2>9, <2>10, <2>11
<1> QED
  BY <1>1, <1>2

\* Every step keeps the calls and what is said about them in agreement.
LEMMA CallsSteps ==
  ASSUME CallsInv, [Next]_vars
  PROVE  CallsInv'
<1>1. CASE flush \/ UNCHANGED vars
  <2>1. UNCHANGED <<source, raw, calls, pending, pc, ev, log>>
    BY <1>1 DEF flush, vars, session, app
  <2> QED
    BY <2>1 DEF CallsInv, CallShape, IdInv, RawInv, PendingInv, JoinInv
<1>2. ASSUME NEW t \in Threads, Step(t) PROVE CallsInv'
  BY <1>2, StepKinds, OpenKeeps, CallbackKeeps, ObserveKeeps, FinishKeeps, DropKeeps, TopologyKeeps, MovingKeeps,
     HandleKeeps, RecordKeeps, ClosingKeeps
<1> QED
  BY <1>1, <1>2 DEF Next

\* No call has been made when a session begins.
LEMMA InitCalls == Init => CallsInv
<1> SUFFICES ASSUME Init PROVE CallsInv
  OBVIOUS
<1>1. CallShape
  BY BindingsAssumption DEF Init, CallShape, IsSequence
<1>2. IdInv /\ RawInv
  BY DEF Init, IdInv, RawInv, RawIn, Nobody, LlmCallbacks, ToolCallbacks
<1>3. PendingInv /\ JoinInv
  BY DEF Init, PendingInv, JoinInv, ParkedIn, JoinedIn, NoEvent
<1> QED
  BY <1>1, <1>2, <1>3 DEF CallsInv

\* A recorded invocation never joins the callbacks of two calls with different keys, and with
\* LangChain, whose run ids do not repeat, never those of two calls that had a run id: for every
\* number of threads and calls and every interleaving of their callbacks.
THEOREM CallsPaired == Spec => []Paired
<1>1. Init => CallsInv
  BY InitCalls
<1>2. CallsInv => Paired
  <2> SUFFICES ASSUME CallsInv, NEW i \in Invocations, log[i].req \notin {0, log[i].resp}
               PROVE  SameKey(log[i].req, log[i].resp) /\ (source = "langchain" => calls[log[i].resp].id = Missing)
    BY DEF Paired
  <2> PICK a, b : a = log[i].req /\ b = log[i].resp
    OBVIOUS
  <2>1. i \in 1..Len(log) /\ log[i].type \in {"llm", "tool"}
    BY DEF Invocations, CallsInv, CallShape, IsSequence
  <2>2. JoinedIn(calls, log[i])
    BY <2>1 DEF CallsInv, JoinInv
  <2>3. a \in 1..Len(calls) /\ b \in 1..Len(calls) /\ a # b /\ calls[a].kind = calls[b].kind /\ calls[a].id = calls[b].id
    BY <2>1, <2>2 DEF JoinedIn
  <2>4. source = "langchain" => calls[a].id \in {a, Missing} /\ calls[b].id \in {b, Missing}
    BY <2>3 DEF CallsInv, IdInv
  <2> QED
    BY <2>3, <2>4 DEF SameKey
<1> QED
  BY <1>1, <1>2, CallsSteps, PTL DEF Spec

-----------------------------------------------------------------------------
(* The names of a topology, sorted *)

Smaller(S, x) == {y \in S : y < x}
\* The number of smaller names tells where a name is.
LEMMA RankOf ==
  ASSUME NEW S, IsFiniteSet(S), S \subseteq Nat
  PROVE  /\ Cardinality(S) \in Nat
         /\ \A x \in S : Cardinality(Smaller(S, x)) \in 0..(Cardinality(S) - 1)
         /\ \A x, y \in S : Cardinality(Smaller(S, x)) = Cardinality(Smaller(S, y)) => x = y
         /\ \A k \in 1..Cardinality(S) : \E x \in S : Cardinality(Smaller(S, x)) = k - 1
<1>0. Cardinality(S) \in Nat
  BY FS_CardinalityType
<1>1. ASSUME NEW x \in S
      PROVE  /\ IsFiniteSet(Smaller(S, x)) /\ Cardinality(Smaller(S, x)) \in Nat
             /\ Cardinality(Smaller(S, x)) <= Cardinality(S) - 1
  <2>1. Smaller(S, x) \subseteq S \ {x}
    BY DEF Smaller
  <2>2. IsFiniteSet(S \ {x}) /\ Cardinality(S \ {x}) = Cardinality(S) - 1
    BY FS_RemoveElement
  <2> QED
    BY <2>1, <2>2, FS_Subset, FS_CardinalityType
<1>2. ASSUME NEW x \in S, NEW y \in S, x < y PROVE Cardinality(Smaller(S, x)) < Cardinality(Smaller(S, y))
  <2>1. Smaller(S, x) \subseteq Smaller(S, y)
    <3> SUFFICES ASSUME NEW z \in S, z < x PROVE z < y
      BY DEF Smaller
    <3>1. x \in Nat /\ y \in Nat /\ z \in Nat
      OBVIOUS
    <3> QED
      BY <1>2, <3>1
  <2>2. x \in Smaller(S, y) /\ x \notin Smaller(S, x)
    BY <1>2 DEF Smaller
  <2>3. /\ Cardinality(Smaller(S, x)) <= Cardinality(Smaller(S, y))
        /\ Cardinality(Smaller(S, x)) # Cardinality(Smaller(S, y))
    BY <1>1, <2>1, <2>2, FS_Subset
  <2> QED
    BY <1>1, <2>3
<1> DEFINE f == [x \in S |-> Cardinality(Smaller(S, x))]
           N == 0..(Cardinality(S) - 1)
<1>3. f \in [S -> N]
  BY <1>0, <1>1
<1>4. \A x, y \in S : Cardinality(Smaller(S, x)) = Cardinality(Smaller(S, y)) => x = y
  <2> SUFFICES ASSUME NEW x \in S, NEW y \in S, Cardinality(Smaller(S, x)) = Cardinality(Smaller(S, y)), x # y PROVE FALSE
    OBVIOUS
  <2>1. x < y \/ y < x
    OBVIOUS
  <2> QED
    BY <1>1, <1>2, <2>1
<1>5. IsFiniteSet(N) /\ Cardinality(N) = Cardinality(S)
  <2>1. 0 \in Int /\ Cardinality(S) - 1 \in Int
    BY <1>0
  <2>2. IsFiniteSet(N) /\ Cardinality(N) = IF 0 > Cardinality(S) - 1 THEN 0 ELSE (Cardinality(S) - 1) - 0 + 1
    BY <2>1, FS_Interval
  <2> HIDE DEF N
  <2> QED
    BY <1>0, <2>2
<1>6. f \in Surjection(S, N)
  <2>1. f \in Injection(S, N)
    BY <1>3, <1>4 DEF Injection, IsInjective
  <2> HIDE DEF f, N
  <2> QED
    BY <1>5, <2>1, FS_Injection
<1>7. \A k \in 1..Cardinality(S) : \E x \in S : Cardinality(Smaller(S, x)) = k - 1
  <2>1. \A m \in N : \E x \in S : f[x] = m
    BY <1>6 DEF Surjection
  <2>2. \A k \in 1..Cardinality(S) : k - 1 \in N
    BY <1>0
  <2> QED
    BY <2>1, <2>2
<1> QED
  BY <1>0, <1>1, <1>4, <1>7

\* A sorted set has exactly its elements.
LEMMA SortedRange ==
  ASSUME NEW S, IsFiniteSet(S), S \subseteq Nat
  PROVE  Range(Sorted(S)) = S
<1> DEFINE n == Cardinality(S)
           rank(x) == Cardinality(Smaller(S, x))
           q == Sorted(S)
<1>1. /\ n \in Nat /\ \A x \in S : rank(x) \in 0..(n - 1)
      /\ \A x, y \in S : rank(x) = rank(y) => x = y
      /\ \A k \in 1..n : \E x \in S : rank(x) = k - 1
  BY RankOf
<1>2. DOMAIN q = 1..n /\ \A k \in 1..n : q[k] = CHOOSE x \in S : rank(x) = k - 1
  BY DEF Sorted, Smaller
<1> HIDE DEF n, rank, q
<1>3. ASSUME NEW k \in 1..n PROVE q[k] \in S /\ rank(q[k]) = k - 1
  BY <1>1, <1>2
<1>4. ASSUME NEW x \in S PROVE \E k \in 1..n : q[k] = x
  <2>1. rank(x) + 1 \in 1..n /\ rank(x) = (rank(x) + 1) - 1
    BY <1>1
  <2>2. q[rank(x) + 1] \in S /\ rank(q[rank(x) + 1]) = rank(x)
    BY <1>3, <2>1
  <2> QED
    BY <1>1, <2>1, <2>2
<1>5. Range(q) = S
  BY <1>2, <1>3, <1>4 DEF Range
<1> QED
  BY <1>5 DEF q

-----------------------------------------------------------------------------
(* A session is complete: the events in hand, the log, its end and its topology *)

\* The call c of a framework or observer that callback r is about, and the phase it is in.
Fits(c, r) ==
  /\ source = "observer" => c.phase = "ending" /\ r.cb = IF c.kind = "llm" THEN "record_llm" ELSE "record_tool"
  /\ source # "observer" => /\ r.cb = IF c.phase = "starting" THEN StartCallback(c.kind) ELSE EndCallback(c.kind)
                            /\ r.tool \in Nat

\* A thread at p with callback r and event e in hand: the event is of the call that is ending.
TalkOf(c, p, r, e) ==
  /\ r.id \in Nat /\ (p \in {"idle", "taken", "closing"} => r.no = 0)
  /\ r.no # 0 => Fits(c[r.no], r)
  /\ p = "recording" => /\ e.node \in Nat
                        /\ \/ e.type \in {"llm", "tool"} /\ r.no # 0 /\ e.resp = r.no /\ c[r.no].phase = "ending"
                           \/ e.type = "step" /\ r.no = 0
  /\ p \in {"taken", "closing"} => e.type = "completed"
TalkInv ==
  /\ \A n \in 1..Len(calls) : source # "observer" => calls[n].kind \in CallKinds
  /\ \A t \in Threads : TalkOf(calls, pc[t], raw[t], ev[t])
  /\ \A key \in Keys : pending["tool"][key] # NoEvent => pending["tool"][key].tool \in Nat

IsInvocation(e) == e.type \in {"llm", "tool"}
\* The invocations in l are those of the calls in c that were acknowledged, once each.
Booked(l, c) ==
  /\ \A i \in 1..Len(l) : IsInvocation(l[i]) => l[i].resp \in 1..Len(c) /\ c[l[i].resp].phase = "recorded"
  /\ \A i, j \in 1..Len(l) : IsInvocation(l[i]) /\ IsInvocation(l[j]) /\ l[i].resp = l[j].resp => i = j
  /\ \A n \in 1..Len(c) : c[n].phase = "recorded" => \E i \in 1..Len(l) : IsInvocation(l[i]) /\ l[i].resp = n

InFinish(t) == pc[t] \in {"taken", "closing"}
\* The store has everything, or has failed both calls of the last flush.
Kept == stored \/ "tail" \in lost
\* One thread at most finishes the session it has taken; until it has, the log has no end.
EndInv ==
  /\ slot \in {"absent", "some", "none", "removed"}
  /\ slot = "absent" => log = <<>> /\ calls = <<>>
  /\ \A i \in 1..Len(log) : log[i].type = "completed" =>
       i = Len(log) /\ slot \in {"none", "removed"} /\ \A t \in Threads : ~InFinish(t)
  /\ \A t \in Threads : InFinish(t) => slot \in {"none", "removed"}
  /\ \A t, u \in Threads : InFinish(t) /\ InFinish(u) => t = u
  /\ slot = "none" /\ (\A t \in Threads : ~InFinish(t)) => Kept

\* The topology is still to be written.
Ahead == slot \in {"absent", "some"} \/ \E t \in Threads : pc[t] = "taken"
HintsIn(l) == {i \in 1..Len(l) : l[i].type = "topology"}
TopInv ==
  /\ IsFiniteSet(seen_nodes) /\ seen_nodes \subseteq Nat /\ topology_set \in BOOLEAN
  /\ slot = "absent" => ~topology_set
  /\ topology_set => HintsIn(log) # {} \/ "hint" \in lost
  /\ Ahead /\ ~topology_set => HintsIn(log) = {}
  /\ source # "observer" => (Ahead => ~topology_set) /\ \A i, j \in HintsIn(log) : i = j
  /\ ~topology_set => \A i \in HintsIn(log) : Range(log[i].nodes) = seen_nodes
  /\ slot = "none" /\ ~Ahead /\ seen_nodes # {} => HintsIn(log) # {} \/ "hint" \in lost

\* What is true of a session, for as long as no dangling pointer has been used.
SessionInv == Booked(log, calls) /\ EndInv /\ TopInv
DoneInv == ub \/ SessionInv

-----------------------------------------------------------------------------
(* The events in hand *)

\* What a call that returns leaves behind: its call has been started, recorded or refused.
LEMMA ReturnCalls ==
  ASSUME CallShape, RawInv, NEW t \in Threads, NEW result, Return(t, result), NEW n, n = raw[t].no
  PROVE  /\ n = 0 => calls' = calls
         /\ n # 0 =>
              /\ n \in 1..Len(calls) /\ Len(calls') = Len(calls) /\ calls[n].phase \in {"starting", "ending"}
              /\ \A m \in 1..Len(calls) : m # n => calls'[m] = calls[m]
              /\ calls'[n].phase = IF calls[n].phase = "starting" THEN "open" ELSE IF result = "ok" THEN "recorded" ELSE "refused"
<1>1. n = 0 => calls' = calls
  BY DEF Return
<1>2. CASE n # 0
  <2> PICK c, d : c = calls /\ d = calls'
    OBVIOUS
  <2> PICK p : p = IF c[n].phase = "starting" THEN "open" ELSE IF result = "ok" THEN "recorded" ELSE "refused"
    OBVIOUS
  <2>1. n \in 1..Len(c) /\ c[n].phase \in {"starting", "ending"} /\ c \in Seq(CallRecords)
    BY <1>2 DEF RawInv, RawIn, CallShape
  <2>2. d = SetPhase(c, n, p) /\ p \in Phases
    <3>1. CASE c[n].phase = "starting"
      <4>1. d = [c EXCEPT ![n].phase = "open"]
        BY <1>2, <3>1 DEF Return
      <4> QED
        BY <3>1, <4>1 DEF Phases, SetPhase
    <3>2. CASE c[n].phase = "ending"
      <4>1. d = [c EXCEPT ![n].phase = IF result = "ok" THEN "recorded" ELSE "refused"]
        BY <1>2, <3>2 DEF Return
      <4> QED
        BY <3>2, <4>1 DEF Phases, SetPhase
    <3> QED
      BY <2>1, <3>1, <3>2
  <2>3. Len(d) = Len(c) /\ d[n].phase = p /\ \A m \in 1..Len(c) : m # n => d[m] = c[m]
    <3>1. PICK q \in Phases, k \in 1..Len(c) : q = p /\ k = n
      BY <2>1, <2>2
    <3>2. c \in Seq(CallRecords) /\ d = SetPhase(c, k, q)
      BY <2>1, <2>2, <3>1
    <3>3. Len(d) = Len(c) /\ d[k].phase = q /\ \A m \in 1..Len(c) : m # k => d[m] = c[m]
      BY <3>2, GrowPhase
    <3> QED
      BY <3>1, <3>3
  <2> QED
    BY <1>2, <2>1, <2>3
<1> QED
  BY <1>1, <1>2

\* Only one thread and its call change: the others still have their events in hand.
LEMMA TalkStep ==
  ASSUME CallsInv, TalkInv, NEW t \in Threads, source' = source,
         \A u \in Threads : u # t => pc'[u] = pc[u] /\ raw'[u] = raw[u] /\ ev'[u] = ev[u],
         \A u \in Threads : u # t /\ raw[u].no # 0 => calls'[raw[u].no] = calls[raw[u].no],
         source # "observer" => \A n \in 1..Len(calls') : calls'[n].kind \in CallKinds,
         TalkOf(calls', pc'[t], raw'[t], ev'[t]),
         \A key \in Keys : pending'["tool"][key] # NoEvent => pending'["tool"][key].tool \in Nat
  PROVE  TalkInv'
<1>1. ASSUME NEW u \in Threads, u # t PROVE TalkOf(calls', pc'[u], raw'[u], ev'[u])
  <2>1. TalkOf(calls, pc[u], raw[u], ev[u])
    BY DEF TalkInv
  <2> PICK r, p, e, c, d : r = raw[u] /\ p = pc[u] /\ e = ev[u] /\ c = calls /\ d = calls'
    OBVIOUS
  <2>2. raw'[u] = r /\ pc'[u] = p /\ ev'[u] = e /\ (r.no # 0 => d[r.no] = c[r.no])
    BY <1>1
  <2>3. TalkOf(c, p, r, e)
    BY <2>1
  <2>4. TalkOf(d, p, r, e)
    BY <2>2, <2>3 DEF TalkOf, Fits
  <2> QED
    BY <2>2, <2>4
<1>2. ASSUME NEW u \in Threads PROVE TalkOf(calls', pc'[u], raw'[u], ev'[u])
  BY <1>1
<1>3. ASSUME NEW u \in Threads PROVE TalkOf(calls, pc[u], raw[u], ev[u])'
  <2> PICK r, p, e, d : r = raw'[u] /\ p = pc'[u] /\ e = ev'[u] /\ d = calls'
    OBVIOUS
  <2>1. TalkOf(d, p, r, e)
    BY <1>2
  <2> QED
    BY <2>1 DEF TalkOf, Fits, StartCallback, EndCallback
<1>4. (\A n \in 1..Len(calls) : source # "observer" => calls[n].kind \in CallKinds)'
  BY DEF CallKinds
<1> QED
  BY <1>3, <1>4 DEF TalkInv

\* Kinds are settled when a call is made.
LEMMA KindsStay ==
  ASSUME CallsInv, TalkInv, NEW d \in Seq(CallRecords), Grow(calls, d), Len(d) = Len(calls), source # "observer"
  PROVE  \A n \in 1..Len(d) : d[n].kind \in CallKinds
BY DEF TalkInv, Grow

\* The call of a thread is its own.
LEMMA CallsApart ==
  ASSUME RawInv, NEW t \in Threads, NEW u \in Threads, t # u, raw[u].no # 0
  PROVE  raw[u].no # raw[t].no /\ raw[u].no \in 1..Len(calls) /\ calls[raw[u].no].phase \in {"starting", "ending"}
<1>1. raw[u].no # raw[t].no
  BY DEF RawInv
<1>2. RawIn(calls, raw[u])
  BY DEF RawInv
<1> QED
  BY <1>1, <1>2 DEF RawIn

\* A call returns.
LEMMA ReturnTalk ==
  ASSUME CallsInv, TalkInv, NEW t \in Threads, NEW result, Return(t, result),
         \A key \in Keys : pending'["tool"][key] # NoEvent => pending'["tool"][key].tool \in Nat
  PROVE  TalkInv'
<1>0. CallShape /\ IdInv /\ RawInv
  BY DEF CallsInv
<1>1. source' = source /\ calls' \in Seq(CallRecords) /\ Grow(calls, calls')
  BY <1>0, ReturnKeeps
<1> PICK n : n = raw[t].no
  OBVIOUS
<1>2. /\ n = 0 => calls' = calls
      /\ n # 0 => n \in 1..Len(calls) /\ Len(calls') = Len(calls) /\ \A m \in 1..Len(calls) : m # n => calls'[m] = calls[m]
  BY <1>0, ReturnCalls
<1>3. /\ \A u \in Threads : u # t => pc'[u] = pc[u] /\ raw'[u] = raw[u] /\ ev'[u] = ev[u]
      /\ pc'[t] = "idle" /\ raw'[t] = Nobody
  BY <1>0 DEF CallShape, Return
<1>4. ASSUME NEW u \in Threads, u # t, raw[u].no # 0 PROVE calls'[raw[u].no] = calls[raw[u].no]
  <2>1. raw[u].no # n /\ raw[u].no \in 1..Len(calls)
    BY <1>0, <1>4, CallsApart
  <2> QED
    BY <1>2, <2>1
<1>5. TalkOf(calls', pc'[t], raw'[t], ev'[t])
  BY <1>3 DEF TalkOf, Nobody, Missing
<1>6. source # "observer" => \A m \in 1..Len(calls') : calls'[m].kind \in CallKinds
  BY <1>1, <1>2, KindsStay
<1> QED
  BY <1>1, <1>3, <1>4, <1>5, <1>6, TalkStep

\* A thread enters with a callback that fits its call.
LEMMA EnterTalk ==
  ASSUME CallsInv, TalkInv, NEW t \in Threads, NEW r, Enter(t, r), r.id \in Nat,
         r.no # 0 => Fits(calls'[r.no], r),
         \A u \in Threads : u # t /\ raw[u].no # 0 => calls'[raw[u].no] = calls[raw[u].no],
         source # "observer" => \A n \in 1..Len(calls') : calls'[n].kind \in CallKinds
  PROVE  TalkInv'
<1>0. CallShape
  BY DEF CallsInv
<1>1. source' = source /\ raw'[t] = r /\ \A u \in Threads : u # t => raw'[u] = raw[u] /\ pc'[u] = pc[u]
  BY <1>0, EnterFacts
<1>2. UNCHANGED <<ev, pending>> /\ pc'[t] \in {"entered", "checked"}
  BY <1>0 DEF Enter, Goto, session, CallShape
<1>3. TalkOf(calls', pc'[t], raw'[t], ev'[t])
  BY <1>1, <1>2 DEF TalkOf
<1>4. \A key \in Keys : pending'["tool"][key] # NoEvent => pending'["tool"][key].tool \in Nat
  BY <1>2 DEF TalkInv
<1> QED
  BY <1>1, <1>2, <1>3, <1>4, TalkStep

\* Identifiers, names and keys are numbers.
LEMMA NumbersOfIds ==
  ASSUME NEW id \in Ids \cup {Missing}
  PROVE  id \in Nat /\ ToolName(id) \in Nat
BY IdsAssumption DEF Missing, ToolName

\* A callback of a framework.
LEMMA CallbackTalk ==
  ASSUME CallsInv, TalkInv, NEW t \in Threads, source # "observer", Callback(t)
  PROVE  TalkInv'
<1>0. CallShape /\ RawInv /\ calls \in Seq(CallRecords) /\ Len(calls) \in Nat
  BY DEF CallsInv, CallShape
<1>1. ASSUME NEW kind \in CallKinds, NEW id \in IdsFor(Len(calls) + 1), Len(calls) < MaxCalls,
             Enter(t, [cb |-> StartCallback(kind), id |-> id, tool |-> ToolName(id), no |-> Len(calls) + 1]),
             calls' = Append(calls, [kind |-> kind, id |-> id, phase |-> "starting"])
      PROVE  TalkInv'
  <2> PICK x, r : /\ x = [kind |-> kind, id |-> id, phase |-> "starting"]
                  /\ r = [cb |-> StartCallback(kind), id |-> id, tool |-> ToolName(id), no |-> Len(calls) + 1]
    OBVIOUS
  <2>1. id \in Ids \cup {Missing}
    BY <1>0, <1>1, IdsForCalls
  <2>2. id \in Nat /\ ToolName(id) \in Nat
    BY <2>1, NumbersOfIds
  <2>3. x \in CallRecords
    BY <2>1 DEF CallRecords, Phases, CallKinds
  <2>4. /\ Len(calls') = Len(calls) + 1 /\ calls'[Len(calls) + 1] = x /\ \A n \in 1..Len(calls) : calls'[n] = calls[n]
    BY <1>0, <1>1, <2>3, GrowAppend
  <2>5. r.id \in Nat /\ r.no = Len(calls) + 1 /\ Fits(x, r)
    BY <2>2 DEF Fits
  <2>6. \A u \in Threads : u # t /\ raw[u].no # 0 => calls'[raw[u].no] = calls[raw[u].no]
    BY <1>0, <2>4, CallsApart
  <2>7. \A n \in 1..Len(calls') : calls'[n].kind \in CallKinds
    <3> SUFFICES ASSUME NEW n \in 1..Len(calls') PROVE calls'[n].kind \in CallKinds
      OBVIOUS
    <3>1. n = Len(calls) + 1 \/ n \in 1..Len(calls)
      BY <1>0, <2>4
    <3> QED
      BY <2>4, <3>1 DEF TalkInv
  <2>8. Enter(t, r) /\ Fits(calls'[r.no], r)
    BY <1>1, <2>4, <2>5
  <2> QED
    BY <2>5, <2>6, <2>7, <2>8, EnterTalk
<1>2. ASSUME NEW no \in DOMAIN calls, calls[no].phase = "open",
             Enter(t, [cb |-> EndCallback(calls[no].kind), id |-> calls[no].id,
                       tool |-> IF source = "langchain" THEN Missing ELSE calls[no].id, no |-> no]),
             calls' = [calls EXCEPT ![no].phase = "ending"]
      PROVE  TalkInv'
  <2> PICK r : r = [cb |-> EndCallback(calls[no].kind), id |-> calls[no].id,
                    tool |-> IF source = "langchain" THEN Missing ELSE calls[no].id, no |-> no]
    OBVIOUS
  <2> PICK c, d, p : c = calls /\ d = calls' /\ p = "ending"
    OBVIOUS
  <2>1. no \in 1..Len(c) /\ c[no] \in CallRecords /\ c \in Seq(CallRecords)
    BY <1>0
  <2>2. c[no].id \in Nat
    BY <2>1, NumbersOfIds DEF CallRecords
  <2>3. d = SetPhase(c, no, p) /\ p \in Phases
    BY <1>2 DEF SetPhase, Phases
  <2>4. /\ d \in Seq(CallRecords) /\ Grow(c, d) /\ Len(d) = Len(c) /\ d[no].phase = p
        /\ \A m \in 1..Len(c) : m # no => d[m] = c[m]
    BY <2>1, <2>3, GrowPhase
  <2>5. d[no].kind = c[no].kind
    BY <2>1, <2>4 DEF Grow
  <2>6. r.id \in Nat /\ r.no = no /\ Fits(d[no], r)
    BY <2>2, <2>4, <2>5 DEF Fits, Missing
  <2>7. \A u \in Threads : u # t /\ raw[u].no # 0 => calls'[raw[u].no] = calls[raw[u].no]
    <3> SUFFICES ASSUME NEW u \in Threads, u # t, raw[u].no # 0 PROVE d[raw[u].no] = c[raw[u].no]
      OBVIOUS
    <3>1. raw[u].no \in 1..Len(c) /\ c[raw[u].no].phase \in {"starting", "ending"}
      BY <1>0, CallsApart
    <3>2. raw[u].no # no
      BY <1>2, <3>1
    <3> QED
      BY <2>4, <3>1, <3>2
  <2>8. \A n \in 1..Len(calls') : calls'[n].kind \in CallKinds
    BY <2>4, KindsStay
  <2>9. Enter(t, r) /\ Fits(calls'[r.no], r)
    BY <1>2, <2>6
  <2> QED
    BY <2>6, <2>7, <2>8, <2>9, EnterTalk
<1>3. ASSUME NEW cb \in ExtraCallbacks, Enter(t, [cb |-> cb, id |-> 1, to |-> Missing, no |-> 0]), calls' = calls
      PROVE  TalkInv'
  <2> PICK r : r = [cb |-> cb, id |-> 1, to |-> Missing, no |-> 0]
    OBVIOUS
  <2>1. Enter(t, r) /\ r.no = 0 /\ r.id \in Nat
    BY <1>3
  <2> QED
    BY <1>3, <2>1, EnterTalk DEF TalkInv
<1> QED
  BY <1>1, <1>2, <1>3 DEF Callback

\* An observer reports a whole call or a step.
LEMMA ObserveTalk ==
  ASSUME CallsInv, TalkInv, NEW t \in Threads, NEW kind \in {"llm", "tool", "step"}, source = "observer", Observe(t, kind)
  PROVE  TalkInv'
<1>0. CallShape /\ RawInv /\ calls \in Seq(CallRecords) /\ Len(calls) \in Nat
  BY DEF CallsInv, CallShape
<1>1. ASSUME NEW id \in IdsFor(0), kind # "step", Len(calls) < MaxCalls,
             Enter(t, [cb |-> IF kind = "llm" THEN "record_llm" ELSE "record_tool", id |-> id, no |-> Len(calls) + 1]),
             calls' = Append(calls, [kind |-> kind, id |-> id, phase |-> "ending"])
      PROVE  TalkInv'
  <2> PICK x, r : /\ x = [kind |-> kind, id |-> id, phase |-> "ending"]
                  /\ r = [cb |-> IF kind = "llm" THEN "record_llm" ELSE "record_tool", id |-> id, no |-> Len(calls) + 1]
    OBVIOUS
  <2>1. id \in Ids \cup {Missing}
    BY <1>0, <1>1, IdsForCalls
  <2>2. id \in Nat
    BY <2>1, NumbersOfIds
  <2>3. x \in CallRecords
    BY <1>1, <2>1 DEF CallRecords, Phases
  <2>4. /\ Len(calls') = Len(calls) + 1 /\ calls'[Len(calls) + 1] = x /\ \A n \in 1..Len(calls) : calls'[n] = calls[n]
    BY <1>0, <1>1, <2>3, GrowAppend
  <2>5. r.id \in Nat /\ r.no = Len(calls) + 1 /\ Fits(x, r)
    BY <2>2 DEF Fits
  <2>6. \A u \in Threads : u # t /\ raw[u].no # 0 => calls'[raw[u].no] = calls[raw[u].no]
    BY <1>0, <2>4, CallsApart
  <2>7. Enter(t, r) /\ Fits(calls'[r.no], r)
    BY <1>1, <2>4, <2>5
  <2> QED
    BY <2>5, <2>6, <2>7, EnterTalk
<1>2. ASSUME NEW id \in IdsFor(0), Enter(t, [cb |-> "record_step", id |-> id, no |-> 0]), calls' = calls
      PROVE  TalkInv'
  <2> PICK r : r = [cb |-> "record_step", id |-> id, no |-> 0]
    OBVIOUS
  <2>1. Enter(t, r) /\ r.no = 0 /\ r.id \in Nat
    BY <1>2 DEF IdsFor, Missing
  <2> QED
    BY <1>2, <2>1, EnterTalk
<1> QED
  BY <1>1, <1>2 DEF Observe

\* What a callback that fits its call is translated to: a start while the call starts, an end or
\* a whole call while it ends, and neither for a callback about no call.
LEMMA TranslatedFits ==
  ASSUME source \in Frameworks \cup {"observer"}, NEW t \in Threads, RawIn(calls, raw[t]),
         source = "observer" => raw[t].cb \in ObserverCallbacks,
         raw[t].id \in Nat, raw[t].no # 0 => Fits(calls[raw[t].no], raw[t]) /\ calls[raw[t].no].kind \in {"llm", "tool"},
         source # "observer" /\ raw[t].no # 0 => calls[raw[t].no].kind \in CallKinds, NEW e, e = Translated(t)[1]
  PROVE  /\ raw[t].no # 0 => /\ Translated(t) # <<>> /\ e.no = raw[t].no /\ e.key \in Nat
                             /\ IF source # "observer" /\ calls[raw[t].no].phase = "starting"
                                  THEN e.type \in {"llm_start", "tool_start"}
                                  ELSE e.type \in {"llm_end", "tool_end", "llm_whole", "tool_whole"}
                             /\ e.type \in {"tool_start", "tool_end"} => e.tool \in Nat
         /\ raw[t].no = 0 /\ Translated(t) # <<>> => e.type \in {"step", "transition"} /\ (e.type = "step" => e.name \in Nat)
<1> PICK r, c : r = raw[t] /\ c = calls[raw[t].no]
  OBVIOUS
<1>1. CASE r.no = 0
  <2>0. r.cb \notin LlmCallbacks \cup ToolCallbacks /\ r.id \in Nat
    BY <1>1 DEF RawIn
  <2> USE DEF LlmCallbacks, ToolCallbacks, Name, StateUpdateName, Missing
  <2>1. CASE source = "observer"
    BY <1>1, <2>0, <2>1 DEF Translated, Observed, ObserverCallbacks, StepStart
  <2>2. CASE source = "langchain"
    BY <1>1, <2>0, <2>2 DEF Translated, translate, LangChain, StepStart, StepEnd
  <2>3. CASE source = "langgraph"
    BY <1>1, <2>0, <2>3 DEF Translated, translate, LangGraph, StepStart, StepEnd, NodeTransition
  <2>4. CASE source = "semantic_kernel"
    BY <1>1, <2>0, <2>4 DEF Translated, translate, SemanticKernel, StepStart, StepEnd
  <2> QED
    BY <1>1, <2>1, <2>2, <2>3, <2>4 DEF Frameworks
<1>2. CASE r.no # 0
  <2>0. Fits(c, r) /\ c.kind \in {"llm", "tool"} /\ (source # "observer" => c.kind \in CallKinds) /\ r.id \in Nat
    BY <1>2
  <2> USE DEF Fits, Name
  <2>1. CASE source = "observer"
    BY <1>2, <2>0, <2>1 DEF Translated, Observed
  <2>2. CASE source = "langchain"
    BY <1>2, <2>0, <2>2 DEF Translated, translate, LangChain, LlmStart, LlmEnd, ToolStart, ToolEnd, StartCallback, EndCallback
  <2>3. CASE source = "langgraph"
    BY <1>2, <2>0, <2>3 DEF Translated, translate, LangGraph, LlmStart, LlmEnd, StartCallback, EndCallback, CallKinds
  <2>4. CASE source = "semantic_kernel"
    <3>1. c.kind \in CallKinds /\ Translated(t) = SemanticKernel(r)
      BY <2>0, <2>4 DEF Translated, translate
    <3>2. CASE c.phase = "starting"
      <4>1. CASE c.kind = "llm"
        <5>1. r.cb = "on_llm_start"
          BY <2>0, <2>4, <3>2, <4>1 DEF StartCallback
        <5>2. Translated(t) = <<LlmStart(Name(r.id), r.no)>>
          BY <3>1, <5>1 DEF SemanticKernel
        <5>3. e = LlmStart(Name(r.id), r.no) /\ Translated(t) # <<>>
          BY <5>2
        <5>4. Name(r.id) \in Nat
          BY <2>0, <2>4 DEF Fits, Name
        <5> HIDE DEF Name, Fits
        <5> QED
          BY ONLY <1>2, <2>4, <3>2, <5>3, <5>4, r = raw[t] /\ c = calls[raw[t].no] DEF LlmStart
      <4>2. CASE c.kind = "tool"
        <5>1. r.cb = "function_invoking"
          BY <2>0, <2>4, <3>2, <4>2 DEF StartCallback
        <5>2. Translated(t) = <<ToolStart(Name(r.id), Name(r.tool), r.no)>>
          BY <3>1, <5>1 DEF SemanticKernel
        <5>3. e = ToolStart(Name(r.id), Name(r.tool), r.no) /\ Translated(t) # <<>>
          BY <5>2
        <5>4. Name(r.id) \in Nat /\ Name(r.tool) \in Nat
          BY <2>0, <2>4 DEF Fits, Name
        <5> HIDE DEF Name, Fits
        <5> QED
          BY ONLY <1>2, <2>4, <3>2, <5>3, <5>4, r = raw[t] /\ c = calls[raw[t].no] DEF ToolStart
      <4> QED
        BY <3>1, <4>1, <4>2 DEF CallKinds
    <3>3. CASE c.phase # "starting"
      <4>1. CASE c.kind = "llm"
        <5>1. r.cb = "on_llm_end"
          BY <2>0, <2>4, <3>3, <4>1 DEF EndCallback
        <5>2. Translated(t) = <<LlmEnd(Name(r.id), r.no)>>
          BY <3>1, <5>1 DEF SemanticKernel
        <5>3. e = LlmEnd(Name(r.id), r.no) /\ Translated(t) # <<>>
          BY <5>2
        <5>4. Name(r.id) \in Nat
          BY <2>0, <2>4 DEF Fits, Name
        <5> HIDE DEF Name, Fits
        <5> QED
          BY ONLY <1>2, <2>4, <3>3, <5>3, <5>4, r = raw[t] /\ c = calls[raw[t].no] DEF LlmEnd
      <4>2. CASE c.kind = "tool"
        <5>1. r.cb = "function_invoked"
          BY <2>0, <2>4, <3>3, <4>2 DEF EndCallback
        <5>2. Translated(t) = <<ToolEnd(Name(r.id), Name(r.tool), r.no)>>
          BY <3>1, <5>1 DEF SemanticKernel
        <5>3. e = ToolEnd(Name(r.id), Name(r.tool), r.no) /\ Translated(t) # <<>>
          BY <5>2
        <5>4. Name(r.id) \in Nat /\ Name(r.tool) \in Nat
          BY <2>0, <2>4 DEF Fits, Name
        <5> HIDE DEF Name, Fits
        <5> QED
          BY ONLY <1>2, <2>4, <3>3, <5>3, <5>4, r = raw[t] /\ c = calls[raw[t].no] DEF ToolEnd
      <4> QED
        BY <3>1, <4>1, <4>2 DEF CallKinds
    <3> QED
      BY <3>2, <3>3
  <2> QED
    BY <1>2, <2>1, <2>2, <2>3, <2>4 DEF Frameworks
<1> QED
  BY <1>1, <1>2

\* What is known of the callback of a thread that has borrowed the session.
LEMMA BorrowedFits ==
  ASSUME CallsInv, TalkInv, NEW t \in Threads, pc[t] = "borrowed", NEW e, e = Translated(t)[1], NEW n, n = raw[t].no
  PROVE  /\ n # 0 => /\ n \in 1..Len(calls) /\ Translated(t) # <<>> /\ e.no = n /\ e.key \in Nat
                     /\ calls[n].phase = "starting" => e.type \in {"llm_start", "tool_start"}
                     /\ calls[n].phase # "starting" =>
                          calls[n].phase = "ending" /\ e.type \in {"llm_end", "tool_end", "llm_whole", "tool_whole"}
                     /\ e.type \in {"tool_start", "tool_end"} => e.tool \in Nat
         /\ n = 0 /\ Translated(t) # <<>> => e.type \in {"step", "transition"} /\ (e.type = "step" => e.name \in Nat)
         /\ e.type \in CallTypes /\ Translated(t) # <<>> => e.key \in Keys
<1>0. CallShape /\ RawInv /\ RawIn(calls, raw[t]) /\ source \in Frameworks \cup {"observer"}
  BY DEF CallsInv, RawInv, CallShape
<1>1. source = "observer" => raw[t].cb \in ObserverCallbacks
  BY <1>0 DEF RawInv
<1>2. TalkOf(calls, "borrowed", raw[t], ev[t])
  BY DEF TalkInv
<1>3. raw[t].id \in Nat /\ (n # 0 => Fits(calls[n], raw[t]))
  BY <1>2 DEF TalkOf
<1>4. n # 0 => n \in 1..Len(calls) /\ calls[n].phase \in {"starting", "ending"}
  BY <1>0 DEF RawIn
<1>5. n # 0 => calls[n].kind \in {"llm", "tool"} /\ calls[n].id \in Ids \cup {Missing}
  <2>1. n # 0 => calls[n] \in CallRecords
    BY <1>0, <1>4 DEF CallShape
  <2> QED
    BY <2>1 DEF CallRecords
<1>6. n # 0 /\ source # "observer" => calls[n].kind \in CallKinds
  BY <1>4 DEF TalkInv
<1>7. /\ raw[t].no # 0 => Fits(calls[raw[t].no], raw[t]) /\ calls[raw[t].no].kind \in {"llm", "tool"}
      /\ source # "observer" /\ raw[t].no # 0 => calls[raw[t].no].kind \in CallKinds
  BY <1>3, <1>5, <1>6
<1>8. /\ raw[t].no # 0 => /\ Translated(t) # <<>> /\ e.no = raw[t].no /\ e.key \in Nat
                          /\ IF source # "observer" /\ calls[raw[t].no].phase = "starting"
                               THEN e.type \in {"llm_start", "tool_start"}
                               ELSE e.type \in {"llm_end", "tool_end", "llm_whole", "tool_whole"}
                          /\ e.type \in {"tool_start", "tool_end"} => e.tool \in Nat
      /\ raw[t].no = 0 /\ Translated(t) # <<>> => e.type \in {"step", "transition"} /\ (e.type = "step" => e.name \in Nat)
  BY <1>0, <1>1, <1>3, <1>7, TranslatedFits
<1>9. n # 0 /\ source = "observer" => calls[n].phase = "ending"
  BY <1>3 DEF Fits
<1>10. e.type \in CallTypes /\ Translated(t) # <<>> => e.key \in Keys
  <2> SUFFICES ASSUME e.type \in CallTypes, Translated(t) # <<>> PROVE e.key \in Keys
    OBVIOUS
  <2>1. raw[t].no # 0 /\ e.key = Name(raw[t].id) /\ calls[raw[t].no].id = raw[t].id
    BY <1>0, <1>1, TranslatedMatches
  <2> QED
    BY <1>5, <2>1 DEF Keys
<1> QED
  BY <1>4, <1>8, <1>9, <1>10

\* How a callback is handled, as far as its call and the event in hand go.
LEMMA HandleShape ==
  ASSUME CallsInv, TalkInv, NEW t \in Threads, handle_event(t)
  PROVE  /\ UNCHANGED <<slot, finished, seen_nodes, topology_set, log, stored, lost>> /\ ub' = (slot # "some") /\ pc[t] = "borrowed"
         /\ \/ Return(t, "ok") /\ (raw[t].no # 0 => calls[raw[t].no].phase = "starting")
            \/ UNCHANGED <<host, source, raw, calls>> /\ pc' = [pc EXCEPT ![t] = "recording"] /\ DOMAIN ev' = DOMAIN ev
<1> PICK e, n : e = Translated(t)[1] /\ n = raw[t].no
  OBVIOUS
<1>1. pc[t] = "borrowed" /\ ub' = (slot # "some")
  BY DEF handle_event, Use, Dangling
<1>2. /\ n # 0 => /\ Translated(t) # <<>> /\ (calls[n].phase = "starting" => e.type \in {"llm_start", "tool_start"})
                  /\ calls[n].phase # "starting" => e.type \in {"llm_end", "tool_end", "llm_whole", "tool_whole"}
      /\ n = 0 /\ Translated(t) # <<>> => e.type \in {"step", "transition"}
  BY <1>1, BorrowedFits
<1>3. CASE Translated(t) = <<>>
  BY <1>1, <1>2, <1>3 DEF handle_event, session
<1>4. CASE Translated(t) # <<>>
  <2>1. \/ handle_start(t, e) \/ handle_end(t, e) \/ handle_transition(t, e) \/ handle_step(t, e) \/ handle_whole(t, e)
    BY <1>4 DEF handle_event
  <2>2. CASE handle_start(t, e)
    BY <1>1, <1>2, <2>2 DEF handle_start
  <2>3. CASE handle_transition(t, e)
    BY <1>1, <1>2, <2>3 DEF handle_transition
  <2>4. CASE handle_end(t, e)
    BY <1>1, <2>4 DEF handle_end, unpark, Goto, app
  <2>5. CASE handle_step(t, e) \/ handle_whole(t, e)
    BY <1>1, <2>5 DEF handle_step, handle_whole, Goto, app, session
  <2> QED
    BY <2>1, <2>2, <2>3, <2>4, <2>5
<1> QED
  BY <1>3, <1>4

\* A callback is handled.
LEMMA HandleTalk ==
  ASSUME CallsInv, TalkInv, NEW t \in Threads, handle_event(t)
  PROVE  TalkInv'
<1>0. CallShape /\ RawInv /\ calls \in Seq(CallRecords)
  BY DEF CallsInv, CallShape
<1> PICK e, n : e = Translated(t)[1] /\ n = raw[t].no
  OBVIOUS
<1>1. pc[t] = "borrowed"
  BY DEF handle_event
<1>2. /\ n # 0 => /\ n \in 1..Len(calls) /\ Translated(t) # <<>> /\ e.no = n /\ e.key \in Nat
                  /\ calls[n].phase = "starting" => e.type \in {"llm_start", "tool_start"}
                  /\ calls[n].phase # "starting" =>
                       calls[n].phase = "ending" /\ e.type \in {"llm_end", "tool_end", "llm_whole", "tool_whole"}
                  /\ e.type \in {"tool_start", "tool_end"} => e.tool \in Nat
      /\ n = 0 /\ Translated(t) # <<>> => e.type \in {"step", "transition"} /\ (e.type = "step" => e.name \in Nat)
      /\ e.type \in CallTypes /\ Translated(t) # <<>> => e.key \in Keys
  BY <1>1, BorrowedFits
<1>3. \A key \in Keys : pending["tool"][key] # NoEvent => pending["tool"][key].tool \in Nat
  BY DEF TalkInv
<1>4. CASE Translated(t) = <<>>
  <2>1. Return(t, "ok") /\ pending' = pending
    BY <1>4 DEF handle_event, session
  <2> QED
    BY <1>3, <2>1, ReturnTalk
<1>5. CASE Translated(t) # <<>>
  <2>1. \/ handle_start(t, e) \/ handle_end(t, e) \/ handle_transition(t, e) \/ handle_step(t, e) \/ handle_whole(t, e)
    BY <1>5 DEF handle_event
  <2>2. CASE handle_transition(t, e)
    <3>1. Return(t, "ok") /\ pending' = pending
      BY <2>2 DEF handle_transition
    <3> QED
      BY <1>3, <3>1, ReturnTalk
  <2>3. CASE handle_start(t, e)
    <3>1. Return(t, "ok") /\ pending' = [pending EXCEPT ![KindOf(e)][e.key] = e] /\ e.type \in {"llm_start", "tool_start"}
      BY <2>3 DEF handle_start, park
    <3>2. n # 0 /\ (e.type = "tool_start" => e.tool \in Nat) /\ e.key \in Keys
      BY <1>2, <1>5, <3>1 DEF CallTypes
    <3>3. \A key \in Keys : pending'["tool"][key] = pending["tool"][key]
                            \/ (e.type = "tool_start" /\ pending'["tool"][key] = e)
      BY <1>0, <3>1, <3>2 DEF CallShape, KindOf
    <3>4. \A key \in Keys : pending'["tool"][key] # NoEvent => pending'["tool"][key].tool \in Nat
      BY <1>3, <3>2, <3>3
    <3> QED
      BY <3>1, <3>4, ReturnTalk
  <2>4. CASE handle_end(t, e) \/ handle_step(t, e) \/ handle_whole(t, e)
    <3>1. UNCHANGED <<source, raw, calls>> /\ pc' = [pc EXCEPT ![t] = "recording"]
      BY <2>4 DEF handle_end, handle_step, handle_whole, Goto, app
    <3>2. /\ \A u \in Threads : u # t => ev'[u] = ev[u]
          /\ \A key \in Keys : pending'["tool"][key] = pending["tool"][key] \/ pending'["tool"][key] = NoEvent
      <4>1. CASE handle_end(t, e)
        <5>1. e.key \in Keys /\ KindOf(e) \in {"llm", "tool"} /\ pending' = [pending EXCEPT ![KindOf(e)][e.key] = NoEvent]
          BY <1>2, <1>5, <4>1 DEF handle_end, unpark, CallTypes, KindOf
        <5> QED
          BY <1>0, <4>1, <5>1 DEF handle_end, unpark, CallShape
      <4>2. CASE handle_step(t, e) \/ handle_whole(t, e)
        <5>1. pending' = pending /\ \E x : ev' = [ev EXCEPT ![t] = x]
          BY <4>2 DEF handle_step, handle_whole, session
        <5> QED
          BY <5>1
      <4> QED
        BY <2>4, <4>1, <4>2
    <3>3. /\ ev'[t].node \in Nat
          /\ \/ ev'[t].type \in {"llm", "tool"} /\ n # 0 /\ ev'[t].resp = n /\ calls[n].phase = "ending"
             \/ ev'[t].type = "step" /\ n = 0
      <4>1. CASE handle_step(t, e)
        BY <1>0, <1>2, <1>5, <4>1 DEF handle_step, CallShape
      <4>2. CASE handle_whole(t, e)
        <5>1. n # 0 /\ calls[n].phase = "ending" /\ e.no = n /\ e.key \in Nat
          BY <1>2, <1>5, <4>2 DEF handle_whole
        <5> QED
          BY <1>0, <4>2, <5>1 DEF handle_whole, CallShape, KindOf
      <4>3. CASE handle_end(t, e)
        <5> PICK p : p = pending[KindOf(e)][e.key]
          OBVIOUS
        <5>1. n # 0 /\ calls[n].phase = "ending" /\ e.no = n /\ e.key \in Nat /\ e.key \in Keys
              /\ (e.type = "tool_end" => e.tool \in Nat) /\ e.type \in {"llm_end", "tool_end"}
          BY <1>2, <1>5, <4>3 DEF handle_end, CallTypes
        <5>2. ev'[t] = [type |-> KindOf(e),
                        node |-> IF KindOf(e) = "llm" THEN e.key ELSE IF p # NoEvent THEN p.tool ELSE e.tool,
                        req |-> IF p # NoEvent THEN p.no ELSE 0, resp |-> e.no]
          BY <1>0, <4>3 DEF handle_end, unpark, CallShape
        <5>3. KindOf(e) = IF e.type = "llm_end" THEN "llm" ELSE "tool"
          BY <5>1 DEF KindOf
        <5>4. KindOf(e) = "tool" /\ p # NoEvent => p.tool \in Nat
          BY <1>3, <5>1
        <5> QED
          BY <5>1, <5>2, <5>3, <5>4
      <4> QED
        BY <2>4, <4>1, <4>2, <4>3
    <3>4. pc'[t] = "recording" /\ raw'[t] = raw[t] /\ calls' = calls /\ TalkOf(calls, "borrowed", raw[t], ev[t])
      BY <1>0, <1>1, <3>1 DEF CallShape, TalkInv
    <3>5. TalkOf(calls', pc'[t], raw'[t], ev'[t])
      BY <3>3, <3>4 DEF TalkOf
    <3>6. \A key \in Keys : pending'["tool"][key] # NoEvent => pending'["tool"][key].tool \in Nat
      BY <1>3, <3>2
    <3>7. \A u \in Threads : u # t => pc'[u] = pc[u] /\ raw'[u] = raw[u] /\ ev'[u] = ev[u]
      BY <3>1, <3>2
    <3>8. source # "observer" => \A m \in 1..Len(calls') : calls'[m].kind \in CallKinds
      BY <3>1 DEF TalkInv
    <3> QED
      BY <3>1, <3>5, <3>6, <3>7, <3>8, TalkStep
  <2> QED
    BY <2>1, <2>2, <2>3, <2>4
<1> QED
  BY <1>4, <1>5

\* Every step keeps the events in hand about the calls that are ending.
LEMMA TalkSteps ==
  ASSUME CallsInv, TalkInv, [Next]_vars
  PROVE  TalkInv'
<1>0. /\ CallShape
      /\ source # "observer" => \A n \in 1..Len(calls) : calls[n].kind \in CallKinds
      /\ \A key \in Keys : pending["tool"][key] # NoEvent => pending["tool"][key].tool \in Nat
  BY DEF TalkInv, CallsInv
<1>1. ASSUME UNCHANGED <<source, raw, calls, pending, pc, ev>> PROVE TalkInv'
  BY <1>1 DEF TalkInv, TalkOf, Fits, CallKinds, StartCallback, EndCallback
<1>2. ASSUME NEW t \in Threads, NEW p, NEW x, UNCHANGED <<source, raw, calls, pending>>, pc' = [pc EXCEPT ![t] = p],
             ev'[t] = x, \A u \in Threads : u # t => ev'[u] = ev[u], TalkOf(calls, p, raw[t], x)
      PROVE  TalkInv'
  <2>1. \A u \in Threads : u # t => pc'[u] = pc[u] /\ raw'[u] = raw[u] /\ ev'[u] = ev[u]
    BY <1>2
  <2>2. TalkOf(calls', pc'[t], raw'[t], ev'[t])
    BY <1>0, <1>2 DEF CallShape
  <2> QED
    BY <1>0, <1>2, <2>1, <2>2, TalkStep
<1>3. ASSUME NEW t \in Threads PROVE TalkOf(calls, pc[t], raw[t], ev[t])
  BY DEF TalkInv
<1>4. CASE flush \/ UNCHANGED vars
  BY <1>1, <1>4 DEF flush, vars, session, app
<1>5. ASSUME NEW t \in Threads, Open(t) \/ Drop(t) \/ set_flow_topology(t) PROVE TalkInv'
  BY <1>1, <1>5 DEF Open, Drop, set_flow_topology, app
<1>6. ASSUME NEW t \in Threads, NEW result, Return(t, result), pending' = pending PROVE TalkInv'
  BY <1>0, <1>6, ReturnTalk
<1>7. ASSUME NEW t \in Threads, CheckFinished(t) \/ Borrow(t) PROVE TalkInv'
  <2>1. CASE Return(t, "err")
    BY <1>6, <1>7, <2>1 DEF CheckFinished, Borrow, session
  <2>2. CASE ~Return(t, "err")
    <3>1. /\ UNCHANGED <<source, raw, calls, ev, pending>> /\ pc[t] \in {"entered", "checked"}
          /\ \E l \in {"checked", "borrowed"} : pc' = [pc EXCEPT ![t] = l]
      BY <1>7, <2>2 DEF CheckFinished, Borrow, Goto, app, session
    <3>2. PICK l \in {"checked", "borrowed"} : pc' = [pc EXCEPT ![t] = l]
      BY <3>1
    <3>3. TalkOf(calls, l, raw[t], ev[t])
      BY <1>3, <3>1 DEF TalkOf
    <3> QED
      BY <1>2, <1>3, <3>1, <3>2, <3>3
  <2> QED
    BY <2>1, <2>2
<1>8. ASSUME NEW t \in Threads, NEW s, Finish(t, s) PROVE TalkInv'
  <2>1. CASE Return(t, "err")
    BY <1>6, <1>8, <2>1 DEF Finish, Take, session
  <2>2. CASE ~Return(t, "err")
    <3>1. /\ UNCHANGED <<source, raw, calls, pending>> /\ pc' = [pc EXCEPT ![t] = "taken"] /\ pc[t] = "idle"
          /\ ev' = [ev EXCEPT ![t] = [type |-> "completed", status |-> status_from_str(s)]]
      BY <1>8, <2>2 DEF Finish, Take, Goto, app, Idle
    <3> PICK x : x = [type |-> "completed", status |-> status_from_str(s)]
      OBVIOUS
    <3>2. TalkOf(calls, "taken", raw[t], x)
      BY <1>3, <3>1 DEF TalkOf
    <3>3. ev'[t] = x /\ \A u \in Threads : u # t => ev'[u] = ev[u]
      BY <1>0, <3>1 DEF CallShape
    <3> QED
      BY <1>2, <3>1, <3>2, <3>3
  <2> QED
    BY <2>1, <2>2
<1>9. ASSUME NEW t \in Threads, record(t) \/ finish_inner(t) PROVE TalkInv'
  BY <1>6, <1>9 DEF record, finish_inner
<1>10. ASSUME NEW t \in Threads, finish_topology(t) PROVE TalkInv'
  <2>1. UNCHANGED <<source, raw, calls, ev, pending>> /\ pc' = [pc EXCEPT ![t] = "closing"] /\ pc[t] = "taken"
    BY <1>10 DEF finish_topology, Goto, app
  <2>2. TalkOf(calls, "closing", raw[t], ev[t])
    BY <1>3, <2>1 DEF TalkOf
  <2> QED
    BY <1>2, <1>3, <2>1, <2>2
<1>11. ASSUME NEW t \in Threads, Step(t) PROVE TalkInv'
  BY <1>5, <1>7, <1>8, <1>9, <1>10, <1>11, StepKinds, CallbackTalk, ObserveTalk, HandleTalk
<1> QED
  BY <1>4, <1>11 DEF Next

-----------------------------------------------------------------------------
(* The books: which calls are in the log *)

\* Calls are made, started or refused: the books are as they were.
LEMMA BookedSame ==
  ASSUME NEW c \in Seq(CallRecords), NEW d \in Seq(CallRecords), NEW l, Booked(l, c), Len(c) <= Len(d),
         \A n \in 1..Len(c) : c[n].phase = "recorded" <=> d[n].phase = "recorded",
         \A n \in 1..Len(d) : n \in 1..Len(c) \/ d[n].phase # "recorded"
  PROVE  Booked(l, d)
<1>1. ASSUME NEW i \in 1..Len(l), IsInvocation(l[i]) PROVE l[i].resp \in 1..Len(d) /\ d[l[i].resp].phase = "recorded"
  <2> PICK n : n = l[i].resp
    OBVIOUS
  <2>1. n \in 1..Len(c) /\ c[n].phase = "recorded"
    BY <1>1 DEF Booked
  <2>2. Len(c) \in Nat /\ Len(d) \in Nat
    OBVIOUS
  <2>3. n \in 1..Len(d)
    BY <2>1, <2>2
  <2> QED
    BY <2>1, <2>3
<1>2. ASSUME NEW n \in 1..Len(d), d[n].phase = "recorded" PROVE \E i \in 1..Len(l) : IsInvocation(l[i]) /\ l[i].resp = n
  BY <1>2 DEF Booked
<1>3. \A i, j \in 1..Len(l) : IsInvocation(l[i]) /\ IsInvocation(l[j]) /\ l[i].resp = l[j].resp => i = j
  BY DEF Booked
<1> QED
  BY <1>1, <1>2, <1>3 DEF Booked

\* An event that is no invocation is written.
LEMMA BookedOther ==
  ASSUME NEW c, NEW l, IsSequence(l), Booked(l, c), NEW x, ~IsInvocation(x)
  PROVE  Booked(Append(l, x), c)
<1> PICK m : m = Append(l, x)
  OBVIOUS
<1>1. /\ Len(l) \in Nat /\ Len(m) = Len(l) + 1 /\ m[Len(l) + 1] = x /\ \A i \in 1..Len(l) : m[i] = l[i]
  BY AnyAppend
<1>2. ASSUME NEW i \in 1..Len(m), IsInvocation(m[i]) PROVE i \in 1..Len(l) /\ m[i] = l[i]
  <2>1. i # Len(l) + 1
    BY <1>1, <1>2
  <2>2. i \in 1..Len(l)
    BY <1>1, <2>1
  <2> QED
    BY <1>1, <2>2
<1>3. \A i \in 1..Len(m) : IsInvocation(m[i]) => m[i].resp \in 1..Len(c) /\ c[m[i].resp].phase = "recorded"
  BY <1>2 DEF Booked
<1>4. \A i, j \in 1..Len(m) : IsInvocation(m[i]) /\ IsInvocation(m[j]) /\ m[i].resp = m[j].resp => i = j
  BY <1>2 DEF Booked
<1>5. ASSUME NEW n \in 1..Len(c), c[n].phase = "recorded" PROVE \E i \in 1..Len(m) : IsInvocation(m[i]) /\ m[i].resp = n
  <2>1. PICK i \in 1..Len(l) : IsInvocation(l[i]) /\ l[i].resp = n
    BY <1>5 DEF Booked
  <2>2. i \in 1..Len(m) /\ m[i] = l[i]
    BY <1>1
  <2> QED
    BY <2>1, <2>2
<1> QED
  BY <1>3, <1>4, <1>5 DEF Booked

\* The invocation of a call is written, and the call acknowledged.
LEMMA BookedRecord ==
  ASSUME NEW c, NEW d, NEW l, IsSequence(l), Booked(l, c), NEW x, NEW n \in 1..Len(c), IsInvocation(x), x.resp = n,
         c[n].phase # "recorded", d[n].phase = "recorded", Len(d) = Len(c),
         \A k \in 1..Len(c) : k # n => d[k] = c[k]
  PROVE  Booked(Append(l, x), d)
<1> PICK m : m = Append(l, x)
  OBVIOUS
<1>1. /\ Len(l) \in Nat /\ Len(m) = Len(l) + 1 /\ m[Len(l) + 1] = x /\ \A i \in 1..Len(l) : m[i] = l[i]
  BY AnyAppend
<1>2. ASSUME NEW i \in 1..Len(m), IsInvocation(m[i])
      PROVE  \/ i = Len(l) + 1 /\ m[i].resp = n
             \/ i \in 1..Len(l) /\ m[i] = l[i] /\ m[i].resp \in 1..Len(c) /\ c[m[i].resp].phase = "recorded" /\ m[i].resp # n
  <2>1. CASE i = Len(l) + 1
    BY <1>1, <2>1
  <2>2. CASE i # Len(l) + 1
    <3>1. i \in 1..Len(l) /\ m[i] = l[i]
      BY <1>1, <2>2
    <3>2. l[i].resp \in 1..Len(c) /\ c[l[i].resp].phase = "recorded"
      BY <1>2, <3>1 DEF Booked
    <3> QED
      BY <3>1, <3>2
  <2> QED
    BY <2>1, <2>2
<1>3. \A i \in 1..Len(m) : IsInvocation(m[i]) => m[i].resp \in 1..Len(d) /\ d[m[i].resp].phase = "recorded"
  <2> SUFFICES ASSUME NEW i \in 1..Len(m), IsInvocation(m[i]) PROVE m[i].resp \in 1..Len(d) /\ d[m[i].resp].phase = "recorded"
    OBVIOUS
  <2> PICK k : k = m[i].resp
    OBVIOUS
  <2>1. k \in 1..Len(c) /\ (k = n \/ (k # n /\ c[k].phase = "recorded"))
    BY <1>2
  <2> QED
    BY <2>1
<1>4. \A i, j \in 1..Len(m) : IsInvocation(m[i]) /\ IsInvocation(m[j]) /\ m[i].resp = m[j].resp => i = j
  BY <1>2 DEF Booked
<1>5. ASSUME NEW k \in 1..Len(d), d[k].phase = "recorded" PROVE \E i \in 1..Len(m) : IsInvocation(m[i]) /\ m[i].resp = k
  <2>1. CASE k = n
    <3>1. Len(l) + 1 \in 1..Len(m) /\ IsInvocation(m[Len(l) + 1]) /\ m[Len(l) + 1].resp = k
      BY <1>1, <2>1
    <3> QED
      BY <3>1
  <2>2. CASE k # n
    <3>1. PICK i \in 1..Len(l) : IsInvocation(l[i]) /\ l[i].resp = k
      BY <1>5, <2>2 DEF Booked
    <3>2. i \in 1..Len(m) /\ m[i] = l[i]
      BY <1>1
    <3> QED
      BY <3>1, <3>2
  <2> QED
    BY <2>1, <2>2
<1> QED
  BY <1>3, <1>4, <1>5 DEF Booked

\* The hints of a log with one more event.
LEMMA HintsAppend ==
  ASSUME NEW l, IsSequence(l), NEW x
  PROVE  /\ Len(l) \in Nat /\ Len(Append(l, x)) = Len(l) + 1 /\ Append(l, x)[Len(l) + 1] = x
         /\ \A i \in 1..Len(l) : Append(l, x)[i] = l[i]
         /\ x.type # "topology" => HintsIn(Append(l, x)) = HintsIn(l)
         /\ x.type = "topology" => HintsIn(Append(l, x)) = HintsIn(l) \cup {Len(l) + 1}
<1> PICK m : m = Append(l, x)
  OBVIOUS
<1>1. /\ Len(l) \in Nat /\ Len(m) = Len(l) + 1 /\ m[Len(l) + 1] = x /\ \A i \in 1..Len(l) : m[i] = l[i]
  BY AnyAppend
<1>2. 1..Len(m) = (1..Len(l)) \cup {Len(l) + 1} /\ Len(l) + 1 \notin 1..Len(l)
  BY <1>1
<1> QED
  BY <1>1, <1>2 DEF HintsIn

-----------------------------------------------------------------------------
(* The session: its books, its end, its topology *)

\* A step that leaves the session alone, and no call newly recorded.
LEMMA QuietStep ==
  ASSUME CallsInv, SessionInv, UNCHANGED <<source, slot, seen_nodes, topology_set, log, lost>>, stored => stored',
         \A u \in Threads : (pc'[u] = "taken" <=> pc[u] = "taken") /\ (pc'[u] = "closing" <=> pc[u] = "closing"),
         slot = "absent" => calls' = calls,
         calls' \in Seq(CallRecords), Len(calls) <= Len(calls'),
         \A n \in 1..Len(calls) : calls[n].phase = "recorded" <=> calls'[n].phase = "recorded",
         \A n \in 1..Len(calls') : n \in 1..Len(calls) \/ calls'[n].phase # "recorded"
  PROVE  SessionInv'
<1>1. Booked(log, calls')
  BY BookedSame DEF SessionInv, CallsInv, CallShape
<1>2. Booked(log, calls)'
  BY <1>1 DEF Booked, IsInvocation
<1>3. \A u \in Threads : InFinish(u)' <=> InFinish(u)
  BY DEF InFinish
<1>4. Ahead' <=> Ahead
  BY DEF Ahead
<1>5. EndInv'
  BY <1>3 DEF EndInv, SessionInv, Kept
<1>6. TopInv'
  BY <1>4 DEF TopInv, SessionInv, HintsIn
<1> QED
  BY <1>2, <1>5, <1>6 DEF SessionInv

\* A call that returns without having been recorded.
LEMMA QuietReturn ==
  ASSUME CallsInv, SessionInv, NEW t \in Threads, NEW result, Return(t, result),
         UNCHANGED <<slot, seen_nodes, topology_set, log, lost>>, stored => stored', pc[t] \notin {"taken", "closing"},
         result = "ok" /\ raw[t].no # 0 => calls[raw[t].no].phase = "starting"
  PROVE  SessionInv'
<1>0. CallShape /\ IdInv /\ RawInv /\ calls \in Seq(CallRecords)
  BY DEF CallsInv, CallShape
<1>1. source' = source /\ calls' \in Seq(CallRecords)
  BY <1>0, ReturnKeeps
<1>2. \A u \in Threads : (pc'[u] = "taken" <=> pc[u] = "taken") /\ (pc'[u] = "closing" <=> pc[u] = "closing")
  BY <1>0 DEF CallShape, Return
<1> PICK n : n = raw[t].no
  OBVIOUS
<1>3. /\ n = 0 => calls' = calls
      /\ n # 0 =>
           /\ n \in 1..Len(calls) /\ Len(calls') = Len(calls) /\ calls[n].phase \in {"starting", "ending"}
           /\ \A m \in 1..Len(calls) : m # n => calls'[m] = calls[m]
           /\ calls'[n].phase = IF calls[n].phase = "starting" THEN "open" ELSE IF result = "ok" THEN "recorded" ELSE "refused"
  BY <1>0, ReturnCalls
<1>4. Len(calls') = Len(calls) /\ Len(calls) \in Nat
  BY <1>0, <1>3
<1>5. \A m \in 1..Len(calls) : calls[m].phase = "recorded" <=> calls'[m].phase = "recorded"
  <2>1. CASE n = 0
    BY <1>3, <2>1
  <2>2. CASE n # 0
    <3>1. calls'[n].phase # "recorded" /\ calls[n].phase # "recorded"
      BY <1>3, <2>2
    <3> QED
      BY <1>3, <2>2, <3>1
  <2> QED
    BY <2>1, <2>2
<1>6. slot = "absent" => calls' = calls
  <2> SUFFICES ASSUME slot = "absent" PROVE calls' = calls
    OBVIOUS
  <2>1. calls = <<>>
    BY DEF SessionInv, EndInv
  <2> QED
    BY <1>3, <2>1
<1> QED
  BY <1>1, <1>2, <1>4, <1>5, <1>6, QuietStep

\* A thread enters, with a new call or one that was open.
LEMMA EnterSession ==
  ASSUME CallsInv, SessionInv, NEW t \in Threads, NEW r, Enter(t, r), calls' \in Seq(CallRecords),
         Len(calls) <= Len(calls'),
         \A n \in 1..Len(calls) : calls[n].phase = "recorded" <=> calls'[n].phase = "recorded",
         \A n \in 1..Len(calls') : n \in 1..Len(calls) \/ calls'[n].phase # "recorded"
  PROVE  SessionInv'
<1>1. UNCHANGED <<source, slot, seen_nodes, topology_set, log, stored, lost>> /\ slot # "absent" /\ pc[t] = "idle"
  BY DEF Enter, session, Idle
<1>2. \A u \in Threads : (pc'[u] = "taken" <=> pc[u] = "taken") /\ (pc'[u] = "closing" <=> pc[u] = "closing")
  BY <1>1 DEF Enter, Goto, CallsInv, CallShape
<1> QED
  BY <1>1, <1>2, QuietStep

\* The calls a callback or an observer's report makes: none of them is recorded yet.
LEMMA MakeCalls ==
  ASSUME CallsInv, SessionInv, NEW t \in Threads, NEW r, Enter(t, r),
         \/ calls' = calls
         \/ \E x \in CallRecords : x.phase # "recorded" /\ calls' = Append(calls, x)
         \/ \E n \in 1..Len(calls) : calls[n].phase = "open" /\ calls' = SetPhase(calls, n, "ending")
  PROVE  SessionInv'
<1>0. calls \in Seq(CallRecords) /\ Len(calls) \in Nat
  BY DEF CallsInv, CallShape
<1>1. CASE calls' = calls
  BY <1>0, <1>1, EnterSession
<1>2. ASSUME NEW x \in CallRecords, x.phase # "recorded", calls' = Append(calls, x) PROVE SessionInv'
  <2>1. /\ calls' \in Seq(CallRecords) /\ Len(calls') = Len(calls) + 1
        /\ calls'[Len(calls) + 1] = x /\ \A n \in 1..Len(calls) : calls'[n] = calls[n]
    BY <1>0, <1>2, GrowAppend
  <2>2. \A n \in 1..Len(calls') : n \in 1..Len(calls) \/ calls'[n].phase # "recorded"
    <3> SUFFICES ASSUME NEW n \in 1..Len(calls'), n \notin 1..Len(calls) PROVE calls'[n].phase # "recorded"
      OBVIOUS
    <3>1. n = Len(calls) + 1
      BY <1>0, <2>1
    <3> QED
      BY <1>2, <2>1, <3>1
  <2>3. Len(calls) <= Len(calls')
    BY <1>0, <2>1
  <2> QED
    BY <2>1, <2>2, <2>3, EnterSession
<1>3. ASSUME NEW n \in 1..Len(calls), calls[n].phase = "open", calls' = SetPhase(calls, n, "ending") PROVE SessionInv'
  <2> PICK c, d, p : c = calls /\ d = calls' /\ p = "ending"
    OBVIOUS
  <2>1. n \in 1..Len(c) /\ c \in Seq(CallRecords) /\ d = SetPhase(c, n, p) /\ p \in Phases
    BY <1>0, <1>3 DEF Phases
  <2>2. /\ d \in Seq(CallRecords) /\ Grow(c, d) /\ Len(d) = Len(c) /\ d[n].phase = p
        /\ \A m \in 1..Len(c) : m # n => d[m] = c[m]
    BY <2>1, GrowPhase
  <2>3. \A m \in 1..Len(c) : c[m].phase = "recorded" <=> d[m].phase = "recorded"
    BY <1>3, <2>2
  <2>4. Len(calls) <= Len(calls')
    BY <1>0, <2>2
  <2> QED
    BY <2>2, <2>3, <2>4, EnterSession
<1> QED
  BY <1>1, <1>2, <1>3

\* Callbacks and reports that come in.
LEMMA CallbackSession ==
  ASSUME CallsInv, SessionInv, NEW t \in Threads,
         (source # "observer" /\ Callback(t)) \/ (source = "observer" /\ \E kind \in {"llm", "tool", "step"} : Observe(t, kind))
  PROVE  SessionInv'
<1>0. CallShape /\ calls \in Seq(CallRecords)
  BY DEF CallsInv, CallShape
<1>2. CASE source # "observer" /\ Callback(t)
  <2>1. ASSUME NEW kind \in CallKinds, NEW id \in IdsFor(Len(calls) + 1), Len(calls) < MaxCalls,
               Enter(t, [cb |-> StartCallback(kind), id |-> id, tool |-> ToolName(id), no |-> Len(calls) + 1]),
               calls' = Append(calls, [kind |-> kind, id |-> id, phase |-> "starting"])
        PROVE  SessionInv'
    <3> PICK r, x : /\ r = [cb |-> StartCallback(kind), id |-> id, tool |-> ToolName(id), no |-> Len(calls) + 1]
                    /\ x = [kind |-> kind, id |-> id, phase |-> "starting"]
      OBVIOUS
    <3>1. id \in Ids \cup {Missing}
      BY <1>0, <2>1, IdsForCalls
    <3>2. x \in CallRecords /\ x.phase # "recorded"
      BY <3>1 DEF CallRecords, Phases, CallKinds
    <3>3. Enter(t, r) /\ calls' = Append(calls, x)
      BY <2>1
    <3> QED
      BY <3>2, <3>3, MakeCalls
  <2>2. ASSUME NEW no \in DOMAIN calls, calls[no].phase = "open", NEW r, Enter(t, r), calls' = [calls EXCEPT ![no].phase = "ending"]
        PROVE  SessionInv'
    <3>1. no \in 1..Len(calls) /\ calls' = SetPhase(calls, no, "ending")
      BY <1>0, <2>2 DEF SetPhase
    <3> QED
      BY <2>2, <3>1, MakeCalls
  <2>3. ASSUME NEW r, Enter(t, r), calls' = calls PROVE SessionInv'
    BY <2>3, MakeCalls
  <2> QED
    BY <1>2, <2>1, <2>2, <2>3 DEF Callback
<1>3. ASSUME NEW kind \in {"llm", "tool", "step"}, source = "observer", Observe(t, kind) PROVE SessionInv'
  <2>1. ASSUME NEW id \in IdsFor(0), kind # "step", Len(calls) < MaxCalls,
               Enter(t, [cb |-> IF kind = "llm" THEN "record_llm" ELSE "record_tool", id |-> id, no |-> Len(calls) + 1]),
               calls' = Append(calls, [kind |-> kind, id |-> id, phase |-> "ending"])
        PROVE  SessionInv'
    <3> PICK r, x : /\ r = [cb |-> IF kind = "llm" THEN "record_llm" ELSE "record_tool", id |-> id, no |-> Len(calls) + 1]
                    /\ x = [kind |-> kind, id |-> id, phase |-> "ending"]
      OBVIOUS
    <3>1. id \in Ids \cup {Missing}
      BY <1>0, <1>3, <2>1, IdsForCalls
    <3>2. x \in CallRecords /\ x.phase # "recorded"
      BY <2>1, <3>1 DEF CallRecords, Phases
    <3>3. Enter(t, r) /\ calls' = Append(calls, x)
      BY <2>1
    <3> QED
      BY <3>2, <3>3, MakeCalls
  <2>2. ASSUME NEW r, Enter(t, r), calls' = calls PROVE SessionInv'
    BY <2>2, MakeCalls
  <2> QED
    BY <1>3, <2>1, <2>2 DEF Observe
<1> QED
  BY <1>2, <1>3

\* Threads that move towards the session or are refused, and the flush loop.
LEMMA MovingSession ==
  ASSUME CallsInv, TalkInv, SessionInv, NEW t \in Threads,
         CheckFinished(t) \/ Borrow(t) \/ handle_event(t) \/ flush \/ UNCHANGED vars
  PROVE  SessionInv'
<1>0. CallShape /\ calls \in Seq(CallRecords) /\ Len(calls) \in Nat
  BY DEF CallsInv, CallShape
<1>1. ASSUME UNCHANGED <<source, slot, seen_nodes, topology_set, log, lost, calls>>, stored => stored',
             NEW l \in {"checked", "borrowed", "recording"}, pc[t] \in {"entered", "checked", "borrowed"},
             pc' = pc \/ pc' = [pc EXCEPT ![t] = l]
      PROVE  SessionInv'
  <2>1. \A u \in Threads : (pc'[u] = "taken" <=> pc[u] = "taken") /\ (pc'[u] = "closing" <=> pc[u] = "closing")
    BY <1>0, <1>1 DEF CallShape
  <2> QED
    BY <1>0, <1>1, <2>1, QuietStep
<1>2. CASE flush \/ UNCHANGED vars
  <2>1. UNCHANGED <<source, slot, seen_nodes, topology_set, log, lost, calls, pc>> /\ (stored => stored')
    BY <1>2 DEF flush, vars, session, app
  <2> QED
    BY <1>0, <2>1, QuietStep
<1>3. CASE CheckFinished(t) \/ Borrow(t)
  <2>1. UNCHANGED <<slot, seen_nodes, topology_set, log, stored, lost>> /\ pc[t] \in {"entered", "checked"}
    BY <1>3 DEF CheckFinished, Borrow, session
  <2>2. CASE Return(t, "err")
    BY <2>1, <2>2, QuietReturn
  <2>3. CASE ~Return(t, "err")
    <3>1. UNCHANGED <<source, calls>> /\ \E l \in {"checked", "borrowed"} : pc' = [pc EXCEPT ![t] = l]
      BY <1>3, <2>3 DEF CheckFinished, Borrow, Goto, app
    <3> QED
      BY <1>1, <2>1, <3>1
  <2> QED
    BY <2>2, <2>3
<1>4. CASE handle_event(t)
  <2>1. /\ UNCHANGED <<slot, finished, seen_nodes, topology_set, log, stored, lost>> /\ pc[t] = "borrowed"
        /\ \/ Return(t, "ok") /\ (raw[t].no # 0 => calls[raw[t].no].phase = "starting")
           \/ UNCHANGED <<host, source, raw, calls>> /\ pc' = [pc EXCEPT ![t] = "recording"]
    BY <1>4, HandleShape
  <2>2. CASE Return(t, "ok") /\ (raw[t].no # 0 => calls[raw[t].no].phase = "starting")
    BY <2>1, <2>2, QuietReturn
  <2>3. CASE UNCHANGED <<host, source, raw, calls>> /\ pc' = [pc EXCEPT ![t] = "recording"]
    BY <1>1, <2>1, <2>3
  <2> QED
    BY <2>1, <2>2, <2>3
<1> QED
  BY <1>2, <1>3, <1>4

\* A session is opened.
LEMMA OpenSession ==
  ASSUME CallsInv, SessionInv, NEW t \in Threads, Open(t)
  PROVE  SessionInv'
<1> PICK x, l : x = [type |-> "started"] /\ l = <<x>>
  OBVIOUS
<1>1. slot = "absent" /\ slot' = "some" /\ log' = l /\ UNCHANGED <<source, seen_nodes, topology_set, pc, calls>>
  BY DEF Open, app
<1>2. log = <<>> /\ calls = <<>> /\ \A u \in Threads : ~InFinish(u)
  BY <1>1 DEF SessionInv, EndInv
<1>3. Len(l) = 1 /\ \A i \in 1..Len(l) : l[i].type = "started"
  OBVIOUS
<1>4. HintsIn(log') = {} /\ HintsIn(log) = {}
  BY <1>1, <1>2, <1>3 DEF HintsIn
<1>5. Booked(log, calls)'
  BY <1>1, <1>2, <1>3 DEF Booked, IsInvocation
<1>6. EndInv'
  BY <1>1, <1>2, <1>3 DEF EndInv, InFinish
<1>7. TopInv'
  <2>1. ~topology_set
    BY <1>1 DEF SessionInv, TopInv
  <2>2. IsFiniteSet(seen_nodes) /\ seen_nodes \subseteq Nat /\ topology_set \in BOOLEAN
    BY DEF SessionInv, TopInv
  <2>3. HintsIn(log)' = {} /\ Ahead'
    BY <1>1, <1>4 DEF HintsIn, Ahead
  <2> QED
    BY <1>1, <2>1, <2>2, <2>3 DEF TopInv
<1> QED
  BY <1>5, <1>6, <1>7 DEF SessionInv

\* An event in hand is written to a session that is there.
LEMMA RecordSession ==
  ASSUME CallsInv, TalkInv, SessionInv, NEW t \in Threads, record(t), slot = "some"
  PROVE  SessionInv'
<1>0. CallShape /\ IdInv /\ RawInv /\ calls \in Seq(CallRecords) /\ IsSequence(log)
  BY DEF CallsInv, CallShape
<1> PICK x, n, l : x = ev[t] /\ n = raw[t].no /\ l = log
  OBVIOUS
<1>1. /\ pc[t] = "recording" /\ seen_nodes' = seen_nodes \cup {x.node} /\ log' = Append(l, x)
      /\ Return(t, "ok") /\ UNCHANGED <<slot, topology_set, lost>>
  BY DEF record
<1>2. source' = source /\ calls' \in Seq(CallRecords)
  BY <1>0, <1>1, ReturnKeeps
<1>3. TalkOf(calls, "recording", raw[t], x)
  BY <1>1 DEF TalkInv
<1>4. /\ x.node \in Nat
      /\ \/ x.type \in {"llm", "tool"} /\ n # 0 /\ x.resp = n /\ calls[n].phase = "ending"
         \/ x.type = "step" /\ n = 0
  BY <1>3 DEF TalkOf
<1>5. Booked(log', calls')
  <2>0. Booked(l, calls) /\ IsSequence(l)
    BY <1>0 DEF SessionInv
  <2>1. CASE n = 0
    <3>0. n = 0 => calls' = calls
      BY <1>1 DEF Return
    <3>1. calls' = calls /\ ~IsInvocation(x)
      BY <1>4, <2>1, <3>0 DEF IsInvocation
    <3> QED
      BY <1>1, <2>0, <3>1, BookedOther
  <2>2. CASE n # 0
    <3> PICK c, d, m : c = calls /\ d = calls' /\ m = log'
      OBVIOUS
    <3>1. /\ n \in 1..Len(calls) /\ Len(calls') = Len(calls)
          /\ \A k \in 1..Len(calls) : k # n => calls'[k] = calls[k]
          /\ calls'[n].phase = IF calls[n].phase = "starting" THEN "open" ELSE "recorded"
      BY <1>0, <1>1, <2>2, ReturnCalls
    <3>2. IsInvocation(x) /\ x.resp = n /\ c[n].phase # "recorded" /\ d[n].phase = "recorded" /\ m = Append(l, x)
      BY <1>1, <1>4, <2>2, <3>1 DEF IsInvocation
    <3>3. n \in 1..Len(c) /\ Len(d) = Len(c) /\ (\A k \in 1..Len(c) : k # n => d[k] = c[k]) /\ Booked(l, c)
      BY <2>0, <3>1
    <3>4. Booked(m, d)
      BY <2>0, <3>2, <3>3, BookedRecord
    <3> QED
      BY <3>4
  <2> QED
    BY <2>1, <2>2
<1>6. Booked(log, calls)'
  BY <1>5 DEF Booked, IsInvocation
<1> PICK m : m = log'
  OBVIOUS
<1>7. /\ Len(l) \in Nat /\ Len(m) = Len(l) + 1 /\ m[Len(l) + 1] = x /\ \A i \in 1..Len(l) : m[i] = l[i]
      /\ x.type # "topology" => HintsIn(m) = HintsIn(l)
  <2>1. m = Append(l, x) /\ IsSequence(l)
    BY <1>0, <1>1
  <2> QED
    BY <2>1, HintsAppend
<1>8. \A u \in Threads : ~InFinish(u) /\ ~InFinish(u)'
  <2>1. \A u \in Threads : ~InFinish(u)
    BY DEF SessionInv, EndInv
  <2> QED
    BY <1>0, <1>1, <2>1 DEF InFinish, Return, CallShape
<1>9. \A i \in 1..Len(m) : m[i].type # "completed"
  <2> SUFFICES ASSUME NEW i \in 1..Len(m) PROVE m[i].type # "completed"
    OBVIOUS
  <2>1. i = Len(l) + 1 \/ i \in 1..Len(l)
    BY <1>7
  <2>2. i \in 1..Len(l) => l[i].type # "completed"
    BY DEF SessionInv, EndInv
  <2> QED
    BY <1>4, <1>7, <2>1, <2>2
<1>10. EndInv'
  BY <1>1, <1>8, <1>9 DEF EndInv, SessionInv
<1>11. TopInv'
  <2>1. IsFiniteSet(seen_nodes) /\ seen_nodes \subseteq Nat /\ topology_set \in BOOLEAN
    BY DEF SessionInv, TopInv
  <2>2. IsFiniteSet(seen_nodes') /\ seen_nodes' \subseteq Nat
    BY <1>1, <1>4, <2>1, FS_AddElement
  <2>3. HintsIn(log)' = HintsIn(log) /\ Ahead /\ Ahead'
    BY <1>1, <1>4, <1>7 DEF HintsIn, Ahead
  <2>4. /\ topology_set => HintsIn(log) # {} \/ "hint" \in lost
        /\ ~topology_set => HintsIn(log) = {}
        /\ source # "observer" => ~topology_set /\ \A i, j \in HintsIn(log) : i = j
    BY <2>3 DEF SessionInv, TopInv
  <2> QED
    BY <1>1, <1>2, <2>1, <2>2, <2>3, <2>4 DEF TopInv
<1> QED
  BY <1>6, <1>10, <1>11 DEF SessionInv

\* One more event that is neither an invocation nor an end is written to a session that has no end.
LEMMA NoEndMore ==
  ASSUME CallsInv, SessionInv, NEW x, x.type = "topology", \A i \in 1..Len(log) : log[i].type # "completed"
  PROVE  /\ Booked(Append(log, x), calls) /\ \A i \in 1..Len(Append(log, x)) : Append(log, x)[i].type # "completed"
         /\ Len(log) \in Nat /\ Append(log, x)[Len(log) + 1] = x
         /\ HintsIn(Append(log, x)) = HintsIn(log) \cup {Len(log) + 1}
<1> PICK l, m : l = log /\ m = Append(l, x)
  OBVIOUS
<1>0. IsSequence(l) /\ Booked(l, calls) /\ ~IsInvocation(x)
  BY DEF CallsInv, CallShape, SessionInv, IsInvocation
<1>1. Booked(m, calls)
  BY <1>0, BookedOther
<1>2. /\ Len(l) \in Nat /\ Len(m) = Len(l) + 1 /\ m[Len(l) + 1] = x /\ \A i \in 1..Len(l) : m[i] = l[i]
      /\ HintsIn(m) = HintsIn(l) \cup {Len(l) + 1}
  BY <1>0, HintsAppend
<1>3. \A i \in 1..Len(m) : m[i].type # "completed"
  <2> SUFFICES ASSUME NEW i \in 1..Len(m) PROVE m[i].type # "completed"
    OBVIOUS
  <2>1. i = Len(l) + 1 \/ i \in 1..Len(l)
    BY <1>2
  <2> QED
    BY <1>2, <2>1
<1> QED
  BY <1>1, <1>2, <1>3

\* A topology is set by hand.
LEMMA TopologySession ==
  ASSUME CallsInv, SessionInv, NEW t \in Threads, set_flow_topology(t)
  PROVE  SessionInv'
<1> PICK x : x = edge_topology(<<<<Name(1), Name(Missing)>>>>)
  OBVIOUS
<1>1. /\ slot = "some" /\ source = "observer" /\ topology_set' = TRUE
      /\ UNCHANGED <<source, slot, seen_nodes, calls, pc>>
      /\ log' = Append(log, x) \/ (log' = log /\ "hint" \in lost')
  BY DEF set_flow_topology, record_advisory
<1>2. x.type = "topology"
  BY DEF edge_topology
<1>3. \A i \in 1..Len(log) : log[i].type # "completed"
  BY <1>1 DEF SessionInv, EndInv
<1>4. CASE log' = Append(log, x)
  <2>1. /\ Booked(log', calls) /\ (\A i \in 1..Len(log') : log'[i].type # "completed")
        /\ HintsIn(log') = HintsIn(log) \cup {Len(log) + 1}
    BY <1>2, <1>3, <1>4, NoEndMore
  <2>2. Booked(log, calls)'
    BY <1>1, <2>1 DEF Booked, IsInvocation
  <2>3. EndInv'
    BY <1>1, <2>1 DEF EndInv, SessionInv, InFinish
  <2>4. HintsIn(log)' # {}
    BY <2>1 DEF HintsIn
  <2>5. TopInv'
    BY <1>1, <2>4 DEF TopInv, SessionInv
  <2> QED
    BY <2>2, <2>3, <2>5 DEF SessionInv
<1>5. CASE log' = log /\ "hint" \in lost'
  <2>1. Booked(log, calls)'
    BY <1>1, <1>5 DEF SessionInv, Booked, IsInvocation
  <2>2. EndInv'
    BY <1>1, <1>3, <1>5 DEF EndInv, SessionInv, InFinish
  <2>3. TopInv'
    BY <1>1, <1>5 DEF TopInv, SessionInv
  <2> QED
    BY <2>1, <2>2, <2>3 DEF SessionInv
<1> QED
  BY <1>1, <1>4, <1>5

\* finish takes the session, or is refused.
LEMMA FinishSession ==
  ASSUME CallsInv, TalkInv, SessionInv, NEW t \in Threads, NEW s, Finish(t, s)
  PROVE  SessionInv'
<1>0. CallShape /\ pc[t] = "idle"
  BY DEF CallsInv, Finish, Idle
<1>1. CASE slot # "some"
  <2>1. Return(t, "err") /\ UNCHANGED <<slot, seen_nodes, topology_set, log, stored, lost>>
    BY <1>1 DEF Finish, session
  <2> QED
    BY <1>0, <2>1, QuietReturn
<1>2. CASE slot = "some"
  <2>1. /\ slot' = "none" /\ pc' = [pc EXCEPT ![t] = "taken"]
        /\ UNCHANGED <<source, seen_nodes, topology_set, log, stored, lost, calls>>
    BY <1>2 DEF Finish, Take, Goto, app
  <2>2. \A u \in Threads : ~InFinish(u) /\ (InFinish(u)' <=> u = t)
    <3>1. \A u \in Threads : ~InFinish(u)
      BY <1>2 DEF SessionInv, EndInv
    <3> QED
      BY <1>0, <2>1, <3>1 DEF CallShape, InFinish
  <2>3. Booked(log, calls)'
    BY <2>1 DEF SessionInv, Booked, IsInvocation
  <2>4. EndInv'
    BY <1>2, <2>1, <2>2 DEF SessionInv, EndInv
  <2>5. Ahead /\ Ahead'
    BY <1>0, <1>2, <2>1 DEF Ahead, CallShape
  <2>6. TopInv'
    BY <2>1, <2>5 DEF SessionInv, TopInv, HintsIn
  <2> QED
    BY <2>3, <2>4, <2>6 DEF SessionInv
<1> QED
  BY <1>1, <1>2

\* The wrapper goes away, with its session or without.
LEMMA DropSession ==
  ASSUME CallsInv, SessionInv, NEW t \in Threads, Drop(t)
  PROVE  SessionInv'
<1> PICK x, l, m : x = [type |-> "completed", status |-> "failed"] /\ l = log /\ m = log'
  OBVIOUS
<1>1. /\ slot \in {"some", "none"} /\ slot' = "removed" /\ UNCHANGED <<source, seen_nodes, topology_set, calls, pc>>
      /\ lost' = lost /\ (m = l \/ (slot = "some" /\ m = Append(l, x)))
  BY DEF Drop, app
<1>2. IsSequence(l) /\ Booked(l, calls) /\ ~IsInvocation(x) /\ x.type = "completed"
  BY DEF CallsInv, CallShape, SessionInv, IsInvocation
<1>3. CASE m = l
  <2>1. log' = log /\ (Ahead' => Ahead)
    BY <1>1, <1>3 DEF Ahead
  <2>2. EndInv'
    BY <1>1, <2>1 DEF EndInv, SessionInv, InFinish
  <2>3. TopInv'
    BY <1>1, <2>1 DEF TopInv, SessionInv, HintsIn
  <2>4. Booked(log, calls)'
    BY <1>1, <2>1 DEF SessionInv, Booked, IsInvocation
  <2> QED
    BY <2>2, <2>3, <2>4 DEF SessionInv
<1>4. CASE slot = "some" /\ m = Append(l, x)
  <2>1. /\ Len(l) \in Nat /\ Len(m) = Len(l) + 1 /\ m[Len(l) + 1] = x /\ \A i \in 1..Len(l) : m[i] = l[i]
        /\ HintsIn(m) = HintsIn(l)
    BY <1>1, <1>2, <1>4, HintsAppend
  <2>2. Booked(m, calls)
    BY <1>1, <1>2, <1>4, BookedOther
  <2>3. Booked(log, calls)'
    BY <1>1, <2>2 DEF Booked, IsInvocation
  <2>4. \A u \in Threads : ~InFinish(u) /\ ~InFinish(u)'
    BY <1>1, <1>4 DEF SessionInv, EndInv, InFinish
  <2>5. \A i \in 1..Len(m) : m[i].type = "completed" => i = Len(m)
    <3> SUFFICES ASSUME NEW i \in 1..Len(m), m[i].type = "completed", i # Len(m) PROVE FALSE
      OBVIOUS
    <3>1. i \in 1..Len(l)
      BY <2>1
    <3>2. l[i].type = "completed"
      BY <2>1, <3>1
    <3> QED
      BY <1>4, <3>1, <3>2 DEF SessionInv, EndInv
  <2>6. EndInv'
    BY <1>1, <2>4, <2>5 DEF EndInv
  <2>7. Ahead /\ HintsIn(log)' = HintsIn(log) /\ ~Ahead'
    BY <1>1, <1>4, <2>1, <2>4 DEF Ahead, HintsIn, InFinish
  <2>8. TopInv'
    BY <1>1, <2>7 DEF SessionInv, TopInv
  <2> QED
    BY <2>3, <2>6, <2>8 DEF SessionInv
<1> QED
  BY <1>1, <1>3, <1>4

\* finish writes the end.
LEMMA InnerSession ==
  ASSUME CallsInv, TalkInv, SessionInv, NEW t \in Threads, finish_inner(t)
  PROVE  SessionInv'
<1> PICK x, l, m : x = ev[t] /\ l = log /\ m = log'
  OBVIOUS
<1>1. /\ pc[t] = "closing" /\ Return(t, "ok") /\ m = Append(l, x)
      /\ UNCHANGED <<source, slot, seen_nodes, topology_set>>
  BY DEF finish_inner, Return
<1>0. Kept' /\ lost \subseteq lost'
  BY DEF finish_inner, last_flush, Kept
<1>2. TalkOf(calls, "closing", raw[t], x)
  BY <1>1 DEF TalkInv
<1>3. x.type = "completed" /\ raw[t].no = 0
  BY <1>2 DEF TalkOf
<1>4. calls' = calls
  BY <1>1, <1>3 DEF Return
<1>5. IsSequence(l) /\ Booked(l, calls) /\ ~IsInvocation(x) /\ CallShape
  BY <1>3 DEF CallsInv, CallShape, SessionInv, IsInvocation
<1>6. Booked(m, calls)
  BY <1>1, <1>5, BookedOther
<1>7. Booked(log, calls)'
  BY <1>4, <1>6 DEF Booked, IsInvocation
<1>8. /\ Len(l) \in Nat /\ Len(m) = Len(l) + 1 /\ m[Len(l) + 1] = x /\ \A i \in 1..Len(l) : m[i] = l[i]
      /\ HintsIn(m) = HintsIn(l)
  BY <1>1, <1>3, <1>5, HintsAppend
<1>9. InFinish(t) /\ slot \in {"none", "removed"} /\ \A u \in Threads : ~InFinish(u)'
  <2>1. InFinish(t)
    BY <1>1 DEF InFinish
  <2>2. slot \in {"none", "removed"} /\ \A u \in Threads : u # t => ~InFinish(u)
    BY <2>1 DEF SessionInv, EndInv
  <2>3. pc' = [pc EXCEPT ![t] = "idle"]
    BY <1>1 DEF Return
  <2> QED
    BY <1>5, <2>1, <2>2, <2>3 DEF InFinish, CallShape
<1>10. \A i \in 1..Len(m) : m[i].type = "completed" => i = Len(m)
  <2> SUFFICES ASSUME NEW i \in 1..Len(m), m[i].type = "completed", i # Len(m) PROVE FALSE
    OBVIOUS
  <2>1. i \in 1..Len(l)
    BY <1>8
  <2>2. l[i].type = "completed"
    BY <1>8, <2>1
  <2> QED
    BY <1>9, <2>1, <2>2 DEF SessionInv, EndInv
<1>11. EndInv'
  BY <1>0, <1>1, <1>9, <1>10 DEF EndInv
<1>12. ~Ahead /\ ~Ahead' /\ HintsIn(log)' = HintsIn(log)
  <2>1. \A u \in Threads : pc[u] # "taken" /\ pc'[u] # "taken"
    BY <1>1, <1>9 DEF SessionInv, EndInv, InFinish
  <2> QED
    BY <1>1, <1>8, <1>9, <2>1 DEF Ahead, HintsIn
<1>13. TopInv'
  <2> PICK h : h = HintsIn(log)
    OBVIOUS
  <2>1. \A i \in h : log'[i] = log[i]
    BY <1>8 DEF HintsIn
  <2>2. HintsIn(log)' = h /\ h = HintsIn(log)
    BY <1>12
  <2> QED
    BY <1>0, <1>1, <1>9, <1>12, <2>1, <2>2 DEF SessionInv, TopInv
<1> QED
  BY <1>7, <1>11, <1>13 DEF SessionInv

\* finish writes the topology: the transitions, or the chain of what was recorded.
LEMMA ClosingSession ==
  ASSUME CallsInv, SessionInv, NEW t \in Threads, finish_topology(t)
  PROVE  SessionInv'
<1>0. CallShape /\ IsSequence(log)
  BY DEF CallsInv, CallShape
<1> PICK x, y : x = edge_topology(seen_edges) /\ y = inferred_topology(seen_nodes)
  OBVIOUS
<1>1. /\ pc[t] = "taken" /\ pc' = [pc EXCEPT ![t] = "closing"] /\ UNCHANGED <<source, slot, seen_nodes, calls>>
      /\ topology_set' = (topology_set \/ seen_edges # <<>>)
  BY DEF finish_topology, Goto, app
<1>2. /\ InFinish(t) /\ slot \in {"none", "removed"} /\ (\A u \in Threads : InFinish(u)' <=> u = t)
      /\ Ahead /\ ~Ahead' /\ \A i \in 1..Len(log) : log[i].type # "completed"
  <2>1. InFinish(t)
    BY <1>1 DEF InFinish
  <2>2. slot \in {"none", "removed"} /\ (\A u \in Threads : u # t => ~InFinish(u)) /\ \A i \in 1..Len(log) : log[i].type # "completed"
    BY <2>1 DEF SessionInv, EndInv
  <2>3. \A u \in Threads : InFinish(u)' <=> u = t
    BY <1>0, <1>1, <2>2 DEF InFinish, CallShape
  <2>4. Ahead
    BY <1>1 DEF Ahead
  <2>5. \A u \in Threads : pc'[u] # "taken"
    BY <1>0, <1>1, <2>2 DEF InFinish, CallShape
  <2>6. ~Ahead'
    BY <1>1, <2>2, <2>5 DEF Ahead
  <2> QED
    BY <2>1, <2>2, <2>3, <2>4, <2>6
<1>3. /\ IsFiniteSet(seen_nodes) /\ seen_nodes \subseteq Nat /\ topology_set \in BOOLEAN
      /\ topology_set => HintsIn(log) # {} \/ "hint" \in lost
      /\ ~topology_set => HintsIn(log) = {}
      /\ source # "observer" => ~topology_set
  BY <1>2 DEF SessionInv, TopInv
<1>4. x.type = "topology" /\ y.type = "topology" /\ Range(y.nodes) = seen_nodes
  <2>1. y.nodes = Sorted(seen_nodes) /\ x.type = "topology" /\ y.type = "topology"
    BY DEF edge_topology, inferred_topology
  <2> QED
    BY <1>3, <2>1, SortedRange
<1>5. /\ seen_edges # <<>> => log' = Append(log, x) \/ (log' = log /\ "hint" \in lost')
      /\ seen_edges = <<>> /\ ~topology_set /\ seen_nodes # {} => log' = Append(log, y) \/ (log' = log /\ "hint" \in lost')
      /\ seen_edges = <<>> /\ (topology_set \/ seen_nodes = {}) => log' = log
      /\ lost \subseteq lost'
  BY <1>1, <1>3 DEF finish_topology, record_advisory
<1>6. ASSUME NEW z, z.type = "topology", log' = Append(log, z), topology_set' \/ Range(z.nodes) = seen_nodes
      PROVE  SessionInv'
  <2>1. /\ Booked(log', calls) /\ (\A i \in 1..Len(log') : log'[i].type # "completed")
        /\ log'[Len(log) + 1] = z /\ HintsIn(log') = HintsIn(log) \cup {Len(log) + 1}
    BY <1>2, <1>6, NoEndMore
  <2>2. Booked(log, calls)'
    BY <1>1, <2>1 DEF Booked, IsInvocation
  <2>3. EndInv'
    BY <1>1, <1>2, <2>1 DEF EndInv
  <2> PICK h, k : h = HintsIn(log) /\ k = Len(log) + 1
    OBVIOUS
  <2>4. HintsIn(log)' = h \cup {k} /\ log'[k] = z
    BY <2>1 DEF HintsIn
  <2>5. ~topology_set => h = {}
    BY <1>3
  <2>6. ~topology_set' => \A i \in HintsIn(log)' : Range(log'[i].nodes) = seen_nodes
    BY <1>1, <1>6, <2>4, <2>5
  <2>7. source # "observer" => \A i, j \in HintsIn(log)' : i = j
    BY <1>3, <2>4, <2>5
  <2>8. TopInv'
    BY <1>1, <1>2, <1>3, <2>4, <2>6, <2>7 DEF TopInv
  <2> QED
    BY <2>2, <2>3, <2>8 DEF SessionInv
<1>7. ASSUME log' = log, "hint" \in lost' \/ (topology_set' = topology_set /\ (topology_set \/ seen_nodes = {}))
      PROVE  SessionInv'
  <2>1. Booked(log, calls)'
    BY <1>1, <1>7 DEF SessionInv, Booked, IsInvocation
  <2>2. EndInv'
    BY <1>1, <1>2, <1>7 DEF EndInv
  <2>3. HintsIn(log)' = HintsIn(log) /\ (HintsIn(log) = {} \/ topology_set)
    BY <1>3, <1>7 DEF HintsIn
  <2>4. source # "observer" => \A i, j \in HintsIn(log) : i = j
    BY DEF TopInv, SessionInv
  <2>5. TopInv'
    BY <1>1, <1>2, <1>3, <1>5, <1>7, <2>3, <2>4 DEF TopInv
  <2> QED
    BY <2>1, <2>2, <2>5 DEF SessionInv
<1>8. CASE seen_edges # <<>>
  BY <1>1, <1>4, <1>5, <1>6, <1>7, <1>8
<1>9. CASE seen_edges = <<>> /\ ~topology_set /\ seen_nodes # {}
  BY <1>1, <1>4, <1>5, <1>6, <1>7, <1>9
<1>10. CASE seen_edges = <<>> /\ (topology_set \/ seen_nodes = {})
  BY <1>1, <1>3, <1>5, <1>7, <1>10
<1> QED
  BY <1>8, <1>9, <1>10

\* Every step keeps the session complete, unless it uses a pointer that dangles.
LEMMA DoneSteps ==
  ASSUME CallsInv, TalkInv, DoneInv, [Next]_vars
  PROVE  DoneInv'
<1>1. CASE UNCHANGED vars /\ ub
  BY <1>1 DEF vars, DoneInv
<1>2. ASSUME SessionInv, NEW t \in Threads, UNCHANGED vars \/ flush \/ Step(t) PROVE DoneInv'
  <2>1. CASE UNCHANGED vars \/ flush
    BY <1>2, <2>1, MovingSession DEF DoneInv
  <2>2. CASE record(t)
    <3>1. slot # "some" => ub'
      BY <2>2 DEF record, Use, Dangling
    <3> QED
      BY <1>2, <2>2, <3>1, RecordSession DEF DoneInv
  <2>3. CASE Step(t) /\ ~record(t)
    <3>1. SessionInv'
      BY <1>2, <2>3, StepKinds, OpenSession, CallbackSession, FinishSession, DropSession, TopologySession, MovingSession,
         ClosingSession, InnerSession
    <3> QED
      BY <3>1 DEF DoneInv
  <2> QED
    BY <1>2, <2>1, <2>2, <2>3
<1>3. ASSUME SessionInv, UNCHANGED vars \/ flush PROVE DoneInv'
  <2>1. UNCHANGED <<source, slot, seen_nodes, topology_set, log, lost, calls, pc>> /\ (stored => stored')
    BY <1>3 DEF flush, vars, session, app
  <2>2. calls \in Seq(CallRecords) /\ Len(calls) \in Nat
    BY DEF CallsInv, CallShape
  <2>3. SessionInv'
    BY <1>3, <2>1, <2>2, QuietStep
  <2> QED
    BY <2>3 DEF DoneInv
<1> QED
  BY <1>1, <1>2, <1>3 DEF Next, DoneInv

\* What a session leaves behind is complete.
LEMMA DoneIsComplete ==
  ASSUME CallsInv, DoneInv
  PROVE  SessionComplete
<1>0. DOMAIN log = 1..Len(log) /\ DOMAIN calls = 1..Len(calls)
  BY DEF CallsInv, CallShape, IsSequence
<1>1. CASE ub
  BY <1>1 DEF SessionComplete, AcknowledgedOnce, ClosedOnce, TopologySound, FinishedIsReadable
<1>2. CASE SessionInv
  <2>1. AcknowledgedOnce
    <3> SUFFICES ASSUME NEW no \in DOMAIN calls
                 PROVE  /\ calls[no].phase = "recorded" => Cardinality({i \in Invocations : log[i].resp = no}) = 1
                        /\ calls[no].phase = "refused" => {i \in Invocations : log[i].resp = no} = {}
      BY DEF AcknowledgedOnce
    <3>1. no \in 1..Len(calls) /\ Invocations = {i \in 1..Len(log) : IsInvocation(log[i])} /\ Booked(log, calls)
      BY <1>0, <1>2 DEF Invocations, IsInvocation, SessionInv
    <3>2. ASSUME calls[no].phase = "recorded" PROVE Cardinality({i \in Invocations : log[i].resp = no}) = 1
      <4>1. PICK k \in 1..Len(log) : IsInvocation(log[k]) /\ log[k].resp = no
        BY <3>1, <3>2 DEF Booked
      <4>2. {i \in Invocations : log[i].resp = no} = {k}
        BY <3>1, <4>1 DEF Booked
      <4> QED
        BY <4>2, FS_Singleton
    <3>3. ASSUME calls[no].phase = "refused" PROVE {i \in Invocations : log[i].resp = no} = {}
      BY <3>1, <3>3 DEF Booked
    <3> QED
      BY <3>2, <3>3
  <2>2. ClosedOnce
    <3>1. \A i \in 1..Len(log) : log[i].type = "completed" => i = Len(log)
      BY <1>2 DEF SessionInv, EndInv
    <3> QED
      BY <1>0, <3>1 DEF ClosedOnce, Completions
  <2>3. TopologySound
    <3>0. Hints = HintsIn(log) /\ TopInv /\ EndInv
      BY <1>0, <1>2 DEF Hints, HintsIn, SessionInv
    <3>1. slot = "none" /\ Completions # {} /\ seen_nodes # {} => Hints # {} \/ "hint" \in lost
      <4> SUFFICES ASSUME slot = "none", Completions # {}, seen_nodes # {} PROVE Hints # {} \/ "hint" \in lost
        OBVIOUS
      <4>1. \A u \in Threads : ~InFinish(u)
        BY <1>0, <3>0 DEF Completions, EndInv
      <4>2. ~Ahead
        BY <4>1 DEF Ahead, InFinish
      <4> QED
        BY <3>0, <4>2 DEF TopInv
    <3>2. source # "observer" => Cardinality(Hints) <= 1
      <4> SUFFICES ASSUME source # "observer" PROVE Cardinality(Hints) <= 1
        OBVIOUS
      <4>1. \A i, j \in Hints : i = j
        BY <3>0 DEF TopInv
      <4>2. CASE Hints = {}
        BY <4>2, FS_EmptySet
      <4>3. CASE Hints # {}
        <5>1. PICK k : Hints = {k}
          BY <4>1, <4>3
        <5>2. Cardinality(Hints) = 1
          BY <5>1, FS_Singleton
        <5> QED
          BY <5>2
      <4> QED
        BY <4>2, <4>3
    <3>3. ~topology_set => \A i \in Hints : Range(log[i].nodes) = seen_nodes
      BY <3>0 DEF TopInv
    <3> QED
      BY <3>1, <3>2, <3>3 DEF TopologySound
  <2>4. FinishedIsReadable
    <3> SUFFICES ASSUME slot = "none", ~Finishing, "tail" \notin lost PROVE get_events = "all"
      BY DEF FinishedIsReadable
    <3>1. stored
      BY <1>2 DEF Finishing, SessionInv, EndInv, InFinish, Kept
    <3> QED
      BY <3>1 DEF get_events, Stored, cleargate_observer_get, cleargate_adapter_get, PyObserver_get, PyAdapter_get,
         NapiObserver_get, NapiAdapter_get
  <2> QED
    BY <2>1, <2>2, <2>3, <2>4 DEF SessionComplete
<1> QED
  BY <1>1, <1>2 DEF DoneInv

\* Whatever the interface, the framework and the interleaving of the threads, a session that is
\* used only while it lives is complete: each acknowledged invocation is in the log once and each
\* refused one is not, the log ends with one RunCompleted, a finished session has the topology of
\* what it recorded unless a full channel refused the hint, and once finish has returned a reader
\* sees all of it unless the store failed both calls of the last flush.
THEOREM SessionsComplete == Spec => []SessionComplete
<1>1. Init => CallsInv
  BY InitCalls
<1>2. Init => TalkInv /\ DoneInv
  <2> SUFFICES ASSUME Init PROVE TalkInv /\ DoneInv
    OBVIOUS
  <2>1. TalkInv
    <3>1. "tool" \in {"llm", "tool"}
      OBVIOUS
    <3> QED
      BY <3>1 DEF Init, TalkInv, TalkOf, Nobody, Missing, NoEvent
  <2>2. log = <<>> /\ calls = <<>> /\ slot = "absent" /\ seen_nodes = {} /\ topology_set = FALSE /\ \A t \in Threads : pc[t] = "idle"
    BY DEF Init
  <2>3. Booked(log, calls) /\ EndInv
    BY <2>2 DEF Booked, EndInv, InFinish
  <2>4. HintsIn(log) = {} /\ IsFiniteSet(seen_nodes)
    BY <2>2, FS_EmptySet DEF HintsIn
  <2>5. TopInv
    BY <2>2, <2>4 DEF TopInv
  <2> QED
    BY <2>1, <2>3, <2>5 DEF DoneInv, SessionInv
<1>3. CallsInv /\ TalkInv /\ DoneInv /\ [Next]_vars => (CallsInv /\ TalkInv /\ DoneInv)'
  BY CallsSteps, TalkSteps, DoneSteps
<1>4. CallsInv /\ DoneInv => SessionComplete
  BY DoneIsComplete
<1> QED
  BY <1>1, <1>2, <1>3, <1>4, PTL DEF Spec
=============================================================================
