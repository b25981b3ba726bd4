-------------------------- MODULE NodeServicesProofs --------------------------
(***************************************************************************)
(* CallsKept, StringsAndCode and QueueInOrder, for every number of         *)
(* attempts, calls, subscribers and messages and every channel capacity.   *)
(*                                                                         *)
(* An LLM call a handler was told of is in what execute_node drained or    *)
(* still in the channel, in the order of the calls; the channel is empty   *)
(* once it was drained, unless a thread that outlived its timeout goes on  *)
(* sending.  What a subscriber took, what waits for it and what its bridge *)
(* has in hand are increasing parts of the messages before the cursor, and *)
(* only messages the ring has overwritten are in none of them.             *)
(***************************************************************************)
EXTENDS NodeServices, SequenceTheorems, TLAPS

-----------------------------------------------------------------------------
(* Attempts *)

Stages == {"start", "called", "ended", "drained", "recording", "closed"}
AttemptShape ==
  /\ pc \in [Attempts -> Stages]
  /\ handler \in [Attempts -> {"out", "in", "blocked", "parsing", "gone"}]
  /\ llm_ch \in [Attempts -> Seq(Nat)] /\ kept_llm \in [Attempts -> Seq(Nat)]
  /\ acked \in [Attempts -> Seq(Nat)] /\ calls \in [Attempts -> Nat]
  /\ DOMAIN timed_out = Attempts /\ DOMAIN string = Dylib

\* execute_node still waits for the handler, or has seen it end.
Waited(a) == a \notin Dylib \/ ~timed_out[a]

\* all is first followed by last.
Split(all, first, last) ==
  /\ Len(all) = Len(first) + Len(last)
  /\ \A i \in 1..Len(first) : all[i] = first[i]
  /\ \A i \in 1..Len(last) : all[Len(first) + i] = last[i]

\* The recorded calls are those drained and then those in the channel.
Moved(a) == Split(acked[a], kept_llm[a], llm_ch[a])

\* Where an attempt and its handler can be at the same time.
InStep(a) ==
  /\ pc[a] = "start" <=> handler[a] = "out"
  /\ pc[a] \in {"ended", "drained", "recording", "closed"} /\ Waited(a) => handler[a] = "gone"
  /\ pc[a] \in {"drained", "recording", "closed"} /\ Waited(a) => llm_ch[a] = <<>>
  /\ handler[a] = "parsing" => a \in Dylib

\* The strings and the code of a library.
LibraryInv ==
  /\ \A a \in Dylib : string[a] = "live" => handler[a] = "parsing"
  /\ library = "unloaded" => \A a \in Dylib : pc[a] = "closed"

AttemptInv == AttemptShape /\ (\A a \in Attempts : Moved(a) /\ InStep(a)) /\ LibraryInv

-----------------------------------------------------------------------------
(* The queue *)

QueueShape ==
  /\ bus \in Seq(Nat) /\ \A k \in 1..Len(bus) : bus[k] = k
  /\ receiver \in [Subscribers -> {"none", "open", "dropped"}]
  /\ since \in [Subscribers -> Nat \cup {Absent}] /\ cursor \in [Subscribers -> (Nat \ {0}) \cup {Absent}]
  /\ hand \in [Subscribers -> Nat \cup {Absent}]
  /\ inbox \in [Subscribers -> Seq(Nat)] /\ got \in [Subscribers -> Seq(Nat)]

Increasing(q) == \A i, j \in 1..Len(q) : i < j => q[i] < q[j]
Below(q, n) == \A i \in 1..Len(q) : q[i] < n
Has(q, m) == \E i \in 1..Len(q) : q[i] = m

\* A subscription: its cursor is within the messages sent since, and what it took, what
\* waits for it and what its bridge has in hand come in this order before the cursor.
OrderInv(s) ==
  /\ since[s] \in Nat /\ cursor[s] \in Nat /\ cursor[s] <= Len(bus) + 1
  /\ Increasing(got[s]) /\ Increasing(inbox[s])
  /\ \A j \in 1..Len(inbox[s]) : Below(got[s], inbox[s][j])
  /\ hand[s] # Absent => Below(got[s], hand[s]) /\ Below(inbox[s], hand[s]) /\ hand[s] < cursor[s]
  /\ Below(got[s], cursor[s]) /\ Below(inbox[s], cursor[s])

\* A message before the cursor was taken over or has been overwritten.
MissInv(s) ==
  \A m \in since[s]..(cursor[s] - 1) :
    Has(got[s], m) \/ Has(inbox[s], m) \/ hand[s] = m \/ Len(bus) >= m + BROADCAST_CAPACITY

\* Before a subscription there is nothing.
NoneInv(s) == cursor[s] = Absent /\ hand[s] = Absent /\ inbox[s] = <<>> /\ got[s] = <<>>

QueueInv ==
  /\ QueueShape
  /\ \A s \in Subscribers : /\ receiver[s] = "none" => NoneInv(s)
                            /\ receiver[s] = "open" => OrderInv(s) /\ MissInv(s)

-----------------------------------------------------------------------------
(* Sequences *)

\* A call is sent: it is last among the recorded ones and last in the channel.
LEMMA SplitAppend ==
  ASSUME NEW a \in Seq(Nat), NEW f \in Seq(Nat), NEW l \in Seq(Nat), NEW x \in Nat, Split(a, f, l)
  PROVE  Split(Append(a, x), f, Append(l, x))
<1>1. /\ Len(Append(a, x)) = Len(a) + 1 /\ Len(Append(l, x)) = Len(l) + 1
      /\ Len(a) \in Nat /\ Len(l) \in Nat /\ Len(f) \in Nat
      /\ Append(a, x)[Len(a) + 1] = x /\ Append(l, x)[Len(l) + 1] = x
      /\ \A i \in 1..Len(a) : Append(a, x)[i] = a[i]
      /\ \A i \in 1..Len(l) : Append(l, x)[i] = l[i]
  OBVIOUS
<1>2. ASSUME NEW i \in 1..Len(f) PROVE Append(a, x)[i] = f[i]
  BY <1>1 DEF Split
<1>3. ASSUME NEW i \in 1..Len(Append(l, x)) PROVE Append(a, x)[Len(f) + i] = Append(l, x)[i]
  <2>1. CASE i = Len(l) + 1
    BY <1>1, <2>1 DEF Split
  <2>2. CASE i # Len(l) + 1
    <3>0. i \in 1..(Len(l) + 1)
      BY <1>1
    <3>1. i \in 1..Len(l)
      BY <1>1, <2>2, <3>0
    <3>2. Len(a) = Len(f) + Len(l)
      BY DEF Split
    <3>3. Len(f) + i \in 1..Len(a)
      BY <1>1, <3>1, <3>2
    <3> QED
      BY <1>1, <3>1, <3>3 DEF Split
  <2> QED
    BY <2>1, <2>2
<1>4. Len(Append(a, x)) = Len(f) + Len(Append(l, x))
  BY <1>1 DEF Split
<1> QED
  BY <1>2, <1>3, <1>4 DEF Split

\* A call is drained: it moves from the head of the channel to the end of what was drained.
LEMMA SplitMove ==
  ASSUME NEW a \in Seq(Nat), NEW f \in Seq(Nat), NEW l \in Seq(Nat), l # <<>>, Split(a, f, l)
  PROVE  Split(a, Append(f, Head(l)), Tail(l))
<1>1. /\ Head(l) = l[1] /\ 1 \in 1..Len(l) /\ Head(l) \in Nat
      /\ Len(Tail(l)) = Len(l) - 1 /\ Len(l) \in Nat /\ Len(f) \in Nat
      /\ \A i \in 1..Len(Tail(l)) : i + 1 \in 1..Len(l) /\ Tail(l)[i] = l[i + 1]
  OBVIOUS
<1>2. PICK h \in Nat : h = Head(l)
  BY <1>1
<1>3. /\ Len(Append(f, h)) = Len(f) + 1 /\ Append(f, h)[Len(f) + 1] = h
      /\ \A i \in 1..Len(f) : Append(f, h)[i] = f[i]
  OBVIOUS
<1>4. ASSUME NEW i \in 1..Len(Append(f, h)) PROVE a[i] = Append(f, h)[i]
  <2>1. CASE i = Len(f) + 1
    BY <1>1, <1>2, <1>3, <2>1 DEF Split
  <2>2. CASE i # Len(f) + 1
    <3>1. i \in 1..Len(f)
      BY <1>1, <1>3, <2>2
    <3> QED
      BY <1>3, <3>1 DEF Split
  <2> QED
    BY <2>1, <2>2
<1>5. ASSUME NEW i \in 1..Len(Tail(l)) PROVE a[Len(Append(f, h)) + i] = Tail(l)[i]
  <2>1. Len(Append(f, h)) + i = Len(f) + (i + 1) /\ i + 1 \in 1..Len(l) /\ Tail(l)[i] = l[i + 1]
    BY <1>1, <1>3
  <2> QED
    BY <2>1 DEF Split
<1>6. Len(a) = Len(Append(f, h)) + Len(Tail(l))
  BY <1>1, <1>3 DEF Split
<1> QED
  BY <1>2, <1>4, <1>5, <1>6 DEF Split

\* What was drained is a prefix of what was recorded, and all of it once the channel is empty.
LEMMA SplitPrefix ==
  ASSUME NEW a \in Seq(Nat), NEW f \in Seq(Nat), NEW l \in Seq(Nat), Split(a, f, l)
  PROVE  IsPrefix(f, a) /\ (l = <<>> => f = a)
<1>1. Len(a) \in Nat /\ Len(l) \in Nat /\ Len(f) \in Nat /\ Len(f) <= Len(a)
  BY DEF Split
<1>2. SubSeq(f, 1, Len(f)) = [i \in 1..Len(f) |-> f[i]]
  BY <1>1
<1>3. SubSeq(a, 1, Len(f)) = [i \in 1..Len(f) |-> a[i]]
  BY <1>1
<1>4. IsPrefix(f, a)
  BY <1>1, <1>2, <1>3 DEF IsPrefix, Split
<1>5. ASSUME l = <<>> PROVE f = a
  <2>1. Len(f) = Len(a)
    BY <1>1, <1>5 DEF Split
  <2>2. \A i \in 1..Len(f) : f[i] = a[i]
    BY DEF Split
  <2> QED
    BY <2>1, <2>2, SeqEqual
<1> QED
  BY <1>4, <1>5

-----------------------------------------------------------------------------
(* Calls of handlers *)

\* Whatever a handler calls, it either leaves the channel of LLM records alone, or sends to
\* it, or blocks.
LEMMA CallEffects ==
  ASSUME AttemptShape, NEW a \in Attempts, native_call(a) \/ dylib_call(a)
  PROVE  /\ handler[a] = "in" /\ calls' = [calls EXCEPT ![a] = @ + 1]
         /\ UNCHANGED <<pc, kept_llm, timed_out, library, string>>
         /\ \/ UNCHANGED <<handler, llm_ch, acked>>
            \/ /\ handler' = handler
               /\ llm_ch' = [llm_ch EXCEPT ![a] = Append(@, calls[a] + 1)]
               /\ acked' = [acked EXCEPT ![a] = Append(@, calls[a] + 1)]
            \/ Open(a) /\ handler' = [handler EXCEPT ![a] = "blocked"] /\ UNCHANGED <<llm_ch, acked>>
<1> USE DEF Calling, Call, Counted, Only_calls, dylib_vars
<1>1. CASE native_call(a)
  <2>1. CASE emit(a) \/ emit_llm_chunk(a) \/ emit_sensitive(a)
    BY <1>1, <2>1 DEF native_call, emit, emit_llm_chunk, emit_sensitive, try_send
  <2>2. CASE record_llm_call(a)
    BY <1>1, <2>2 DEF native_call, record_llm_call
  <2>3. CASE secret(a) \/ publish(a) \/ \E key \in Keys : state_set(a, key) \/ state_set_secret(a, key) \/ state_get(a, key)
    BY <1>1, <2>3 DEF native_call, secret, publish, state_set, state_set_secret, state_get
  <2> QED
    BY <1>1, <2>1, <2>2, <2>3 DEF native_call
<1>2. CASE dylib_call(a)
  <2>1. PICK arg \in Reads : as_vtable(a, arg)
    BY <1>2 DEF dylib_call
  <2>2. CASE Refused(a) \/ emit(a) \/ secret(a) \/ \E key \in Keys : state_get(a, key) \/ state_set(a, key)
    BY <1>2, <2>2 DEF dylib_call, Refused, emit, try_send, secret, state_get, state_set
  <2>3. CASE record_llm_call(a)
    BY <1>2, <2>3 DEF dylib_call, record_llm_call
  <2> QED
    BY <2>1, <2>2, <2>3 DEF as_vtable, emit_trampoline, record_llm_call_trampoline, secret_get_trampoline,
       state_get_trampoline, state_set_trampoline
<1> QED
  BY <1>1, <1>2

\* The other attempts do not notice.
LEMMA OthersStay ==
  ASSUME NEW b, Moved(b), InStep(b), pc'[b] = pc[b], handler'[b] = handler[b], llm_ch'[b] = llm_ch[b],
         kept_llm'[b] = kept_llm[b], acked'[b] = acked[b], timed_out'[b] = timed_out[b]
  PROVE  Moved(b)' /\ InStep(b)'
BY DEF Moved, InStep, Waited

\* A call gets into the channel.
LEMMA SentKeeps ==
  ASSUME AttemptInv, NEW a \in Attempts, handler[a] \in {"in", "blocked"}, NEW x \in Nat,
         llm_ch' = [llm_ch EXCEPT ![a] = Append(@, x)], acked' = [acked EXCEPT ![a] = Append(@, x)],
         handler' = handler \/ handler' = [handler EXCEPT ![a] = "in"],
         calls' \in [Attempts -> Nat],
         UNCHANGED <<pc, kept_llm, timed_out, library, string>>
  PROVE  AttemptInv'
<1>1. AttemptShape'
  <2>1. Append(llm_ch[a], x) \in Seq(Nat) /\ Append(acked[a], x) \in Seq(Nat)
    BY DEF AttemptInv, AttemptShape
  <2> QED
    BY <2>1 DEF AttemptInv, AttemptShape
<1>2. Moved(a)'
  <2>1. llm_ch[a] \in Seq(Nat) /\ acked[a] \in Seq(Nat) /\ kept_llm[a] \in Seq(Nat)
    BY DEF AttemptInv, AttemptShape
  <2>2. llm_ch'[a] = Append(llm_ch[a], x) /\ acked'[a] = Append(acked[a], x) /\ kept_llm'[a] = kept_llm[a]
    BY DEF AttemptInv, AttemptShape
  <2>3. Split(Append(acked[a], x), kept_llm[a], Append(llm_ch[a], x))
    BY <2>1, SplitAppend DEF AttemptInv, Moved
  <2> QED
    BY <2>2, <2>3 DEF Moved
<1>3. InStep(a)'
  <2>1. handler'[a] \in {"in", "blocked"} /\ pc'[a] = pc[a] /\ timed_out'[a] = timed_out[a]
    BY DEF AttemptInv, AttemptShape
  <2>2. pc[a] # "start" /\ ~(pc[a] \in {"ended", "drained", "recording", "closed"} /\ Waited(a))
    BY DEF AttemptInv, InStep
  <2> QED
    BY <2>1, <2>2 DEF InStep, Waited
<1>4. ASSUME NEW b \in Attempts, b # a PROVE Moved(b)' /\ InStep(b)'
  <2>1. /\ pc'[b] = pc[b] /\ handler'[b] = handler[b] /\ llm_ch'[b] = llm_ch[b] /\ kept_llm'[b] = kept_llm[b]
        /\ acked'[b] = acked[b] /\ timed_out'[b] = timed_out[b]
    BY <1>4 DEF AttemptInv, AttemptShape
  <2> QED
    BY <2>1, OthersStay DEF AttemptInv
<1>5. LibraryInv'
  <2>1. \A b \in Dylib : handler[b] = "parsing" => handler'[b] = "parsing"
    BY NodeServicesAssumption DEF AttemptInv, AttemptShape
  <2> QED
    BY <2>1 DEF AttemptInv, LibraryInv
<1> QED
  BY <1>1, <1>2, <1>3, <1>4, <1>5 DEF AttemptInv

\* A call of a handler on its context: it is accepted, waits, or takes a string.
LEMMA CallKeeps ==
  ASSUME AttemptInv, NEW a \in Attempts, native_call(a) \/ dylib_call(a)
  PROVE  AttemptInv'
<1>1. /\ handler[a] = "in" /\ calls[a] + 1 \in Nat /\ calls' \in [Attempts -> Nat]
      /\ UNCHANGED <<pc, kept_llm, timed_out, library, string>>
  BY CallEffects DEF AttemptInv, AttemptShape
<1>2. CASE UNCHANGED <<handler, llm_ch, acked>>
  BY <1>1, <1>2 DEF AttemptInv, AttemptShape, Moved, InStep, Waited, LibraryInv
<1>3. CASE /\ handler' = handler
           /\ llm_ch' = [llm_ch EXCEPT ![a] = Append(@, calls[a] + 1)]
           /\ acked' = [acked EXCEPT ![a] = Append(@, calls[a] + 1)]
  BY <1>1, <1>3, SentKeeps
<1>4. CASE Open(a) /\ handler' = [handler EXCEPT ![a] = "blocked"] /\ UNCHANGED <<llm_ch, acked>>
  <2>1. AttemptShape'
    BY <1>1, <1>4 DEF AttemptInv, AttemptShape
  <2>2. ASSUME NEW b \in Attempts PROVE Moved(b)' /\ InStep(b)'
    <3>1. CASE b = a
      <4>1. pc[a] # "start" /\ ~(pc[a] \in {"ended", "drained", "recording", "closed"} /\ Waited(a))
        BY <1>1 DEF AttemptInv, InStep
      <4>2. handler'[a] = "blocked"
        BY <1>4 DEF AttemptInv, AttemptShape
      <4> QED
        BY <1>1, <1>4, <3>1, <4>1, <4>2 DEF AttemptInv, Moved, InStep, Waited
    <3>2. CASE b # a
      <4>1. handler'[b] = handler[b]
        BY <1>4, <3>2 DEF AttemptInv, AttemptShape
      <4> QED
        BY <1>1, <1>4, <4>1, OthersStay DEF AttemptInv
    <3> QED
      BY <3>1, <3>2
  <2>3. LibraryInv'
    <3>1. \A b \in Dylib : handler[b] = "parsing" => handler'[b] = "parsing"
      BY <1>1, <1>4, NodeServicesAssumption DEF AttemptInv, AttemptShape
    <3> QED
      BY <1>1, <3>1 DEF AttemptInv, LibraryInv
  <2> QED
    BY <2>1, <2>2, <2>3 DEF AttemptInv
<1> QED
  BY <1>2, <1>3, <1>4, CallEffects DEF AttemptInv

-----------------------------------------------------------------------------
(* execute_node *)

\* A step of one attempt that moves no call.
LEMMA StepKeeps ==
  ASSUME AttemptInv, NEW a \in Attempts, AttemptShape', UNCHANGED <<llm_ch, kept_llm, acked>>,
         \A b \in Attempts : b # a =>
            pc'[b] = pc[b] /\ handler'[b] = handler[b] /\ timed_out'[b] = timed_out[b],
         InStep(a)', LibraryInv'
  PROVE  AttemptInv'
<1>1. Moved(a)'
  BY DEF AttemptInv, Moved
<1>2. ASSUME NEW b \in Attempts, b # a PROVE Moved(b)' /\ InStep(b)'
  BY <1>2, OthersStay DEF AttemptInv
<1> QED
  BY <1>1, <1>2 DEF AttemptInv

\* A call that waited for room is accepted.
LEMMA RecordedKeeps ==
  ASSUME AttemptInv, NEW a \in Attempts, recorded(a)
  PROVE  AttemptInv'
<1>1. CASE Open(a)
  <2>1. calls[a] \in Nat
    BY DEF AttemptInv, AttemptShape
  <2>2. calls' \in [Attempts -> Nat]
    BY DEF recorded, AttemptInv, AttemptShape
  <2> QED
    BY <1>1, <2>1, <2>2, SentKeeps DEF recorded, dylib_vars
<1>2. CASE ~Open(a)
  <2>1. /\ handler[a] = "blocked" /\ handler' = [handler EXCEPT ![a] = "in"]
        /\ UNCHANGED <<pc, llm_ch, acked, kept_llm, calls, timed_out, string, library>>
    BY <1>2 DEF recorded, dylib_vars
  <2>2. AttemptShape' /\ handler'[a] = "in"
    BY <2>1 DEF AttemptInv, AttemptShape
  <2>3. InStep(a)'
    BY <2>1, <2>2 DEF AttemptInv, InStep, Waited
  <2>4. \A b \in Attempts : b # a => handler'[b] = handler[b]
    BY <2>1 DEF AttemptInv, AttemptShape
  <2>5. LibraryInv'
    BY <2>1, <2>4, NodeServicesAssumption DEF AttemptInv, LibraryInv
  <2> QED
    BY <2>1, <2>2, <2>3, <2>4, <2>5, StepKeeps
<1> QED
  BY <1>1, <1>2

\* A handler returns; strings of a library are freed by whoever allocated them.
LEMMA ReturnsKeep ==
  ASSUME AttemptInv, NEW a \in Attempts
  PROVE  /\ native_return(a) => AttemptInv'
         /\ node_run_returns(a) => AttemptInv'
         /\ parse_run_result(a) => AttemptInv'
<1>0. Dylib \subseteq Attempts
  BY NodeServicesAssumption
<1>1. ASSUME native_return(a) PROVE AttemptInv'
  <2>1. /\ handler[a] = "in" /\ handler' = [handler EXCEPT ![a] = "gone"] /\ pc' = [pc EXCEPT ![a] = "ended"]
        /\ a \notin Dylib /\ pc[a] = "called"
        /\ UNCHANGED <<llm_ch, acked, kept_llm, calls, timed_out, string, library>>
    BY <1>1 DEF native_return, dylib_vars
  <2>2. AttemptShape' /\ handler'[a] = "gone" /\ pc'[a] = "ended"
    BY <2>1 DEF AttemptInv, AttemptShape, Stages
  <2>3. InStep(a)'
    BY <2>1, <2>2 DEF AttemptInv, InStep, Waited
  <2>4. \A b \in Attempts : b # a => handler'[b] = handler[b] /\ pc'[b] = pc[b]
    BY <2>1 DEF AttemptInv, AttemptShape
  <2>5. LibraryInv'
    BY <1>0, <2>1, <2>4 DEF AttemptInv, LibraryInv
  <2> QED
    BY <2>1, <2>2, <2>3, <2>4, <2>5, StepKeeps
<1>2. ASSUME NEW h \in {"parsing", "gone"}, handler' = [handler EXCEPT ![a] = h], a \in Dylib,
             handler[a] \in {"in", "parsing"}, h = "gone" => Ends(a), h = "parsing" => pc' = pc,
             DOMAIN string' = Dylib, \A b \in Dylib : b # a => string'[b] = string[b],
             h = "gone" => string'[a] # "live",
             UNCHANGED <<llm_ch, acked, kept_llm, calls, timed_out, library>>
      PROVE AttemptInv'
  <2>1. pc' = pc \/ (pc[a] = "called" /\ pc' = [pc EXCEPT ![a] = "ended"] /\ h = "gone")
    BY <1>2 DEF Ends
  <2>2. pc[a] = "called" /\ h = "gone" => pc' = [pc EXCEPT ![a] = "ended"]
    BY <1>2 DEF Ends
  <2>3. AttemptShape' /\ handler'[a] = h
    BY <1>2, <2>1 DEF AttemptInv, AttemptShape, Stages
  <2>4. pc'[a] = pc[a] \/ (pc[a] = "called" /\ pc'[a] = "ended" /\ h = "gone")
    BY <2>1 DEF AttemptInv, AttemptShape
  <2>5. pc[a] # "start" /\ ~(pc[a] \in {"ended", "drained", "recording", "closed"} /\ Waited(a))
    BY <1>2 DEF AttemptInv, InStep
  <2>6. InStep(a)'
    BY <1>2, <2>3, <2>4, <2>5 DEF InStep, Waited
  <2>7. \A b \in Attempts : b # a => handler'[b] = handler[b] /\ pc'[b] = pc[b]
    BY <1>2, <2>1 DEF AttemptInv, AttemptShape
  <2>8. LibraryInv'
    <3>1. ASSUME NEW b \in Dylib, string'[b] = "live" PROVE handler'[b] = "parsing"
      <4>1. CASE b = a
        BY <1>2, <2>3, <3>1, <4>1
      <4>2. CASE b # a
        BY <1>0, <1>2, <2>7, <3>1, <4>2 DEF AttemptInv, LibraryInv
      <4> QED
        BY <4>1, <4>2
    <3>2. library' = "unloaded" => \A b \in Dylib : pc'[b] = "closed"
      BY <1>0, <1>2, <2>4, <2>7 DEF AttemptInv, LibraryInv
    <3> QED
      BY <3>1, <3>2 DEF LibraryInv
  <2> QED
    BY <1>2, <2>3, <2>6, <2>7, <2>8, StepKeeps
<1>3. ASSUME node_run_returns(a) PROVE AttemptInv'
  <2>1. a \in Dylib /\ handler[a] = "in" /\ UNCHANGED <<llm_ch, acked, kept_llm, calls, timed_out, library>>
        /\ string[a] # "live"
    BY <1>3 DEF node_run_returns, AttemptInv, LibraryInv
  <2>2. DOMAIN string' = Dylib /\ \A b \in Dylib : b # a => string'[b] = string[b]
    BY <1>3 DEF node_run_returns, AttemptInv, AttemptShape
  <2>3. CASE handler' = [handler EXCEPT ![a] = "parsing"] /\ pc' = pc
    BY <1>2, <2>1, <2>2, <2>3
  <2>4. CASE handler' = [handler EXCEPT ![a] = "gone"] /\ Ends(a) /\ string' = string
    BY <1>2, <2>1, <2>2, <2>4
  <2> QED
    BY <1>3, <2>3, <2>4 DEF node_run_returns
<1>4. ASSUME parse_run_result(a) PROVE AttemptInv'
  <2>1. PICK x \in {"leaked", "freed"} : string' = [string EXCEPT ![a] = x]
    BY <1>4 DEF parse_run_result
  <2>2. a \in Dylib /\ handler[a] = "parsing"
    BY <1>4 DEF parse_run_result, AttemptInv, InStep
  <2>3. DOMAIN string' = Dylib /\ (\A b \in Dylib : b # a => string'[b] = string[b]) /\ string'[a] # "live"
    BY <2>1, <2>2 DEF AttemptInv, AttemptShape
  <2>4. handler' = [handler EXCEPT ![a] = "gone"] /\ Ends(a)
        /\ UNCHANGED <<llm_ch, acked, kept_llm, calls, timed_out, library>>
    BY <1>4 DEF parse_run_result
  <2> QED
    BY <1>2, <2>2, <2>3, <2>4
<1> QED
  BY <1>1, <1>3, <1>4

\* The executor starts an attempt, gives up on it, or drains its channels.
LEMMA ExecuteKeeps ==
  ASSUME AttemptInv, NEW a \in Attempts
  PROVE  /\ run(a) => AttemptInv'
         /\ timeout(a) => AttemptInv'
         /\ drain_llm(a) => AttemptInv'
         /\ drain_events(a) => AttemptInv'
         /\ close(a) => AttemptInv'
<1>0. Dylib \subseteq Attempts
  BY NodeServicesAssumption
<1>1. ASSUME run(a) PROVE AttemptInv'
  <2>1. /\ pc[a] = "start" /\ handler' = [handler EXCEPT ![a] = "in"] /\ pc' = [pc EXCEPT ![a] = "called"]
        /\ UNCHANGED <<llm_ch, acked, kept_llm, calls, timed_out, string, library>>
        /\ (a \in Dylib => library = "loaded")
    BY <1>1 DEF run, dylib_vars
  <2>2. AttemptShape' /\ handler'[a] = "in" /\ pc'[a] = "called"
    BY <2>1 DEF AttemptInv, AttemptShape, Stages
  <2>3. InStep(a)'
    BY <2>2 DEF InStep, Waited
  <2>4. \A b \in Attempts : b # a => handler'[b] = handler[b] /\ pc'[b] = pc[b]
    BY <2>1 DEF AttemptInv, AttemptShape
  <2>5. LibraryInv'
    <3>1. handler[a] = "out"
      BY <2>1 DEF AttemptInv, InStep
    <3> QED
      BY <1>0, <2>1, <2>4, <3>1 DEF AttemptInv, LibraryInv
  <2> QED
    BY <2>1, <2>2, <2>3, <2>4, <2>5, StepKeeps
<1>2. ASSUME timeout(a) PROVE AttemptInv'
  <2>1. /\ pc[a] = "called" /\ pc' = [pc EXCEPT ![a] = "ended"]
        /\ timed_out' = [timed_out EXCEPT ![a] = TRUE]
        /\ UNCHANGED <<llm_ch, acked, kept_llm, calls, string, library>>
    BY <1>2 DEF timeout, dylib_vars
  <2>2. /\ a \in Dylib => handler' = handler
        /\ a \notin Dylib => handler' = [handler EXCEPT ![a] = "gone"]
    BY <1>2 DEF timeout
  <2>3. AttemptShape' /\ pc'[a] = "ended" /\ timed_out'[a]
    BY <2>1, <2>2 DEF AttemptInv, AttemptShape, Stages
  <2>4. a \notin Dylib => handler'[a] = "gone"
    BY <2>2 DEF AttemptInv, AttemptShape
  <2>5. InStep(a)'
    BY <2>1, <2>2, <2>3, <2>4 DEF AttemptInv, InStep, Waited
  <2>6. \A b \in Attempts : b # a => handler'[b] = handler[b] /\ pc'[b] = pc[b] /\ timed_out'[b] = timed_out[b]
    BY <2>1, <2>2 DEF AttemptInv, AttemptShape
  <2>7. LibraryInv'
    BY <1>0, <2>1, <2>2, <2>6 DEF AttemptInv, LibraryInv
  <2> QED
    BY <2>1, <2>3, <2>5, <2>6, <2>7, StepKeeps
<1>3. ASSUME NEW q \in Stages, pc[a] \in {"ended", "drained", "recording"}, pc' = [pc EXCEPT ![a] = q],
             q \in {"drained", "recording", "closed"}, pc[a] # "ended" \/ llm_ch[a] = <<>>,
             UNCHANGED <<handler, llm_ch, acked, kept_llm, calls, timed_out, string, library>>
      PROVE AttemptInv'
  <2>1. AttemptShape' /\ pc'[a] = q
    BY <1>3 DEF AttemptInv, AttemptShape
  <2>2. InStep(a)'
    BY <1>3, <2>1 DEF AttemptInv, InStep, Waited
  <2>3. \A b \in Attempts : b # a => pc'[b] = pc[b]
    BY <1>3 DEF AttemptInv, AttemptShape
  <2>4. LibraryInv'
    BY <1>0, <1>3, <2>3 DEF AttemptInv, LibraryInv
  <2> QED
    BY <1>3, <2>1, <2>2, <2>3, <2>4, StepKeeps
<1>4. ASSUME drain_llm(a) PROVE AttemptInv'
  <2>1. CASE llm_ch[a] = <<>>
    BY <1>3, <1>4, <2>1 DEF drain_llm, dylib_vars, Stages
  <2>2. CASE llm_ch[a] # <<>>
    <3>1. /\ kept_llm' = [kept_llm EXCEPT ![a] = Append(@, Head(llm_ch[a]))]
          /\ llm_ch' = [llm_ch EXCEPT ![a] = Tail(@)] /\ pc[a] = "ended"
          /\ UNCHANGED <<pc, handler, acked, calls, timed_out, string, library>>
      BY <1>4, <2>2 DEF drain_llm, dylib_vars
    <3>2. llm_ch[a] \in Seq(Nat) /\ kept_llm[a] \in Seq(Nat) /\ acked[a] \in Seq(Nat)
      BY DEF AttemptInv, AttemptShape
    <3>3. Head(llm_ch[a]) \in Nat /\ Tail(llm_ch[a]) \in Seq(Nat) /\ Append(kept_llm[a], Head(llm_ch[a])) \in Seq(Nat)
      BY <2>2, <3>2
    <3>4. AttemptShape'
      BY <3>1, <3>3 DEF AttemptInv, AttemptShape
    <3>5. kept_llm'[a] = Append(kept_llm[a], Head(llm_ch[a])) /\ llm_ch'[a] = Tail(llm_ch[a]) /\ acked'[a] = acked[a]
      BY <3>1 DEF AttemptInv, AttemptShape
    <3>6. Split(acked[a], Append(kept_llm[a], Head(llm_ch[a])), Tail(llm_ch[a]))
      BY <2>2, <3>2, SplitMove DEF AttemptInv, Moved
    <3>7. Moved(a)'
      BY <3>5, <3>6 DEF Moved
    <3>8. InStep(a)'
      BY <3>1 DEF AttemptInv, InStep, Waited
    <3>9. ASSUME NEW b \in Attempts, b # a PROVE Moved(b)' /\ InStep(b)'
      <4>1. kept_llm'[b] = kept_llm[b] /\ llm_ch'[b] = llm_ch[b]
        BY <3>1, <3>9 DEF AttemptInv, AttemptShape
      <4> QED
        BY <3>1, <4>1, OthersStay DEF AttemptInv
    <3>10. LibraryInv'
      BY <3>1 DEF AttemptInv, LibraryInv
    <3> QED
      BY <3>4, <3>7, <3>8, <3>9, <3>10 DEF AttemptInv
  <2> QED
    BY <2>1, <2>2
<1>5. ASSUME drain_events(a) PROVE AttemptInv'
  <2>1. CASE event_ch[a] = <<>>
    BY <1>3, <1>5, <2>1 DEF drain_events, dylib_vars, Stages
  <2>2. CASE event_ch[a] # <<>>
    <3>1. UNCHANGED <<pc, handler, llm_ch, acked, kept_llm, calls, timed_out, string, library>>
      BY <1>5, <2>2 DEF drain_events, dylib_vars
    <3> QED
      BY <3>1 DEF AttemptInv, AttemptShape, Moved, InStep, Waited, LibraryInv
  <2> QED
    BY <2>1, <2>2
<1>6. ASSUME close(a) PROVE AttemptInv'
  BY <1>3, <1>6 DEF close, dylib_vars, Stages
<1> QED
  BY <1>1, <1>2, <1>4, <1>5, <1>6

-----------------------------------------------------------------------------
(* The queue *)

\* Numbers below one bound are below a higher one.
LEMMA BelowMore ==
  ASSUME NEW q \in Seq(Nat), NEW m \in Nat, NEW n \in Nat, m <= n, Below(q, m)
  PROVE  Below(q, n)
<1> SUFFICES ASSUME NEW i \in 1..Len(q) PROVE q[i] < n
  BY DEF Below
<1>1. q[i] \in Nat /\ q[i] < m
  BY DEF Below
<1> QED
  BY <1>1

\* A publication only makes the topic longer.
LEMMA PublishKeeps ==
  ASSUME QueueInv, bus' = bus \/ bus' = Append(bus, Len(bus) + 1),
         UNCHANGED <<receiver, since, cursor, hand, inbox, got>>
  PROVE  QueueInv'
<1>1. bus \in Seq(Nat) /\ Len(bus) \in Nat
  BY DEF QueueInv, QueueShape
<1>2. bus' \in Seq(Nat) /\ Len(bus') \in Nat /\ Len(bus) <= Len(bus') /\ \A k \in 1..Len(bus') : bus'[k] = k
  <2>1. \A k \in 1..Len(bus) : bus[k] = k
    BY DEF QueueInv, QueueShape
  <2>2. CASE bus' = bus
    BY <1>1, <2>1, <2>2
  <2>3. CASE bus' = Append(bus, Len(bus) + 1)
    <3>1. PICK x \in Nat : x = Len(bus) + 1
      BY <1>1
    <3>2. /\ Append(bus, x) \in Seq(Nat) /\ Len(Append(bus, x)) = Len(bus) + 1 /\ Append(bus, x)[Len(bus) + 1] = x
          /\ \A i \in 1..Len(bus) : Append(bus, x)[i] = bus[i]
      BY <1>1
    <3> QED
      BY <1>1, <2>1, <2>3, <3>1, <3>2
  <2> QED
    BY <2>2, <2>3
<1>3. QueueShape'
  BY <1>2 DEF QueueInv, QueueShape
<1>4. ASSUME NEW s \in Subscribers, receiver[s] = "open" PROVE OrderInv(s)' /\ MissInv(s)'
  <2>1. OrderInv(s) /\ MissInv(s)
    BY <1>4 DEF QueueInv
  <2>2. OrderInv(s)'
    BY <1>1, <1>2, <2>1 DEF OrderInv
  <2>3. BROADCAST_CAPACITY \in Nat /\ since[s] \in Nat /\ cursor[s] \in Nat
    BY <2>1, NodeServicesAssumption DEF OrderInv
  <2>4. MissInv(s)'
    BY <1>1, <1>2, <2>1, <2>3 DEF MissInv
  <2> QED
    BY <2>2, <2>4
<1>5. ASSUME NEW s \in Subscribers, receiver[s] = "none" PROVE NoneInv(s)'
  BY <1>5 DEF QueueInv, NoneInv
<1> QED
  BY <1>3, <1>4, <1>5 DEF QueueInv

\* What one subscription does is nothing to the others.
LEMMA OneSubscriber ==
  ASSUME QueueInv, QueueShape', NEW s \in Subscribers, UNCHANGED bus,
         \A u \in Subscribers : u # s =>
            /\ receiver'[u] = receiver[u] /\ since'[u] = since[u] /\ cursor'[u] = cursor[u]
            /\ hand'[u] = hand[u] /\ inbox'[u] = inbox[u] /\ got'[u] = got[u],
         receiver'[s] # "none", receiver'[s] = "open" => OrderInv(s)' /\ MissInv(s)'
  PROVE  QueueInv'
<1>1. ASSUME NEW u \in Subscribers, u # s, receiver[u] = "open" PROVE OrderInv(u)' /\ MissInv(u)'
  <2>1. OrderInv(u) /\ MissInv(u)
    BY <1>1 DEF QueueInv
  <2> QED
    BY <1>1, <2>1 DEF OrderInv, MissInv
<1>2. ASSUME NEW u \in Subscribers, u # s, receiver[u] = "none" PROVE NoneInv(u)'
  BY <1>2 DEF QueueInv, NoneInv
<1> QED
  BY <1>1, <1>2 DEF QueueInv

\* A new subscriber starts behind everything published.
LEMMA SubscribeKeeps ==
  ASSUME QueueInv, NEW s \in Subscribers, subscribe(s)
  PROVE  QueueInv'
<1>1. bus \in Seq(Nat) /\ Len(bus) \in Nat /\ bus' = bus /\ NoneInv(s)
  BY DEF QueueInv, QueueShape, subscribe
<1>2. QueueShape'
  BY <1>1 DEF subscribe, QueueInv, QueueShape
<1>3. /\ receiver'[s] = "open" /\ cursor'[s] = Len(bus) + 1 /\ since'[s] = Len(bus) + 1
      /\ hand'[s] = Absent /\ inbox'[s] = <<>> /\ got'[s] = <<>>
  BY <1>1 DEF subscribe, QueueInv, QueueShape, NoneInv
<1>4. OrderInv(s)'
  BY <1>1, <1>3 DEF OrderInv, Increasing, Below
<1>5. MissInv(s)'
  BY <1>1, <1>3 DEF MissInv
<1>6. \A u \in Subscribers : u # s =>
            /\ receiver'[u] = receiver[u] /\ since'[u] = since[u] /\ cursor'[u] = cursor[u]
            /\ hand'[u] = hand[u] /\ inbox'[u] = inbox[u] /\ got'[u] = got[u]
  BY DEF subscribe, QueueInv, QueueShape
<1> QED
  BY <1>1, <1>2, <1>3, <1>4, <1>5, <1>6, OneSubscriber

\* A bridge reads the next message the ring still has; what it skips is older.
LEMMA BridgeRecvKeeps ==
  ASSUME QueueInv, NEW s \in Subscribers, bridge_recv(s)
  PROVE  QueueInv'
<1>1. /\ bus \in Seq(Nat) /\ Len(bus) \in Nat /\ bus' = bus /\ cursor[s] \in Nat /\ hand[s] = Absent
      /\ UNCHANGED <<receiver, since, inbox, got>> /\ cursor[s] <= Len(bus)
      /\ inbox[s] \in Seq(Nat) /\ got[s] \in Seq(Nat) /\ Len(inbox[s]) \in Nat /\ Len(got[s]) \in Nat
  BY DEF bridge_recv, QueueInv, QueueShape
<1>2. receiver[s] # "none"
  BY DEF QueueInv, NoneInv, bridge_recv
<1>3. BROADCAST_CAPACITY \in Nat \ {0} /\ Absent \notin Nat
  BY NodeServicesAssumption
<1>4. CASE cursor[s] < Oldest
  <2>1. cursor' = [cursor EXCEPT ![s] = Oldest] /\ hand' = hand
    BY <1>4 DEF bridge_recv
  <2>2. Oldest \in Nat /\ Oldest # 0 /\ Oldest <= Len(bus) + 1
        /\ \A m \in Nat : cursor[s] <= m /\ m < Oldest => Len(bus) >= m + BROADCAST_CAPACITY
    <3>1. cursor[s] >= 1
      BY <1>1, <1>3 DEF QueueInv, QueueShape
    <3>2. Len(bus) > BROADCAST_CAPACITY /\ Oldest = Len(bus) - BROADCAST_CAPACITY + 1
      BY <1>1, <1>3, <1>4, <3>1 DEF Oldest
    <3> QED
      BY <1>1, <1>3, <3>2
  <2>3. cursor'[s] = Oldest /\ \A u \in Subscribers : u # s => cursor'[u] = cursor[u]
    BY <2>1 DEF QueueInv, QueueShape
  <2>4. QueueShape'
    BY <1>1, <2>1, <2>2 DEF QueueInv, QueueShape
  <2>5. ASSUME receiver[s] = "open" PROVE OrderInv(s)' /\ MissInv(s)'
    <3>1. OrderInv(s) /\ MissInv(s)
      BY <2>5 DEF QueueInv
    <3>2. Below(got[s], Oldest) /\ Below(inbox[s], Oldest)
      BY <1>1, <1>4, <2>2, <3>1, BelowMore DEF OrderInv
    <3>3. OrderInv(s)'
      BY <1>1, <2>1, <2>2, <2>3, <3>1, <3>2 DEF OrderInv
    <3>4. ASSUME NEW m \in since[s]..(Oldest - 1)
          PROVE Has(got[s], m) \/ Has(inbox[s], m) \/ hand[s] = m \/ Len(bus) >= m + BROADCAST_CAPACITY
      <4>1. since[s] \in Nat /\ m \in Nat
        BY <2>2, <3>1 DEF OrderInv
      <4>2. CASE m < cursor[s]
        <5>1. m \in since[s]..(cursor[s] - 1)
          BY <1>1, <4>1, <4>2
        <5> QED
          BY <3>1, <5>1 DEF MissInv
      <4>3. CASE ~(m < cursor[s])
        <5>1. cursor[s] <= m /\ m < Oldest
          BY <1>1, <2>2, <4>1, <4>3
        <5> QED
          BY <2>2, <4>1, <5>1
      <4> QED
        BY <4>2, <4>3
    <3>5. MissInv(s)'
      BY <1>1, <2>1, <2>3, <3>4 DEF MissInv
    <3> QED
      BY <3>3, <3>5
  <2> QED
    BY <1>1, <1>2, <2>1, <2>3, <2>4, <2>5, OneSubscriber
<1>5. CASE ~(cursor[s] < Oldest)
  <2>1. hand' = [hand EXCEPT ![s] = bus[cursor[s]]] /\ cursor' = [cursor EXCEPT ![s] = @ + 1]
    BY <1>5 DEF bridge_recv
  <2>2. cursor[s] \in 1..Len(bus)
    BY <1>1, <1>3, <1>5 DEF Oldest
  <2>3. bus[cursor[s]] = cursor[s]
    BY <2>2 DEF QueueInv, QueueShape
  <2>4. hand'[s] = cursor[s] /\ cursor'[s] = cursor[s] + 1
        /\ \A u \in Subscribers : u # s => cursor'[u] = cursor[u] /\ hand'[u] = hand[u]
    BY <2>1, <2>3 DEF QueueInv, QueueShape
  <2>5. QueueShape'
    BY <1>1, <2>1, <2>3 DEF QueueInv, QueueShape
  <2>6. ASSUME receiver[s] = "open" PROVE OrderInv(s)' /\ MissInv(s)'
    <3>1. OrderInv(s) /\ MissInv(s)
      BY <2>6 DEF QueueInv
    <3>2. Below(got[s], cursor[s] + 1) /\ Below(inbox[s], cursor[s] + 1)
      BY <1>1, <3>1, BelowMore DEF OrderInv
    <3>3. OrderInv(s)'
      <4>1. since[s] \in Nat /\ cursor[s] + 1 \in Nat /\ cursor[s] + 1 <= Len(bus) + 1
        BY <2>2, <3>1 DEF OrderInv
      <4>2. Below(got[s], cursor[s]) /\ Below(inbox[s], cursor[s]) /\ cursor[s] < cursor[s] + 1
        BY <2>2, <3>1 DEF OrderInv
      <4>3. /\ Increasing(got[s]) /\ Increasing(inbox[s])
            /\ \A j \in 1..Len(inbox[s]) : Below(got[s], inbox[s][j])
        BY <3>1 DEF OrderInv
      <4>4. PICK c : c = cursor[s] + 1
        OBVIOUS
      <4> QED BY <1>1, <2>4, <3>2, <4>1, <4>2, <4>3, <4>4 DEF OrderInv
    <3>4. ASSUME NEW m \in since[s]..cursor[s]
          PROVE Has(got[s], m) \/ Has(inbox[s], m) \/ cursor[s] = m \/ Len(bus) >= m + BROADCAST_CAPACITY
      <4>1. since[s] \in Nat
        BY <3>1 DEF OrderInv
      <4>2. m = cursor[s] \/ m \in since[s]..(cursor[s] - 1)
        BY <1>1, <4>1
      <4>3. hand[s] # m
        BY <1>1, <1>3, <4>1
      <4> QED
        BY <3>1, <4>2, <4>3 DEF MissInv
    <3>5. cursor[s] + 1 - 1 = cursor[s]
      BY <1>1
    <3>6. MissInv(s)'
      BY <1>1, <2>4, <3>4, <3>5 DEF MissInv
    <3> QED
      BY <3>3, <3>6
  <2> QED
    BY <1>1, <1>2, <2>4, <2>5, <2>6, OneSubscriber
<1> QED
  BY <1>4, <1>5

\* Sending and taking keep the order.
LEMMA AppendOrder ==
  ASSUME NEW q \in Seq(Nat), NEW x \in Nat
  PROVE  /\ Increasing(q) /\ Below(q, x) => Increasing(Append(q, x))
         /\ \A n \in Nat : Below(q, n) /\ x < n => Below(Append(q, x), n)
         /\ \A m : Has(q, m) => Has(Append(q, x), m)
         /\ Has(Append(q, x), x)
         /\ Append(q, x) \in Seq(Nat)
<1>1. /\ Len(Append(q, x)) = Len(q) + 1 /\ Len(q) \in Nat /\ Append(q, x)[Len(q) + 1] = x
      /\ \A i \in 1..Len(q) : Append(q, x)[i] = q[i] /\ q[i] \in Nat
      /\ \A i \in 1..(Len(q) + 1) : i = Len(q) + 1 \/ i \in 1..Len(q)
      /\ Append(q, x) \in Seq(Nat)
  OBVIOUS
<1>2. ASSUME Increasing(q), Below(q, x) PROVE Increasing(Append(q, x))
  <2> SUFFICES ASSUME NEW i \in 1..(Len(q) + 1), NEW j \in 1..(Len(q) + 1), i < j
               PROVE Append(q, x)[i] < Append(q, x)[j]
    BY <1>1 DEF Increasing
  <2>1. i \in 1..Len(q)
    BY <1>1
  <2>2. CASE j = Len(q) + 1
    BY <1>1, <1>2, <2>1, <2>2 DEF Below
  <2>3. CASE j # Len(q) + 1
    BY <1>1, <1>2, <2>1, <2>3 DEF Increasing
  <2> QED
    BY <2>2, <2>3
<1>3. ASSUME NEW n \in Nat, Below(q, n), x < n PROVE Below(Append(q, x), n)
  BY <1>1, <1>3 DEF Below
<1>4. ASSUME NEW m, Has(q, m) PROVE Has(Append(q, x), m)
  <2>1. PICK i \in 1..Len(q) : q[i] = m
    BY <1>4 DEF Has
  <2>2. i \in 1..Len(Append(q, x)) /\ Append(q, x)[i] = m
    BY <1>1, <2>1
  <2> QED
    BY <2>2 DEF Has
<1>5. Has(Append(q, x), x)
  <2>1. Len(q) + 1 \in 1..Len(Append(q, x))
    BY <1>1
  <2> QED
    BY <1>1, <2>1 DEF Has
<1> QED
  BY <1>1, <1>2, <1>3, <1>4, <1>5

\* The rest of an increasing sequence is increasing and above its head.
LEMMA TailOrder ==
  ASSUME NEW q \in Seq(Nat), q # <<>>
  PROVE  /\ Head(q) \in Nat /\ Tail(q) \in Seq(Nat) /\ 1 \in 1..Len(q) /\ q[1] = Head(q)
         /\ \A j \in 1..Len(Tail(q)) : j + 1 \in 1..Len(q) /\ Tail(q)[j] = q[j + 1]
         /\ Increasing(q) => Increasing(Tail(q)) /\ \A j \in 1..Len(Tail(q)) : Head(q) < Tail(q)[j]
         /\ \A n : Below(q, n) => Below(Tail(q), n) /\ Head(q) < n
         /\ \A m : Has(q, m) => m = Head(q) \/ Has(Tail(q), m)
<1>1. /\ Head(q) \in Nat /\ Tail(q) \in Seq(Nat) /\ 1 \in 1..Len(q) /\ q[1] = Head(q)
      /\ Len(q) \in Nat /\ Len(Tail(q)) = Len(q) - 1
      /\ \A j \in 1..Len(Tail(q)) : j + 1 \in 1..Len(q) /\ Tail(q)[j] = q[j + 1]
  OBVIOUS
<1>2. ASSUME Increasing(q) PROVE Increasing(Tail(q)) /\ \A j \in 1..Len(Tail(q)) : Head(q) < Tail(q)[j]
  <2>1. ASSUME NEW i \in 1..Len(Tail(q)), NEW j \in 1..Len(Tail(q)), i < j PROVE Tail(q)[i] < Tail(q)[j]
    BY <1>1, <1>2, <2>1 DEF Increasing
  <2>2. ASSUME NEW j \in 1..Len(Tail(q)) PROVE Head(q) < Tail(q)[j]
    BY <1>1, <1>2 DEF Increasing
  <2> QED
    BY <2>1, <2>2 DEF Increasing
<1>3. ASSUME NEW n, Below(q, n) PROVE Below(Tail(q), n) /\ Head(q) < n
  BY <1>1, <1>3 DEF Below
<1>4. ASSUME NEW m, Has(q, m) PROVE m = Head(q) \/ Has(Tail(q), m)
  <2>1. PICK i \in 1..Len(q) : q[i] = m
    BY <1>4 DEF Has
  <2>2. CASE i = 1
    BY <1>1, <2>1, <2>2
  <2>3. CASE i # 1
    <3>1. PICK j \in 1..Len(Tail(q)) : j + 1 = i
      <4>1. i - 1 \in 1..Len(Tail(q)) /\ (i - 1) + 1 = i
        BY <1>1, <2>3
      <4> QED
        BY <4>1
    <3> QED
      BY <1>1, <2>1, <3>1 DEF Has
  <2> QED
    BY <2>2, <2>3
<1> QED
  BY <1>1, <1>2, <1>3, <1>4

\* A bridge hands its message over.
LEMMA BridgeSendKeeps ==
  ASSUME QueueInv, NEW s \in Subscribers, bridge_send(s)
  PROVE  QueueInv'
<1>1. PICK h : h = hand[s]
  OBVIOUS
<1>2. /\ h \in Nat /\ inbox[s] \in Seq(Nat) /\ got[s] \in Seq(Nat) /\ hand'[s] = Absent
      /\ UNCHANGED <<bus, receiver, since, got>> /\ receiver[s] # "none"
      /\ \A u \in Subscribers : u # s => hand'[u] = hand[u]
  BY <1>1 DEF bridge_send, QueueInv, QueueShape, NoneInv
<1>3. CASE receiver[s] = "open"
  <2>1. inbox' = [inbox EXCEPT ![s] = Append(@, h)] /\ cursor' = cursor
    BY <1>1, <1>3 DEF bridge_send
  <2>2. inbox'[s] = Append(inbox[s], h) /\ \A u \in Subscribers : u # s => inbox'[u] = inbox[u]
    BY <2>1 DEF QueueInv, QueueShape
  <2>3. QueueShape'
    BY <1>1, <1>2, <2>1, AppendOrder DEF bridge_send, QueueInv, QueueShape
  <2>4. OrderInv(s) /\ MissInv(s) /\ h # Absent
    BY <1>1, <1>3 DEF QueueInv, bridge_send
  <2>5. cursor[s] \in Nat /\ Increasing(Append(inbox[s], h)) /\ Below(Append(inbox[s], h), cursor[s])
    BY <1>1, <1>2, <2>4, AppendOrder DEF OrderInv
  <2>6. \A j \in 1..Len(Append(inbox[s], h)) : Below(got[s], Append(inbox[s], h)[j])
    <3>1. /\ Len(Append(inbox[s], h)) = Len(inbox[s]) + 1 /\ Append(inbox[s], h)[Len(inbox[s]) + 1] = h
          /\ \A i \in 1..Len(inbox[s]) : Append(inbox[s], h)[i] = inbox[s][i]
          /\ \A i \in 1..(Len(inbox[s]) + 1) : i = Len(inbox[s]) + 1 \/ i \in 1..Len(inbox[s])
      BY <1>2
    <3>2. Below(got[s], h) /\ \A i \in 1..Len(inbox[s]) : Below(got[s], inbox[s][i])
      BY <1>1, <2>4 DEF OrderInv
    <3> QED
      BY <3>1, <3>2
  <2>7. OrderInv(s)'
    BY <1>2, <2>1, <2>2, <2>4, <2>5, <2>6 DEF OrderInv
  <2>8. ASSUME NEW m \in since[s]..(cursor[s] - 1)
        PROVE Has(got[s], m) \/ Has(Append(inbox[s], h), m) \/ Len(bus) >= m + BROADCAST_CAPACITY
    BY <1>1, <1>2, <2>4, AppendOrder DEF MissInv
  <2>9. MissInv(s)'
    BY <1>2, <2>1, <2>2, <2>8 DEF MissInv
  <2> QED
    BY <1>2, <2>1, <2>2, <2>3, <2>7, <2>9, OneSubscriber
<1>4. CASE receiver[s] # "open"
  <2>1. cursor' = [cursor EXCEPT ![s] = Absent] /\ inbox' = inbox
    BY <1>4 DEF bridge_send
  <2>2. QueueShape'
    BY <1>2, <2>1 DEF bridge_send, QueueInv, QueueShape
  <2>3. \A u \in Subscribers : u # s => cursor'[u] = cursor[u]
    BY <2>1 DEF QueueInv, QueueShape
  <2> QED
    BY <1>2, <1>4, <2>1, <2>2, <2>3, OneSubscriber
<1> QED
  BY <1>3, <1>4

\* A subscriber takes the first message.
LEMMA ReceiveKeeps ==
  ASSUME QueueInv, NEW s \in Subscribers, receive(s)
  PROVE  QueueInv'
<1>1. /\ receiver[s] = "open" /\ inbox[s] # <<>> /\ inbox[s] \in Seq(Nat) /\ got[s] \in Seq(Nat)
      /\ UNCHANGED <<bus, receiver, since, cursor, hand>> /\ OrderInv(s) /\ MissInv(s)
  BY DEF receive, QueueInv, QueueShape
<1>2. PICK h : h = Head(inbox[s])
  OBVIOUS
<1>3. PICK t : t = Tail(inbox[s])
  OBVIOUS
<1>4. /\ h \in Nat /\ t \in Seq(Nat) /\ 1 \in 1..Len(inbox[s]) /\ inbox[s][1] = h
      /\ \A j \in 1..Len(t) : j + 1 \in 1..Len(inbox[s]) /\ t[j] = inbox[s][j + 1]
      /\ Increasing(t) /\ \A j \in 1..Len(t) : h < t[j]
      /\ \A n : Below(inbox[s], n) => Below(t, n) /\ h < n
      /\ \A m : Has(inbox[s], m) => m = h \/ Has(t, m)
  BY <1>1, <1>2, <1>3, TailOrder DEF OrderInv
<1>5. /\ got'[s] = Append(got[s], h) /\ inbox'[s] = t
      /\ \A u \in Subscribers : u # s => inbox'[u] = inbox[u] /\ got'[u] = got[u]
  BY <1>2, <1>3 DEF receive, QueueInv, QueueShape
<1>6. QueueShape'
  <2>1. Append(got[s], h) \in Seq(Nat)
    BY <1>1, <1>4
  <2> QED
    BY <1>1, <1>2, <1>3, <1>4, <2>1 DEF receive, QueueInv, QueueShape
<1>7. Below(got[s], h)
  BY <1>1, <1>4 DEF OrderInv
<1>8. Increasing(Append(got[s], h))
  BY <1>1, <1>4, <1>7, AppendOrder DEF OrderInv
<1>9. ASSUME NEW j \in 1..Len(t) PROVE Below(Append(got[s], h), t[j])
  <2>1. j + 1 \in 1..Len(inbox[s]) /\ t[j] = inbox[s][j + 1]
    BY <1>4
  <2>2. Below(got[s], t[j])
    BY <1>1, <2>1 DEF OrderInv
  <2>3. h < t[j]
    BY <1>4
  <2>4. t[j] \in Nat
    BY <1>4
  <2> QED
    BY <1>1, <1>4, <2>2, <2>3, <2>4, AppendOrder
<1>10. ASSUME hand[s] # Absent PROVE Below(Append(got[s], h), hand[s]) /\ Below(t, hand[s]) /\ hand[s] < cursor[s]
  <2>1. hand[s] \in Nat
    BY <1>10 DEF QueueInv, QueueShape
  <2>2. Below(got[s], hand[s]) /\ Below(inbox[s], hand[s]) /\ hand[s] < cursor[s]
    BY <1>1, <1>10 DEF OrderInv
  <2> QED
    BY <1>1, <1>4, <2>1, <2>2, AppendOrder
<1>11. cursor[s] \in Nat /\ Below(Append(got[s], h), cursor[s]) /\ Below(t, cursor[s])
  BY <1>1, <1>4, AppendOrder DEF OrderInv
<1>12. OrderInv(s)'
  BY <1>1, <1>4, <1>5, <1>8, <1>9, <1>10, <1>11 DEF OrderInv
<1>13. ASSUME NEW m \in since[s]..(cursor[s] - 1)
       PROVE Has(Append(got[s], h), m) \/ Has(t, m) \/ hand[s] = m \/ Len(bus) >= m + BROADCAST_CAPACITY
  BY <1>1, <1>4, AppendOrder DEF MissInv
<1>14. MissInv(s)'
  BY <1>1, <1>5, <1>13 DEF MissInv
<1> QED
  BY <1>1, <1>5, <1>6, <1>12, <1>14, OneSubscriber

\* A subscriber goes away.
LEMMA DropReceiverKeeps ==
  ASSUME QueueInv, NEW s \in Subscribers, drop_receiver(s)
  PROVE  QueueInv'
<1>1. QueueShape'
  BY DEF drop_receiver, QueueInv, QueueShape
<1>2. receiver'[s] = "dropped" /\ \A u \in Subscribers : u # s => receiver'[u] = receiver[u] /\ inbox'[u] = inbox[u]
  BY DEF drop_receiver, QueueInv, QueueShape
<1> QED
  BY <1>1, <1>2, OneSubscriber DEF drop_receiver

-----------------------------------------------------------------------------
(* The whole module *)

\* The calls of a handler reach the queue only through publish.
LEMMA CallQueue ==
  ASSUME NEW a \in Attempts, native_call(a) \/ dylib_call(a)
  PROVE  /\ bus' = bus \/ bus' = Append(bus, Len(bus) + 1)
         /\ UNCHANGED <<receiver, since, cursor, hand, inbox, got>>
<1>1. CASE native_call(a)
  BY <1>1 DEF native_call, publish, queue_vars
<1>2. CASE dylib_call(a)
  BY <1>2 DEF dylib_call, queue_vars
<1> QED
  BY <1>1, <1>2

\* What is left alone keeps what is known of it.
LEMMA Untouched ==
  /\ AttemptInv /\ UNCHANGED <<attempt_vars, library, string>> => AttemptInv'
  /\ QueueInv /\ UNCHANGED queue_vars => QueueInv'
<1>1. ASSUME AttemptInv, UNCHANGED <<attempt_vars, library, string>> PROVE AttemptInv'
  BY <1>1 DEF attempt_vars, AttemptInv, AttemptShape, Moved, InStep, Waited, LibraryInv
<1>2. ASSUME QueueInv, UNCHANGED queue_vars PROVE QueueInv'
  BY <1>2 DEF queue_vars, QueueInv, QueueShape, OrderInv, MissInv, NoneInv
<1> QED
  BY <1>1, <1>2

\* Loading leaves the attempts alone; unloading waits for them to be closed.
LEMMA LibraryKeeps ==
  ASSUME AttemptInv, scan \/ unload
  PROVE  AttemptInv'
<1>1. UNCHANGED attempt_vars /\ UNCHANGED string
  BY DEF scan, unload
<1>2. LibraryInv'
  <2>1. CASE scan
    <3>1. library' # "unloaded"
      BY <2>1 DEF scan
    <3> QED
      BY <1>1, <3>1 DEF attempt_vars, AttemptInv, LibraryInv
  <2>2. CASE unload
    BY <1>1, <2>2 DEF unload, attempt_vars, AttemptInv, LibraryInv
  <2> QED
    BY <2>1, <2>2
<1> QED
  BY <1>1, <1>2 DEF attempt_vars, AttemptInv, AttemptShape, Moved, InStep, Waited

\* Both invariants hold at the start.
LEMMA InitServices == Init => AttemptInv /\ QueueInv
<1> SUFFICES ASSUME Init PROVE AttemptInv /\ QueueInv
  OBVIOUS
<1>1. AttemptShape
  BY DEF Init, AttemptShape, Stages
<1>2. ASSUME NEW a \in Attempts PROVE Moved(a) /\ InStep(a)
  BY DEF Init, Moved, Split, InStep
<1>3. LibraryInv
  BY DEF Init, LibraryInv
<1>4. QueueShape
  BY DEF Init, QueueShape
<1>5. ASSUME NEW s \in Subscribers PROVE receiver[s] = "none" /\ NoneInv(s)
  BY DEF Init, NoneInv
<1> QED
  BY <1>1, <1>2, <1>3, <1>4, <1>5 DEF AttemptInv, QueueInv

\* Every step keeps the books of the attempts.
LEMMA AttemptSteps ==
  ASSUME AttemptInv, [Next]_vars
  PROVE  AttemptInv'
<1>1. ASSUME NEW a \in Attempts, native_call(a) \/ dylib_call(a) PROVE AttemptInv'
  BY <1>1, CallKeeps
<1>2. ASSUME NEW a \in Attempts, recorded(a) PROVE AttemptInv'
  BY <1>2, RecordedKeeps
<1>3. ASSUME NEW a \in Attempts, native_return(a) \/ node_run_returns(a) \/ parse_run_result(a) PROVE AttemptInv'
  BY <1>3, ReturnsKeep
<1>4. ASSUME NEW a \in Attempts, execute_node(a) PROVE AttemptInv'
  BY <1>4, ExecuteKeeps DEF execute_node
<1>5. ASSUME NEW s \in Subscribers, subscribe(s) \/ bridge_recv(s) \/ bridge_send(s) \/ receive(s) \/ drop_receiver(s)
      PROVE AttemptInv'
  BY <1>5, Untouched DEF subscribe, bridge_recv, bridge_send, receive, drop_receiver, dylib_vars
<1>6. CASE UNCHANGED vars
  BY <1>6, Untouched DEF vars, dylib_vars
<1> QED
  BY <1>1, <1>2, <1>3, <1>4, <1>5, <1>6, LibraryKeeps DEF Next

\* Every step keeps the order of the queue.
LEMMA QueueSteps ==
  ASSUME QueueInv, [Next]_vars
  PROVE  QueueInv'
<1>1. ASSUME NEW a \in Attempts, native_call(a) \/ dylib_call(a) PROVE QueueInv'
  BY <1>1, CallQueue, PublishKeeps
<1>2. ASSUME NEW a \in Attempts,
             recorded(a) \/ native_return(a) \/ node_run_returns(a) \/ parse_run_result(a) \/ execute_node(a)
      PROVE QueueInv'
  BY <1>2, Untouched DEF recorded, native_return, node_run_returns, parse_run_result, execute_node,
     run, timeout, drain_llm, drain_events, close
<1>3. CASE scan \/ unload
  BY <1>3, Untouched DEF scan, unload
<1>4. ASSUME NEW s \in Subscribers, subscribe(s) \/ bridge_recv(s) \/ bridge_send(s) \/ receive(s) \/ drop_receiver(s)
      PROVE QueueInv'
  BY <1>4, SubscribeKeeps, BridgeRecvKeeps, BridgeSendKeeps, ReceiveKeeps, DropReceiverKeeps
<1>5. CASE UNCHANGED vars
  BY <1>5, Untouched DEF vars
<1> QED
  BY <1>1, <1>2, <1>3, <1>4, <1>5 DEF Next

\* Two increasing sequences, every element of the one before every element of the other.
LEMMA ConcatOrder ==
  ASSUME NEW p \in Seq(Nat), NEW q \in Seq(Nat), Increasing(p), Increasing(q),
         \A j \in 1..Len(q) : Below(p, q[j])
  PROVE  /\ p \o q \in Seq(Nat) /\ Increasing(p \o q)
         /\ \A n : Below(p, n) /\ Below(q, n) => Below(p \o q, n)
         /\ \A m : Has(p, m) \/ Has(q, m) => Has(p \o q, m)
<1>1. /\ p \o q \in Seq(Nat) /\ Len(p \o q) = Len(p) + Len(q) /\ Len(p) \in Nat /\ Len(q) \in Nat
      /\ \A i \in 1..Len(p) : (p \o q)[i] = p[i]
      /\ \A i \in 1..Len(q) : (p \o q)[Len(p) + i] = q[i]
  OBVIOUS
<1>2. ASSUME NEW i \in 1..Len(p \o q)
      PROVE  i \in 1..Len(p) \/ \E k \in 1..Len(q) : i = Len(p) + k
  <2>1. CASE i <= Len(p)
    BY <1>1, <2>1
  <2>2. CASE i > Len(p)
    <3>1. i - Len(p) \in 1..Len(q) /\ i = Len(p) + (i - Len(p))
      BY <1>1, <2>2
    <3> QED
      BY <3>1
  <2> QED
    BY <1>1, <2>1, <2>2
<1>3. ASSUME NEW i \in 1..Len(p \o q), NEW j \in 1..Len(p \o q), i < j PROVE (p \o q)[i] < (p \o q)[j]
  <2>1. CASE j \in 1..Len(p)
    <3>1. i \in 1..Len(p)
      BY <1>1, <1>3, <2>1
    <3> QED
      BY <1>1, <1>3, <2>1, <3>1 DEF Increasing
  <2>2. ASSUME NEW k \in 1..Len(q), j = Len(p) + k PROVE (p \o q)[i] < (p \o q)[j]
    <3>1. CASE i \in 1..Len(p)
      BY <1>1, <2>2, <3>1 DEF Below
    <3>2. ASSUME NEW l \in 1..Len(q), i = Len(p) + l PROVE (p \o q)[i] < (p \o q)[j]
      <4>1. l < k
        BY <1>1, <1>3, <2>2, <3>2
      <4> QED
        BY <1>1, <2>2, <3>2, <4>1 DEF Increasing
    <3> QED
      BY <1>2, <3>1, <3>2
  <2> QED
    BY <1>2, <2>1, <2>2
<1>4. ASSUME NEW n, Below(p, n), Below(q, n), NEW i \in 1..Len(p \o q) PROVE (p \o q)[i] < n
  BY <1>1, <1>2, <1>4 DEF Below
<1>5. ASSUME NEW m, Has(p, m) \/ Has(q, m) PROVE Has(p \o q, m)
  <2>1. CASE Has(p, m)
    <3>1. PICK i \in 1..Len(p) : p[i] = m
      BY <2>1 DEF Has
    <3>2. i \in 1..Len(p \o q) /\ (p \o q)[i] = m
      BY <1>1, <3>1
    <3> QED
      BY <3>2 DEF Has
  <2>2. CASE Has(q, m)
    <3>1. PICK i \in 1..Len(q) : q[i] = m
      BY <2>2 DEF Has
    <3>2. Len(p) + i \in 1..Len(p \o q) /\ (p \o q)[Len(p) + i] = m
      BY <1>1, <3>1
    <3> QED
      BY <3>2 DEF Has
  <2> QED
    BY <1>5, <2>1, <2>2
<1> QED
  BY <1>1, <1>3, <1>4, <1>5 DEF Increasing, Below

\* What the invariant says of a subscription is what the queue promises.
LEMMA OrderedSeen ==
  ASSUME QueueInv
  PROVE  QueueInOrder
<1> SUFFICES ASSUME NEW s \in Subscribers, receiver[s] = "open"
             PROVE  LET seen == got[s] \o inbox[s] \o (IF hand[s] = Absent THEN <<>> ELSE <<hand[s]>>)
                    IN /\ \A k \in 1..(Len(seen) - 1) : seen[k] < seen[k + 1]
                       /\ \A m \in since[s]..(cursor[s] - 1) :
                            m \notin ToSet(seen) => Len(bus) >= m + BROADCAST_CAPACITY
  BY DEF QueueInOrder
<1>1. /\ OrderInv(s) /\ MissInv(s) /\ got[s] \in Seq(Nat) /\ inbox[s] \in Seq(Nat)
      /\ hand[s] \in Nat \cup {Absent} /\ Absent \notin Nat
  BY NodeServicesAssumption DEF QueueInv, QueueShape
<1>2. PICK h : h = IF hand[s] = Absent THEN <<>> ELSE <<hand[s]>>
  OBVIOUS
<1>3. PICK p : p = got[s] \o inbox[s]
  OBVIOUS
<1>4. /\ p \in Seq(Nat) /\ Increasing(p) /\ (\A n : Below(got[s], n) /\ Below(inbox[s], n) => Below(p, n))
      /\ \A m : Has(got[s], m) \/ Has(inbox[s], m) => Has(p, m)
  <2>1. Increasing(got[s]) /\ Increasing(inbox[s]) /\ \A j \in 1..Len(inbox[s]) : Below(got[s], inbox[s][j])
    BY <1>1 DEF OrderInv
  <2> QED
    BY <1>1, <1>3, <2>1, ConcatOrder
<1>5. /\ h \in Seq(Nat) /\ Increasing(h) /\ (\A j \in 1..Len(h) : Below(p, h[j]))
      /\ \A m \in Nat : hand[s] = m => Has(h, m)
  <2>1. CASE hand[s] = Absent
    BY <1>1, <1>2, <2>1 DEF Increasing
  <2>2. CASE hand[s] # Absent
    <3>1. h \in Seq(Nat) /\ Len(h) = 1 /\ h[1] = hand[s]
      BY <1>1, <1>2, <2>2
    <3>2. Below(p, hand[s])
      BY <1>1, <1>4, <2>2 DEF OrderInv
    <3>3. \A j \in 1..Len(h) : j = 1
      BY <3>1
    <3> QED
      BY <3>1, <3>2, <3>3 DEF Increasing, Has
  <2> QED
    BY <2>1, <2>2
<1>6. PICK seen : seen = p \o h
  OBVIOUS
<1>7. seen \in Seq(Nat) /\ Increasing(seen) /\ \A m : Has(p, m) \/ Has(h, m) => Has(seen, m)
  BY <1>4, <1>5, <1>6, ConcatOrder
<1>8. ASSUME NEW k \in 1..(Len(seen) - 1) PROVE seen[k] < seen[k + 1]
  <2>1. k \in 1..Len(seen) /\ k + 1 \in 1..Len(seen) /\ k < k + 1
    BY <1>7
  <2> QED
    BY <1>7, <2>1 DEF Increasing
<1>9. ASSUME NEW m \in since[s]..(cursor[s] - 1), m \notin ToSet(seen) PROVE Len(bus) >= m + BROADCAST_CAPACITY
  <2>1. ~Has(seen, m)
    <3>1. DOMAIN seen = 1..Len(seen)
      BY <1>7
    <3> QED
      BY <1>9, <3>1 DEF Has, ToSet
  <2>2. m \in Nat
    BY <1>1 DEF OrderInv
  <2> QED
    BY <1>1, <1>4, <1>5, <1>7, <2>1, <2>2 DEF MissInv
<1> QED
  BY <1>2, <1>3, <1>6, <1>8, <1>9

\* The calls a handler was told are recorded are those execute_node drained: for every
\* number of calls and every capacity of the channel, unless a library's thread outlives its
\* timeout, in which case what was drained is still a prefix.
THEOREM RecordedCallsKept == Spec => []CallsKept
<1>1. ASSUME AttemptInv, NEW a \in Attempts, pc[a] = "closed"
      PROVE  IsPrefix(kept_llm[a], acked[a]) /\ (Waited(a) => kept_llm[a] = acked[a])
  <2>1. /\ acked[a] \in Seq(Nat) /\ kept_llm[a] \in Seq(Nat) /\ llm_ch[a] \in Seq(Nat)
        /\ Split(acked[a], kept_llm[a], llm_ch[a]) /\ (Waited(a) => llm_ch[a] = <<>>)
    BY <1>1 DEF AttemptInv, AttemptShape, Moved, InStep
  <2> QED
    BY <2>1, SplitPrefix
<1>2. AttemptInv => CallsKept
  BY <1>1 DEF CallsKept, Waited
<1> QED
  BY <1>2, InitServices, AttemptSteps, PTL DEF Spec

\* However attempts time out and threads go on, no string of a library is left live by a
\* handler that is done, and the code is unloaded under a running thread only after a timeout.
THEOREM StringsAndCodeSafe == Spec => []StringsAndCode
<1>1. ASSUME AttemptInv PROVE StringsAndCode
  <2>1. \A a \in Dylib : handler[a] = "gone" => string[a] # "live"
    BY <1>1 DEF AttemptInv, LibraryInv
  <2>2. ASSUME library = "unloaded", NEW a \in Dylib, handler[a] \in {"in", "blocked", "parsing"} PROVE timed_out[a]
    <3>1. a \in Attempts /\ pc[a] = "closed"
      BY <1>1, <2>2, NodeServicesAssumption DEF AttemptInv, LibraryInv
    <3> QED
      BY <1>1, <2>2, <3>1 DEF AttemptInv, InStep, Waited
  <2> QED
    BY <2>1, <2>2 DEF StringsAndCode
<1> QED
  BY <1>1, InitServices, AttemptSteps, PTL DEF Spec

\* A subscriber of the in-memory queue gets messages in the order of publication, none twice,
\* and misses only what the ring has overwritten: for every capacity and number of messages.
THEOREM QueueKeepsOrder == Spec => []QueueInOrder
BY InitServices, QueueSteps, OrderedSeen, PTL DEF Spec
=============================================================================
