------------------------------- MODULE EventLog -------------------------------
(***************************************************************************)
(* What the write pipeline promises about the critical events of a run: a   *)
(* log that is appended to, a store that holds a growing prefix of it in    *)
(* log order, and a close after which nothing changes any more.             *)
(***************************************************************************)
EXTENDS Naturals, Sequences

CONSTANT Event

VARIABLES log, stored, closed

Append1(ev) == log' = Append(log, ev) /\ UNCHANGED <<stored, closed>>

Store1 ==
    /\ Len(stored) < Len(log)
    /\ stored' = Append(stored, log[Len(stored) + 1])
    /\ UNCHANGED <<log, closed>>

Close == closed' = TRUE /\ UNCHANGED <<log, stored>>

Init == log = <<>> /\ stored = <<>> /\ closed = FALSE

Next == ~closed /\ (Store1 \/ Close \/ \E ev \in Event : Append1(ev))

Spec == Init /\ [][Next]_<<log, stored, closed>>
=============================================================================
