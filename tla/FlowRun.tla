-------------------------------- MODULE FlowRun --------------------------------
(***************************************************************************)
(* What a run of an acyclic flow promises, whatever the executor does to    *)
(* get there: every node runs at most once, it starts only after all nodes  *)
(* it depends on have settled, a run that was not cancelled ends only when  *)
(* nothing is in flight, and after the end nothing starts.                  *)
(***************************************************************************)
CONSTANT Nodes

VARIABLES
    deps,   \* the nodes each node depends on
    st,     \* idle, running, completed, failed, or lost (its task panicked or was detached)
    over,   \* the run has ended
    cancelled

Running == {n \in Nodes : st[n] = "running"}

\* The nodes of S start; they were idle and everything they depend on has settled.
Started(S, now) ==
    /\ \A n \in S : st[n] = "idle" /\ \A m \in deps[n] : now[m] \in {"completed", "failed"}
    /\ st' = [n \in Nodes |-> IF n \in S THEN "running" ELSE now[n]]

Begin == ~over /\ Running = {} /\ \E S \in SUBSET Nodes : Started(S, st)

Return(n) ==
    /\ ~over /\ st[n] = "running"
    /\ \E r \in {"completed", "failed", "lost"}, S \in SUBSET Nodes :
           Started(S, [st EXCEPT ![n] = r])

Detach(n) == over /\ cancelled /\ st[n] = "running" /\ st' = [st EXCEPT ![n] = "lost"]

Init == st = [n \in Nodes |-> "idle"] /\ ~over

Next ==
    \/ (Begin \/ \E n \in Nodes : Return(n) \/ Detach(n)) /\ UNCHANGED <<over, cancelled>>
    \/ ~over /\ (cancelled \/ Running = {}) /\ over' = TRUE /\ UNCHANGED <<st, cancelled>>
    \/ ~cancelled /\ cancelled' = TRUE /\ UNCHANGED <<st, over>>

Spec == Init /\ [][Next /\ UNCHANGED deps]_<<deps, st, over, cancelled>>
=============================================================================
