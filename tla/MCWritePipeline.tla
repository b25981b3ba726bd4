--------------------------- MODULE MCWritePipeline ---------------------------
(* Small instances of WritePipeline for TLC, and its refinement of EventLog. *)
EXTENDS WritePipeline

\* Sequence numbers the bounds allow: RunStarted, RunCompleted and the records.
BoundedEvent == [seq : 1..(MaxRecords + 2), kind : Kinds]

\* Where in the sequence q the elements of R are, and these elements in the order of q: the
\* k-th has k - 1 before it.
Places(q, R) == {i \in 1..Len(q) : q[i] \in R}
Selected(q, R) ==
    [k \in 1..Cardinality(Places(q, R)) |->
        q[CHOOSE i \in Places(q, R) : Cardinality({j \in Places(q, R) : j < i}) = k - 1]]

\* The critical channel's part of the store, in order of insertion.
DurableCritical == Selected(durable, Range(sent["critical"]))

Log == INSTANCE EventLog WITH
           Event <- BoundedEvent,
           log <- sent["critical"],
           stored <- DurableCritical,
           closed <- (pc = "done")

\* The write pipeline implements the abstract event log: critical events become durable
\* one by one in the order the channel accepted them, retries and re-buffering insert
\* nothing twice, and nothing is stored after the flush loop has returned.
ImplementsEventLog == Log!Spec
=============================================================================
