----------------------------- MODULE CrashRecovery -----------------------------
(***************************************************************************)
(* Restart of the engine: runs write their events to the RunStore, the      *)
(* process is killed at any time, and EngineBuilder::build looks for runs   *)
(* that still read as Running and marks them Interrupted (crash_recovery    *)
(* is on, as it is by default).                                             *)
(*                                                                          *)
(* What a killed run leaves behind is a prefix of its events in sequence    *)
(* order (WritePipeline refines EventLog).  The status of a run is never    *)
(* stored: it is folded from the events in the order the store returns      *)
(* them.  Sequence numbers are unsigned and Bits wide; the SQL store keeps  *)
(* them in a signed column of the same width.                               *)
(***************************************************************************)
EXTENDS Integers, FiniteSets

CONSTANTS
    Runs,
    Stores,         \* run stores to consider, among file, memory and sql
    Bits,           \* width of a sequence number (64 in the code)
    MaxEvents,      \* bound: events a run writes
    MaxCrashes      \* bound: crashes

u_MAX == 2^Bits - 1

ASSUME StoresAssumption == Stores \subseteq {"file", "memory", "sql"}
ASSUME WidthAssumption == Bits \in Nat \ {0} /\ MaxEvents \in Nat /\ MaxEvents < 2^(Bits - 1)
\* A run never gets as far as the number that marks it interrupted.
ASSUME RangeAssumption == u_MAX \in Nat /\ MaxEvents < u_MAX
ASSUME CrashAssumption == IsFiniteSet(Runs) /\ MaxCrashes \in Nat

VARIABLES
    store,      \* the kind of store
    stored,     \* per run: the events in the store, with the key they are ordered by
    written,    \* per run: events written so far
    live,       \* runs that execute in this process
    mine,       \* runs this process has started
    engine,     \* down, marking (build is in its recovery loop) or up
    todo,       \* runs still to be marked
    trouble,    \* the scan or a mark of this build failed (logged, otherwise ignored)
    crashes

vars == <<store, stored, written, live, mine, engine, todo, trouble, crashes>>

Terminal == {"Completed", "Failed", "Cancelled", "Interrupted"}

-----------------------------------------------------------------------------
(* The stores *)

\* The key under which a store keeps, deduplicates and orders an event.
Key(seq) == IF store = "sql" /\ seq >= 2^(Bits - 1) THEN seq - 2^Bits ELSE seq

\* The run has an event with this number already (existing_seqs).
existing(r, seq) == \E e \in stored[r] : e.key = Key(seq)

\* write_batch with one event: a duplicate is ignored.
write(r, seq, ev) ==
    stored' = IF existing(r, seq) THEN stored
              ELSE [stored EXCEPT ![r] = @ \cup {[key |-> Key(seq), ev |-> ev]}]

\* reconstruct_run over the events in key order: RunStarted sets Running, RunCompleted
\* sets its status, and the last one to do so counts.
Status(events) ==
    LET deciding == {e \in events : e.ev # "node"}
        last == CHOOSE e \in deciding : \A f \in deciding : f.key <= e.key
    IN  CASE events = {} -> "none"
          [] events # {} /\ deciding = {} -> "Pending"
          [] OTHER -> IF last.ev = "started" THEN "Running" ELSE last.ev

\* list_runs filtered by status.
list_runs(s) == {r \in Runs : Status(stored[r]) = s}

-----------------------------------------------------------------------------
(* Runs *)

start_run(r) ==
    /\ engine = "up" /\ written[r] = 0 /\ r \notin mine
    /\ live' = live \cup {r} /\ mine' = mine \cup {r}
    /\ UNCHANGED <<store, stored, written, engine, todo, trouble, crashes>>

\* The next event of a live run becomes durable; RunCompleted is its last.
persist(r, ev) ==
    /\ r \in live /\ written[r] < MaxEvents
    /\ IF written[r] = 0 THEN ev = "started"
                         ELSE ev \in {"node", "Completed", "Failed", "Cancelled"}
    /\ write(r, written[r] + 1, ev)
    /\ written' = [written EXCEPT ![r] = @ + 1]
    /\ live' = IF ev \in Terminal THEN live \ {r} ELSE live
    /\ UNCHANGED <<store, mine, engine, todo, trouble, crashes>>

\* The run ends and its last events are dropped by the pipeline (the final flush failed).
end_unwritten(r) ==
    /\ r \in live
    /\ live' = live \ {r}
    /\ UNCHANGED <<store, stored, written, mine, engine, todo, trouble, crashes>>

\* The process is killed, also in the middle of a build; memory is lost.
crash ==
    /\ crashes < MaxCrashes
    /\ crashes' = crashes + 1
    /\ engine' = "down"
    /\ live' = {} /\ mine' = {} /\ todo' = {} /\ trouble' = FALSE
    /\ stored' = IF store = "memory" THEN [r \in Runs |-> {}] ELSE stored
    /\ UNCHANGED <<store, written>>

-----------------------------------------------------------------------------
(* EngineBuilder::build *)

\* Defect: the scan does not filter by status.
Orphans_all == {r \in Runs : stored[r] # {}}

Orphans == list_runs("Running")

build_scan ==
    /\ engine = "down"
    /\ engine' = "marking"
    /\ \/ todo' = Orphans /\ UNCHANGED trouble
       \/ todo' = {} /\ trouble' = TRUE
    /\ UNCHANGED <<store, stored, written, live, mine, crashes>>

\* Defect: the placeholder number that every other writer uses.
interrupted_seq_zero == 0

\* The number of the synthetic RunCompleted: u64::MAX.
interrupted_seq == u_MAX

\* One run of the page; an error is logged and the loop goes on.
mark_interrupted(r) ==
    /\ engine = "marking" /\ r \in todo
    /\ todo' = todo \ {r}
    /\ \/ write(r, interrupted_seq, "Interrupted") /\ UNCHANGED trouble
       \/ trouble' = TRUE /\ UNCHANGED stored
    /\ UNCHANGED <<store, written, live, mine, engine, crashes>>

build_done ==
    /\ engine = "marking" /\ todo = {}
    /\ engine' = "up"
    /\ UNCHANGED <<store, stored, written, live, mine, todo, trouble, crashes>>

-----------------------------------------------------------------------------

Init ==
    /\ store \in Stores
    /\ stored = [r \in Runs |-> {}] /\ written = [r \in Runs |-> 0]
    /\ live = {} /\ mine = {} /\ todo = {}
    /\ engine = "down" /\ trouble = FALSE /\ crashes = 0

Next ==
    \/ \E r \in Runs : start_run(r) \/ end_unwritten(r) \/ mark_interrupted(r)
    \/ \E r \in Runs, ev \in {"started", "node"} \cup Terminal : persist(r, ev)
    \/ crash \/ build_scan \/ build_done

Spec == Init /\ [][Next]_vars

-----------------------------------------------------------------------------
(* Properties *)

Keys == IF store = "sql" THEN (-(2^(Bits - 1)))..(2^(Bits - 1) - 1) ELSE 1..u_MAX

\* Type invariant: a store's keys have the width and the sign of its column (event.seq()
\* as it is in the file and memory stores, cast to i64 in the SQL store).
TypeOK ==
    /\ store \in Stores
    /\ stored \in [Runs -> SUBSET [key : Keys, ev : {"started", "node"} \cup Terminal]]
    /\ written \in [Runs -> 0..MaxEvents]
    /\ live \subseteq mine /\ mine \subseteq Runs /\ todo \subseteq Runs
    /\ engine \in {"down", "marking", "up"} /\ trouble \in BOOLEAN

\* Recovery finds every orphan (build, step 10): when an engine is up and nothing failed
\* on the way, no run of an earlier process reads as Running, whatever mix of crashes,
\* half-done recoveries and lost final events came before.
RecoveryComplete ==
    engine = "up" /\ ~trouble => \A r \in Runs \ mine : Status(stored[r]) # "Running"

\* A status that is final never changes: neither recovery nor a late event rewrites the
\* outcome of a run that has one.  (An in-memory store forgets it in a crash.)
TerminalStable ==
    [][\A r \in Runs : Status(stored[r]) \in Terminal =>
          \/ Status(stored'[r]) = Status(stored[r])
          \/ store = "memory" /\ stored'[r] = {}]_vars
=============================================================================
