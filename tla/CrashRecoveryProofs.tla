-------------------------- MODULE CrashRecoveryProofs --------------------------
(***************************************************************************)
(* Recovery is complete and rewrites no outcome, for any number of runs,    *)
(* events and crashes, with the stores that keep sequence numbers as they   *)
(* are (the file store and the in-memory store); and the head of the flow   *)
(* resolves across crashes, for any number of clients, graphs and saves.    *)
(***************************************************************************)
EXTENDS EngineRestart, TLAPS

Events == [key : Nat, ev : {"started", "node"} \cup Terminal]

\* Types, as far as the argument needs them.
Shape ==
    /\ store \in Stores
    /\ stored \in [Runs -> SUBSET Events]
    /\ written \in [Runs -> 0..MaxEvents]
    /\ live \subseteq mine /\ mine \subseteq Runs /\ todo \subseteq Runs
    /\ engine \in {"down", "marking", "up"}

\* Only the synthetic completion has the largest number.
Numbers ==
    \A r \in Runs : \A e \in stored[r] :
        e.key <= u_MAX /\ (e.key = u_MAX => e.ev = "Interrupted")

\* The log of a run that executes has its start and no end.
LiveLog ==
    /\ \A r \in Runs : written[r] = 0 => stored[r] = {}
    /\ \A r \in live : \A e \in stored[r] : e.ev = "node" \/ e = [key |-> 1, ev |-> "started"]

\* Where a build is: no run of its own yet, and what it still has to mark are exactly the
\* orphans, unless something failed.
Progress ==
    /\ engine # "up" => mine = {}
    /\ engine # "marking" => todo = {}
    /\ \A r \in todo : Status(stored[r]) = "Running"
    /\ engine = "marking" /\ ~trouble =>
          \A r \in Runs : Status(stored[r]) = "Running" => r \in todo

RecoveryInv == Shape /\ Numbers /\ LiveLog /\ Progress /\ RecoveryComplete

-----------------------------------------------------------------------------
(* Status *)

\* reconstruct_run of a run without events is None.
LEMMA StatusEmpty == Status({}) = "none"
  BY DEF Status

\* A log with a start and no end is not final.
LEMMA StatusOpen ==
  ASSUME NEW S, \A e \in S : e.ev = "node" \/ e = [key |-> 1, ev |-> "started"]
  PROVE  Status(S) \notin Terminal
<1> DEFINE deciding == {e \in S : e.ev # "node"}
           last == CHOOSE e \in deciding : \A f \in deciding : f.key <= e.key
<1>1. CASE deciding = {}
  BY <1>1 DEF Status, Terminal
<1>2. CASE deciding # {}
  <2>1. \A e \in deciding : e = [key |-> 1, ev |-> "started"]
    OBVIOUS
  <2>2. [key |-> 1, ev |-> "started"] \in deciding
    BY <1>2, <2>1
  <2>3. \E e \in deciding : \A f \in deciding : f.key <= e.key
    BY <2>1, <2>2
  <2>4. last \in deciding
    BY <2>3
  <2>5. last.ev = "started"
    BY <2>1, <2>4
  <2>6. S # {}
    BY <1>2
  <2>7. Status(S) = "Running"
    BY <1>2, <2>5, <2>6 DEF Status
  <2> QED
    BY <2>7 DEF Terminal
<1> QED
  BY <1>1, <1>2

\* The synthetic completion, with the largest number, decides (mark_interrupted).
LEMMA StatusMarked ==
  ASSUME NEW S, S \subseteq Events, NEW n \in Nat,
         [key |-> n, ev |-> "Interrupted"] \in S,
         \A e \in S : e.key <= n /\ (e.key = n => e.ev = "Interrupted")
  PROVE  Status(S) = "Interrupted"
<1> DEFINE deciding == {e \in S : e.ev # "node"}
           last == CHOOSE e \in deciding : \A f \in deciding : f.key <= e.key
           mark == [key |-> n, ev |-> "Interrupted"]
<1>1. mark \in deciding /\ mark.key = n
  OBVIOUS
<1>2. \E e \in deciding : \A f \in deciding : f.key <= e.key
  BY <1>1
<1>3. last \in deciding /\ \A f \in deciding : f.key <= last.key
  BY <1>2
<1>4. last.key = n
  <2>1. last \in S /\ last.key \in Nat
    BY <1>3 DEF Events
  <2>2. n <= last.key
    BY <1>1, <1>3
  <2>3. last.key <= n
    BY <2>1
  <2> QED
    BY <2>1, <2>2, <2>3
<1>5. last.ev = "Interrupted"
  BY <1>3, <1>4
<1>6. deciding # {} /\ S # {}
  BY <1>1
<1> QED
  BY <1>5, <1>6 DEF Status

-----------------------------------------------------------------------------
(* Writing *)

\* A store that keeps sequence numbers adds the event to the run, or ignores it because
\* the number is taken (write_batch of FileRunStore and InMemoryRunStore).
LEMMA WriteAdds ==
  ASSUME Shape, "sql" \notin Stores, NEW r \in Runs, NEW n \in Nat,
         NEW ev \in {"started", "node"} \cup Terminal, write(r, n, ev)
  PROVE  /\ stored' \in [Runs -> SUBSET Events]
         /\ \A q \in Runs : q # r => stored'[q] = stored[q]
         /\ \/ /\ \E e \in stored[r] : e.key = n
               /\ stored'[r] = stored[r]
            \/ /\ \A e \in stored[r] : e.key # n
               /\ stored'[r] = stored[r] \cup {[key |-> n, ev |-> ev]}
<1>1. Key(n) = n
  BY DEF Shape, Key
<1>2. [key |-> n, ev |-> ev] \in Events
  BY DEF Events
<1>3. CASE existing(r, n)
  BY <1>1, <1>3 DEF write, existing, Shape
<1>4. CASE ~existing(r, n)
  <2>1. stored' = [stored EXCEPT ![r] = @ \cup {[key |-> n, ev |-> ev]}]
    BY <1>1, <1>4 DEF write
  <2>2. stored'[r] = stored[r] \cup {[key |-> n, ev |-> ev]}
    BY <2>1 DEF Shape
  <2>3. \A q \in Runs : q # r => stored'[q] = stored[q]
    BY <2>1 DEF Shape
  <2>4. stored' \in [Runs -> SUBSET Events]
    BY <1>2, <2>1 DEF Shape
  <2>5. \A e \in stored[r] : e.key # n
    BY <1>1, <1>4 DEF existing
  <2> QED
    BY <2>2, <2>3, <2>4, <2>5
<1> QED
  BY <1>3, <1>4

-----------------------------------------------------------------------------
(* The invariant *)

\* Nothing is stored and the engine is down initially.
LEMMA InitRecovery == Init => RecoveryInv
<1> SUFFICES ASSUME Init PROVE RecoveryInv
  OBVIOUS
<1>1. Shape
  BY CrashAssumption, WidthAssumption DEF Init, Shape, Events
<1>2. Numbers /\ LiveLog
  BY DEF Init, Numbers, LiveLog
<1>3. Progress /\ RecoveryComplete
  BY DEF Init, Progress, RecoveryComplete
<1> QED
  BY <1>1, <1>2, <1>3 DEF RecoveryInv

\* A run that starts has nothing stored and belongs to this process.
LEMMA StartKeeps == ASSUME RecoveryInv, NEW r \in Runs, start_run(r) PROVE RecoveryInv'
<1>1. Shape'
  BY DEF RecoveryInv, Shape, start_run
<1>2. Numbers' /\ LiveLog'
  BY DEF RecoveryInv, Shape, Numbers, LiveLog, start_run
<1>3. Progress' /\ RecoveryComplete'
  BY DEF RecoveryInv, Progress, RecoveryComplete, start_run
<1> QED
  BY <1>1, <1>2, <1>3 DEF RecoveryInv

\* The next event of a live run touches that run alone, and its number is small.
LEMMA PersistKeeps ==
  ASSUME RecoveryInv, "sql" \notin Stores, NEW r \in Runs,
         NEW ev \in {"started", "node"} \cup Terminal, persist(r, ev)
  PROVE  RecoveryInv'
<1> USE DEF RecoveryInv
<1> DEFINE n == written[r] + 1
<1>1. n \in Nat /\ n <= MaxEvents /\ MaxEvents \in Nat /\ n < u_MAX /\ u_MAX \in Nat
  BY WidthAssumption, RangeAssumption DEF persist, Shape
<1>2. write(r, n, ev)
  BY DEF persist
<1> HIDE DEF n
<1>3. /\ stored' \in [Runs -> SUBSET Events]
      /\ \A q \in Runs : q # r => stored'[q] = stored[q]
      /\ stored'[r] \subseteq stored[r] \cup {[key |-> n, ev |-> ev]}
  BY <1>1, <1>2, WriteAdds
<1>4. Shape'
  <2>1. written' = [written EXCEPT ![r] = n] /\ n \in 0..MaxEvents
    BY <1>1 DEF persist, n
  <2>2. written' \in [Runs -> 0..MaxEvents]
    BY <2>1 DEF Shape
  <2> QED
    BY <1>3, <2>2 DEF persist, Shape
<1>5. Numbers'
  BY <1>1, <1>3 DEF Numbers, Shape
<1>6. LiveLog'
  <2>1. \A q \in Runs : q # r => written'[q] = written[q]
    BY DEF persist, Shape
  <2>2. written'[r] = n /\ n # 0
    BY <1>1 DEF persist, Shape, n
  <2>3. ASSUME r \in live' PROVE ev = "node" \/ [key |-> n, ev |-> ev] = [key |-> 1, ev |-> "started"]
    BY <2>3 DEF persist, Terminal, n
  <2>4. r \in live /\ live' \subseteq live
    BY DEF persist
  <2>5. \A q \in Runs : written'[q] = 0 => stored'[q] = {}
    BY <1>3, <2>1, <2>2 DEF LiveLog
  <2>6. ASSUME NEW q \in live', NEW e \in stored'[q]
        PROVE  e.ev = "node" \/ e = [key |-> 1, ev |-> "started"]
    <3>1. q \in Runs /\ q \in live
      BY <2>4 DEF Shape
    <3>2. CASE q # r
      BY <1>3, <2>6, <3>1, <3>2 DEF LiveLog
    <3>3. CASE q = r /\ e \in stored[r]
      BY <3>1, <3>3 DEF LiveLog
    <3>4. CASE q = r /\ e = [key |-> n, ev |-> ev]
      BY <2>3, <3>4
    <3> QED
      BY <1>3, <2>6, <3>2, <3>3, <3>4
  <2> QED
    BY <2>5, <2>6 DEF LiveLog
<1>7. Progress'
  <2>1. engine = "up" /\ engine' = "up" /\ todo' = todo /\ mine' = mine
    BY DEF persist, Progress, Shape
  <2> QED
    BY <2>1 DEF Progress
<1>8. RecoveryComplete'
  BY <1>3 DEF persist, Shape, RecoveryComplete
<1> QED
  BY <1>4, <1>5, <1>6, <1>7, <1>8

\* A run whose last events are dropped is no longer live; the store is as it was.
LEMMA EndKeeps == ASSUME RecoveryInv, NEW r \in Runs, end_unwritten(r) PROVE RecoveryInv'
<1>1. Shape'
  BY DEF RecoveryInv, Shape, end_unwritten
<1>2. Numbers' /\ LiveLog'
  BY DEF RecoveryInv, Numbers, LiveLog, end_unwritten
<1>3. Progress' /\ RecoveryComplete'
  BY DEF RecoveryInv, Progress, RecoveryComplete, end_unwritten
<1> QED
  BY <1>1, <1>2, <1>3 DEF RecoveryInv

\* A crash at any time, in the recovery loop too, leaves no live run and no work.
LEMMA CrashKeeps == ASSUME RecoveryInv, crash PROVE RecoveryInv'
<1>1. stored' \in [Runs -> SUBSET Events] /\ \A r \in Runs : stored'[r] \in {stored[r], {}}
  BY DEF RecoveryInv, Shape, crash
<1>2. Shape'
  BY <1>1 DEF RecoveryInv, Shape, crash
<1>3. Numbers' /\ LiveLog'
  BY <1>1 DEF RecoveryInv, Numbers, LiveLog, crash
<1>4. Progress' /\ RecoveryComplete'
  BY DEF Progress, RecoveryComplete, crash
<1> QED
  BY <1>2, <1>3, <1>4 DEF RecoveryInv

\* The scan finds every run that reads as Running, or fails.
LEMMA ScanKeeps == ASSUME RecoveryInv, build_scan PROVE RecoveryInv'
<1>1. Shape'
  BY DEF RecoveryInv, Shape, build_scan, Orphans, list_runs
<1>2. Numbers' /\ LiveLog'
  BY DEF RecoveryInv, Numbers, LiveLog, build_scan
<1>3. Progress' /\ RecoveryComplete'
  BY DEF RecoveryInv, Progress, RecoveryComplete, build_scan, Orphans, list_runs
<1> QED
  BY <1>1, <1>2, <1>3 DEF RecoveryInv

\* Marking decides the status of the marked run and touches no other.
LEMMA MarkKeeps ==
  ASSUME RecoveryInv, "sql" \notin Stores, NEW r \in Runs, mark_interrupted(r)
  PROVE  RecoveryInv'
<1> USE DEF RecoveryInv
<1>1. engine = "marking" /\ engine' = "marking" /\ mine = {} /\ live = {} /\ r \in todo
  BY DEF mark_interrupted, Progress, Shape
<1>2. written[r] # 0
  BY <1>1, StatusEmpty DEF Progress, LiveLog
<1>3. CASE write(r, interrupted_seq, "Interrupted") /\ UNCHANGED trouble
  <2>1. u_MAX \in Nat /\ "Interrupted" \in Terminal
    BY RangeAssumption DEF Terminal
  <2>2. /\ stored' \in [Runs -> SUBSET Events]
        /\ \A q \in Runs : q # r => stored'[q] = stored[q]
        /\ \/ /\ \E e \in stored[r] : e.key = u_MAX
              /\ stored'[r] = stored[r]
           \/ stored'[r] = stored[r] \cup {[key |-> u_MAX, ev |-> "Interrupted"]}
    BY <1>3, <2>1, WriteAdds DEF interrupted_seq
  <2>3. Numbers'
    BY <2>1, <2>2 DEF Numbers
  <2>4. [key |-> u_MAX, ev |-> "Interrupted"] \in stored'[r]
    <3>1. CASE stored'[r] = stored[r] \cup {[key |-> u_MAX, ev |-> "Interrupted"]}
      BY <3>1
    <3>2. ASSUME NEW e \in stored[r], e.key = u_MAX, stored'[r] = stored[r]
          PROVE  [key |-> u_MAX, ev |-> "Interrupted"] \in stored'[r]
      <4>1. e \in Events /\ e.ev = "Interrupted"
        BY <3>2 DEF Numbers, Shape
      <4>2. e = [key |-> u_MAX, ev |-> "Interrupted"]
        BY <3>2, <4>1 DEF Events
      <4> QED
        BY <3>2, <4>2
    <3> QED
      BY <2>2, <3>1, <3>2
  <2>5. stored'[r] \subseteq Events
    BY <2>2
  <2>6. \A e \in stored'[r] : e.key <= u_MAX /\ (e.key = u_MAX => e.ev = "Interrupted")
    BY <2>3 DEF Numbers
  <2>7. Status(stored'[r]) = "Interrupted"
    BY <2>1, <2>4, <2>5, <2>6, StatusMarked
  <2>8. Shape'
    BY <2>2 DEF mark_interrupted, Shape
  <2>9. LiveLog'
    BY <1>1, <1>2, <2>2 DEF mark_interrupted, LiveLog
  <2>10. Progress'
    BY <1>1, <1>3, <2>2, <2>7 DEF mark_interrupted, Progress, Shape
  <2>11. RecoveryComplete'
    BY <1>1 DEF RecoveryComplete
  <2> QED
    BY <2>3, <2>8, <2>9, <2>10, <2>11
<1>4. CASE trouble' = TRUE /\ UNCHANGED stored
  <2>1. Shape'
    BY <1>4 DEF mark_interrupted, Shape
  <2>2. Numbers' /\ LiveLog'
    BY <1>4 DEF mark_interrupted, Numbers, LiveLog
  <2>3. Progress' /\ RecoveryComplete'
    BY <1>1, <1>4 DEF mark_interrupted, Progress, RecoveryComplete
  <2> QED
    BY <2>1, <2>2, <2>3
<1> QED
  BY <1>3, <1>4 DEF mark_interrupted

\* The loop is over: without trouble every orphan has been marked.
LEMMA DoneKeeps == ASSUME RecoveryInv, build_done PROVE RecoveryInv'
<1>1. Shape'
  BY DEF RecoveryInv, Shape, build_done
<1>2. Numbers' /\ LiveLog'
  BY DEF RecoveryInv, Numbers, LiveLog, build_done
<1>3. Progress' /\ RecoveryComplete'
  BY DEF RecoveryInv, Progress, RecoveryComplete, build_done
<1> QED
  BY <1>1, <1>2, <1>3 DEF RecoveryInv

\* Every step keeps the invariant, provided that no store casts sequence numbers.
LEMMA NextRecovery ==
  ASSUME "sql" \notin Stores, RecoveryInv, [Next]_vars
  PROVE  RecoveryInv'
<1>1. ASSUME NEW r \in Runs, start_run(r) \/ end_unwritten(r) \/ mark_interrupted(r)
      PROVE  RecoveryInv'
  BY <1>1, StartKeeps, EndKeeps, MarkKeeps
<1>2. ASSUME NEW r \in Runs, NEW ev \in {"started", "node"} \cup Terminal, persist(r, ev)
      PROVE  RecoveryInv'
  BY <1>2, PersistKeeps
<1>3. CASE crash \/ build_scan \/ build_done
  BY <1>3, CrashKeeps, ScanKeeps, DoneKeeps
<1>4. CASE UNCHANGED vars
  <2>1. Shape' /\ Numbers' /\ LiveLog'
    BY <1>4 DEF RecoveryInv, vars, Shape, Numbers, LiveLog
  <2>2. Progress' /\ RecoveryComplete'
    BY <1>4 DEF RecoveryInv, vars, Progress, RecoveryComplete
  <2> QED
    BY <2>1, <2>2 DEF RecoveryInv
<1> QED
  BY <1>1, <1>2, <1>3, <1>4 DEF Next

\* EngineBuilder::build with the file or the in-memory store: an engine that comes up
\* without a reported error leaves no run of an earlier process Running.
THEOREM RecoveryIsComplete == "sql" \notin Stores => (Spec => []RecoveryComplete)
<1> SUFFICES ASSUME "sql" \notin Stores PROVE Spec => []RecoveryComplete
  OBVIOUS
<1>1. RecoveryInv /\ [Next]_vars => RecoveryInv'
  BY NextRecovery
<1>2. RecoveryInv => RecoveryComplete
  BY DEF RecoveryInv
<1> QED
  BY InitRecovery, <1>1, <1>2, PTL DEF Spec

-----------------------------------------------------------------------------
(* Outcomes *)

\* The statement of TerminalStable about one step.
StatusKept ==
    \A r \in Runs : Status(stored[r]) \in Terminal =>
        \/ Status(stored'[r]) = Status(stored[r])
        \/ store = "memory" /\ stored'[r] = {}

\* Only a live run or one that reads as Running is written to.
LEMMA NextStatusKept ==
  ASSUME "sql" \notin Stores, RecoveryInv, Next
  PROVE  StatusKept
<1> USE DEF RecoveryInv
<1>1. ASSUME NEW r \in Runs, start_run(r) \/ end_unwritten(r) PROVE StatusKept
  BY <1>1 DEF start_run, end_unwritten, StatusKept
<1>2. ASSUME NEW r \in Runs, mark_interrupted(r) PROVE StatusKept
  <2>1. Status(stored[r]) \notin Terminal
    BY <1>2 DEF mark_interrupted, Progress, Terminal
  <2>2. \A q \in Runs : q # r => stored'[q] = stored[q]
    <3>1. CASE write(r, interrupted_seq, "Interrupted")
      BY <3>1, WriteAdds, RangeAssumption DEF interrupted_seq, Terminal
    <3> QED
      BY <1>2, <3>1 DEF mark_interrupted
  <2> QED
    BY <2>1, <2>2 DEF StatusKept
<1>3. ASSUME NEW r \in Runs, NEW ev \in {"started", "node"} \cup Terminal, persist(r, ev)
      PROVE  StatusKept
  <2>1. Status(stored[r]) \notin Terminal
    BY <1>3, StatusOpen DEF persist, LiveLog
  <2>2. write(r, written[r] + 1, ev) /\ written[r] + 1 \in Nat
    BY <1>3, WidthAssumption DEF persist, Shape
  <2>3. \A q \in Runs : q # r => stored'[q] = stored[q]
    BY <2>2, WriteAdds
  <2> QED
    BY <2>1, <2>3 DEF StatusKept
<1>4. CASE crash
  BY <1>4 DEF crash, StatusKept
<1>5. CASE build_scan \/ build_done
  BY <1>5 DEF build_scan, build_done, StatusKept
<1> QED
  BY <1>1, <1>2, <1>3, <1>4, <1>5 DEF Next

\* With the file or the in-memory store, recovery and late events never rewrite the
\* outcome of a run that has one.
THEOREM OutcomesAreStable == "sql" \notin Stores => (Spec => TerminalStable)
<1> SUFFICES ASSUME "sql" \notin Stores PROVE Spec => TerminalStable
  OBVIOUS
<1>1. RecoveryInv /\ [Next]_vars => RecoveryInv'
  BY NextRecovery
<1>2. RecoveryInv /\ [Next]_vars => [StatusKept]_vars
  BY NextStatusKept
<1>3. TerminalStable <=> [][StatusKept]_vars
  BY PTL DEF TerminalStable, StatusKept
<1> QED
  BY InitRecovery, <1>1, <1>2, <1>3, PTL DEF Spec

-----------------------------------------------------------------------------
(* The engine while clients save                                           *)

\* A step of the process is a step of its runs, or none.
LEMMA RestartSteps == [RestartNext]_restartVars => [Next]_vars
<1> SUFFICES ASSUME [RestartNext]_restartVars PROVE [Next]_vars
  OBVIOUS
<1>1. CASE \E r \in Runs : execute(r)
  BY <1>1 DEF execute, Next
<1>2. CASE kill
  BY <1>2 DEF kill, Next
<1>3. CASE UNCHANGED vars \/ UNCHANGED restartVars
  BY <1>3 DEF restartVars
<1>4. CASE \/ \E r \in Runs : end_unwritten(r) \/ mark_interrupted(r)
           \/ \E r \in Runs, ev \in {"started", "node"} \cup Terminal : persist(r, ev)
           \/ build_scan \/ build_done
  BY <1>4 DEF Next
<1> QED
  BY <1>1, <1>2, <1>3, <1>4 DEF RestartNext

\* Recovery is complete while clients save and runs wait for a first version.
THEOREM RestartRecovers == "sql" \notin Stores => (RestartSpec => []RecoveryComplete)
<1> SUFFICES ASSUME "sql" \notin Stores PROVE RestartSpec => []RecoveryComplete
  OBVIOUS
<1>1. RestartInit => RecoveryInv
  BY InitRecovery DEF RestartInit
<1>2. RecoveryInv /\ [RestartNext]_restartVars => RecoveryInv'
  BY NextRecovery, RestartSteps
<1>3. RecoveryInv => RecoveryComplete
  BY DEF RecoveryInv
<1> QED
  BY <1>1, <1>2, <1>3, PTL DEF RestartSpec

\* The head names a stored version, and so does every call of save that is about to move it.
SaversSound ==
    /\ HeadResolves
    /\ saver \in [Clients -> [pc : {"idle", "get_version", "put_version", "put_head"},
                              graph : Graphs \cup {NoVersion}]]
    /\ \A c \in Clients : saver[c].pc = "put_head" => saver[c].graph \in versions

\* A step of save, the failing and abandoned ones included.
LEMMA SaveSound ==
  ASSUME SaversSound, NEW c \in Clients, SaveStep(c)
  PROVE  SaversSound'
<1> USE DEF SaversSound, HeadResolves, Saving, Return, NoSave
<1>1. ASSUME NEW g \in Graphs, save(c, g) PROVE SaversSound'
  BY <1>1 DEF save
<1>2. CASE get_version(c)
  BY <1>2 DEF get_version
<1>3. CASE put_version(c)
  BY <1>3 DEF put_version
<1>4. CASE put_head(c)
  BY <1>4 DEF put_head
<1>5. CASE save_fails(c)
  BY <1>5 DEF save_fails
<1> QED
  BY <1>1, <1>2, <1>3, <1>4, <1>5 DEF SaveStep

\* A kill: no call of save survives it, and in memory neither head nor versions do.
LEMMA KillSound ==
  ASSUME SaversSound, kill
  PROVE  SaversSound'
<1>1. /\ saver' = [c \in Clients |-> NoSave]
      /\ (versions' = versions /\ head' = head) \/ head' = NoVersion
  BY DEF kill
<1> QED
  BY <1>1 DEF SaversSound, HeadResolves, NoSave

\* FlowVersioning::save in an engine that is killed and restarted: with clients that race,
\* calls that fail and a process that dies between two puts, the head names a stored version.
THEOREM RestartHeadResolves == RestartSpec => []HeadResolves
<1>1. RestartInit => SaversSound
  BY DEF RestartInit, StoreInit, SaversSound, HeadResolves, NoSave
<1>2. SaversSound /\ [RestartNext]_restartVars => SaversSound'
  <2> SUFFICES ASSUME SaversSound, [RestartNext]_restartVars PROVE SaversSound'
    OBVIOUS
  <2>1. CASE UNCHANGED storeVars \/ UNCHANGED restartVars
    BY <2>1 DEF restartVars, storeVars, SaversSound, HeadResolves
  <2>2. CASE StoreNext
    BY <2>2, SaveSound DEF StoreNext
  <2>3. CASE kill
    BY <2>3, KillSound
  <2> QED
    BY <2>1, <2>2, <2>3 DEF RestartNext, execute
<1>3. SaversSound => HeadResolves
  BY DEF SaversSound
<1> QED
  BY <1>1, <1>2, <1>3, PTL DEF RestartSpec
=============================================================================
