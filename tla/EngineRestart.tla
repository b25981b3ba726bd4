----------------------------- MODULE EngineRestart -----------------------------
(***************************************************************************)
(* An engine that is killed and restarted while clients save versions of    *)
(* its flow: the runs and the recovery of CrashRecovery and the saves of    *)
(* FlowVersioning in one process.  Engine::execute resolves the head of the *)
(* flow before it starts a run; a kill takes the calls of save with it,     *)
(* wherever they are.  The flow store is of the kind of the run store: in   *)
(* memory both are lost.                                                    *)
(***************************************************************************)
EXTENDS CrashRecovery, FlowVersioning, TLC

ProcessSymmetry == Permutations(Runs) \cup Permutations(Clients) \cup Permutations(Graphs)

restartVars == <<vars, storeVars>>

RestartInit == Init /\ StoreInit

\* Engine::execute: without a current version the flow is not found.
execute(r) == get_current # NoVersion /\ start_run(r) /\ UNCHANGED storeVars

\* The process is killed: no call of save returns, and what is in memory is lost.
kill ==
    /\ crash
    /\ saver' = [c \in Clients |-> NoSave]
    /\ IF store = "memory" THEN versions' = {} /\ head' = NoVersion
                           ELSE UNCHANGED <<versions, head>>
    /\ UNCHANGED saves

RestartNext ==
    \/ \E r \in Runs : execute(r)
    \/ /\ \/ \E r \in Runs : end_unwritten(r) \/ mark_interrupted(r)
          \/ \E r \in Runs, ev \in {"started", "node"} \cup Terminal : persist(r, ev)
          \/ build_scan \/ build_done
       /\ UNCHANGED storeVars
    \/ kill
    \/ StoreNext /\ UNCHANGED vars

RestartSpec == RestartInit /\ [][RestartNext]_restartVars
=============================================================================
