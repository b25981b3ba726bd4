---------------------------- MODULE FlowVersioning ----------------------------
(***************************************************************************)
(* FlowVersioning over a FlowStore: the versions of one flow and its head.  *)
(*                                                                          *)
(* A version is identified by the hash of its graph, so graphs and versions *)
(* are the same values here.  Saving is three store calls; any of them may  *)
(* fail, other clients save in between, and a save may be abandoned between *)
(* two calls (its future dropped, or the process killed) with what it wrote *)
(* left behind.  A single store call is atomic: the database and the        *)
(* in-memory store make it so, FileFlowStore only while no two puts of one  *)
(* document overlap (FlowStores says what is left of it when they do).      *)
(***************************************************************************)
EXTENDS Naturals

CONSTANTS
    Clients,    \* callers of save
    Graphs,     \* the graphs they save
    MaxSaves    \* bound: calls of save

NoVersion == "no version"
ASSUME VersionAssumption == NoVersion \notin Graphs /\ MaxSaves \in Nat

VARIABLES
    versions,   \* versions in the store
    head,       \* FlowHead.current_version_id, or NoVersion
    saver,      \* per client: where its call of save is, and the graph
    saves       \* calls so far

storeVars == <<versions, head, saver, saves>>

Saving(c) == saver[c].pc # "idle"
NoSave == [pc |-> "idle", graph |-> NoVersion]
Return(c) == saver' = [saver EXCEPT ![c] = NoSave]

save(c, g) ==
    /\ ~Saving(c) /\ saves < MaxSaves
    /\ saver' = [saver EXCEPT ![c] = [pc |-> "get_version", graph |-> g]]
    /\ saves' = saves + 1
    /\ UNCHANGED <<versions, head>>

\* A version that exists is returned as it is; the head is not touched.
get_version(c) ==
    /\ saver[c].pc = "get_version"
    /\ IF saver[c].graph \in versions THEN Return(c)
                                      ELSE saver' = [saver EXCEPT ![c].pc = "put_version"]
    /\ UNCHANGED <<versions, head, saves>>

\* Defect: the head is moved although the version was not written.
put_version_unchecked(c) ==
    /\ saver[c].pc = "put_version"
    /\ versions' \in {versions, versions \cup {saver[c].graph}}
    /\ saver' = [saver EXCEPT ![c].pc = "put_head"]
    /\ UNCHANGED <<head, saves>>

put_version(c) ==
    /\ saver[c].pc = "put_version"
    /\ versions' = versions \cup {saver[c].graph}
    /\ saver' = [saver EXCEPT ![c].pc = "put_head"]
    /\ UNCHANGED <<head, saves>>

put_head(c) ==
    /\ saver[c].pc = "put_head"
    /\ head' = saver[c].graph
    /\ Return(c)
    /\ UNCHANGED <<versions, saves>>

\* The store call in progress fails and the error is returned, or the caller is gone in
\* the middle of the call.
save_fails(c) == Saving(c) /\ Return(c) /\ UNCHANGED <<versions, head, saves>>

\* get_current: the head, then the version it names.
get_current == IF head \in versions THEN head ELSE NoVersion

StoreInit ==
    /\ versions = {} /\ head = NoVersion /\ saves = 0
    /\ saver = [c \in Clients |-> NoSave]

SaveStep(c) ==
    \/ \E g \in Graphs : save(c, g)
    \/ get_version(c) \/ put_version(c) \/ put_head(c) \/ save_fails(c)

StoreNext == \E c \in Clients : SaveStep(c)

StoreSpec == StoreInit /\ [][StoreNext]_storeVars

-----------------------------------------------------------------------------
(* Properties *)

\* The head never names a version that is not stored (order of the puts in save): with
\* clients that race, calls that fail, and callers and processes that vanish between two
\* puts, get_current finds what the head names.  Puts are atomic here: two file writes of
\* one head that overlap can leave a head that get_current cannot read at all.
HeadResolves == head # NoVersion => head \in versions

\* This step returns Ok from c's call of save.
ReturnsOk(c) == (get_version(c) \/ put_head(c)) /\ ~Saving(c)'

\* Doc comment of save: "Updates the [`FlowHead`] to point at the new version".  A save
\* that returns Ok while nobody else saves leaves the head at the saved graph.
SaveMovesHead ==
    [][\A c \in Clients :
          ReturnsOk(c) /\ (\A d \in Clients \ {c} : ~Saving(d)) => head' = saver[c].graph]_storeVars
=============================================================================
