---------------------------- MODULE DocumentStore ----------------------------
(***************************************************************************)
(* What a flow store and a tag store promise (FlowStore and TagStore in    *)
(* traits.rs): documents that change in one step.  A call that succeeds    *)
(* has stored its value, or found the version it was to store; a call that *)
(* fails has changed nothing; of several calls that delete a document one  *)
(* is told it did.  Two saves of a document that overlap may lose it: then *)
(* nothing is promised of it until a save that overlaps no other.          *)
(***************************************************************************)
CONSTANTS Docs, Values, Clients, Absent, Lost

VARIABLES docs,    \* the stored documents
          call,    \* per client: the call in progress or its outcome
          clash    \* clients whose save has overlapped another of the same document
avars == <<docs, call, clash>>

Idle == [op |-> "idle"]
Outcome(o) == [op |-> "returned", outcome |-> o]
Savers(d) == {e \in Clients : call[e].op = "put" /\ call[e].doc = d}

AInit == docs = [d \in Docs |-> Absent] /\ call = [c \in Clients |-> Idle] /\ clash = {}

\* A call, its document and its value are the client's choice.
Begin(c) ==
  /\ call[c].op \in {"idle", "returned"}
  /\ call'[c] \in [op : {"put"}, doc : Docs, value : Values] \cup [op : {"delete"}, doc : Docs, value : {Absent}]
  /\ call' = [call EXCEPT ![c] = call'[c]]
  /\ LET d == call'[c].doc
     IN IF call'[c].op = "put" /\ Savers(d) # {}
        THEN clash' = clash \cup Savers(d) \cup {c} /\ docs' \in {docs, [docs EXCEPT ![d] = Lost]}
        ELSE UNCHANGED <<clash, docs>>
End(c, o) == call' = [call EXCEPT ![c] = Outcome(o)] /\ clash' = clash \ {c}
Commit(c) ==
  /\ call[c].op = "put" /\ (c \in clash => docs[call[c].doc] # Lost)
  /\ docs' = [docs EXCEPT ![call[c].doc] = call[c].value] /\ End(c, "ok")
\* The version was there already.
Keep(c) ==
  /\ call[c].op = "put" /\ docs[call[c].doc] \notin {Absent, Lost}
  /\ docs' = docs /\ End(c, "ok")
Delete(c) ==
  /\ call[c].op = "delete" /\ docs[call[c].doc] # Lost
  /\ docs' = [docs EXCEPT ![call[c].doc] = Absent]
  /\ End(c, IF docs[call[c].doc] = Absent THEN "absent" ELSE "deleted")
\* A delete that overlaps another, or a save, may have found nothing when it looked.
DeleteNothing(c) == call[c].op = "delete" /\ docs' = docs /\ End(c, "absent")
\* What is lost stays lost, whatever the call is told.
EndLost(c) ==
  /\ call[c].op = "delete" \/ (call[c].op = "put" /\ c \in clash)
  /\ docs[call[c].doc] = Lost /\ docs' = docs
  /\ End(c, IF call[c].op = "put" THEN "ok" ELSE "deleted")
Fail(c) == call[c].op \in {"put", "delete"} /\ docs' = docs /\ End(c, "err")
Crash == call' = [c \in Clients |-> Idle] /\ clash' = {} /\ docs' = docs

ANext ==
  \/ \E c \in Clients :
       Begin(c) \/ Commit(c) \/ Keep(c) \/ Delete(c) \/ DeleteNothing(c) \/ EndLost(c) \/ Fail(c)
  \/ Crash
ASpec == AInit /\ [][ANext]_avars
=============================================================================
