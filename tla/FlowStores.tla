----------------------------- MODULE FlowStores -----------------------------
(***************************************************************************)
(* The flow and tag stores, on files (defaults/file_flow_store.rs,         *)
(* defaults/file_tag_store.rs) and in a database (cleargate-storage-oss).  *)
(*                                                                         *)
(* A document is a flow head, a flow version or a tag.  The file stores    *)
(* keep each in a file of its own and replace it by writing a temporary    *)
(* file of a fixed name and renaming it.  A file is an inode: open creates *)
(* or truncates the one the temporary name has, the descriptor keeps it    *)
(* whatever it is renamed to.  Every step between two system calls can be  *)
(* the last before a crash of the process.  Nothing keeps two tasks from   *)
(* saving one document at the same time: they share the temporary file.    *)
(* The database does each statement at once; its primary keys are the      *)
(* documents' names.                                                       *)
(*                                                                         *)
(* A reader looks for one document, or lists a directory.  On files it     *)
(* looks (exists, or the next entry of read_dir) and reads in two steps,   *)
(* document by document, while the clients go on.                          *)
(***************************************************************************)
EXTENDS Integers, Sequences, FiniteSets, SequencesExt

CONSTANTS Backends,    \* a subset of {"file", "sql"}
          Flows, Tags, \* names, as numbers: their order is the names' order
          VersionIds,  \* version ids, as numbers: their order is the hashes'
          Clients,     \* tasks that change documents
          MaxCalls,    \* bound: calls that change something
          MaxBusy,     \* bound: calls in progress at one time
          Absent

ASSUME FlowStoresAssumption ==
  /\ Backends \subseteq {"file", "sql"} /\ MaxCalls \in Nat /\ MaxBusy \in Nat
  /\ Flows \subseteq Nat /\ Tags \subseteq Nat /\ VersionIds \subseteq Nat
  /\ IsFiniteSet(Flows) /\ IsFiniteSet(Tags) /\ IsFiniteSet(VersionIds)
  \* No document and no pair of documents is taken for none.
  /\ LET documents == [version : VersionIds] \cup [flow : Flows, created : 0..MaxCalls]
                        \cup [error : {"deserialize", "lost"}]
     IN Absent \notin documents \cup documents \X documents

VARIABLES backend,
          table,             \* the database: document -> value
          target, tmp,       \* the directory: document -> inode, 0 if there is no file
          content,           \* inode -> what was written
          call,              \* per client: the call in progress or its outcome
          calls,             \* calls made
          clash,             \* clients whose save has overlapped another of its document (history)
          raced,             \* documents left by saves that overlapped on files (history)
          reading,           \* the reader: idle, reading, returned, or gone: a file vanished
          unread, entry,       \* documents it has still to look for; the one it has seen
          found,             \* what it has read, of the documents of its call
          since              \* per document of its call: its states during the call (history)

fs == <<target, tmp, content>>
reader == <<reading, unread, entry, found, since>>
vars == <<backend, table, fs, call, calls, clash, raced, reader>>

HeadOf(f) == [kind |-> "head", flow |-> f, key |-> 0]
VersionOf(v) == [kind |-> "version", flow |-> 0, key |-> v]
TagOf(f, t) == [kind |-> "tag", flow |-> f, key |-> t]
Docs == {HeadOf(f) : f \in Flows} \cup {VersionOf(v) : v \in VersionIds}
          \cup {TagOf(f, t) : f \in Flows, t \in Tags}
\* A head and a tag name a version; a version has its flow and when it was created.
Values == [version : VersionIds] \cup [flow : Flows, created : 0..MaxCalls]
\* The clock ticks with every other call, so that versions can share their time of creation.
Now == (calls + 1) \div 2

Inodes == 1..MaxCalls
Empty == [bytes |-> "empty"]
Torn == [bytes |-> "torn"]
Whole(v) == [bytes |-> "whole", value |-> v]
Idle == [op |-> "idle"]
Outcome(o) == [op |-> "returned", outcome |-> o]

Init ==
  /\ backend \in Backends
  /\ table = [d \in Docs |-> Absent]
  /\ target = [d \in Docs |-> 0] /\ tmp = [d \in Docs |-> 0]
  /\ content = [i \in Inodes |-> Empty]
  /\ call = [c \in Clients |-> Idle] /\ calls = 0
  /\ clash = {} /\ raced = {}
  /\ reading = "idle" /\ unread = {} /\ entry = {} /\ found = << >> /\ since = << >>

EndRead == reading' = "idle" /\ unread' = {} /\ entry' = {} /\ found' = << >> /\ since' = << >>
Finish(c, outcome) == call' = [call EXCEPT ![c] = Outcome(outcome)] /\ clash' = clash \ {c}
Goto(c, pc, fd) == call' = [call EXCEPT ![c].pc = pc, ![c].fd = fd] /\ UNCHANGED clash
Doc(c) == call[c].doc
AtStep(c, op, pc) == call[c].op = op /\ call[c].pc = pc

\* The clients in the middle of a save of d.
Savers(d) == {e \in Clients : call[e].op = "put" /\ Doc(e) = d}

\* The calls in progress, the reader's among them.
InProgress == {c \in Clients : call[c].op \in {"put", "delete"}} \cup (IF reading = "reading" THEN {"reader"} ELSE {})

Begin(c, op, d, v) ==
  /\ calls < MaxCalls /\ calls' = calls + 1 /\ Cardinality(InProgress) < MaxBusy
  /\ call[c].op \in {"idle", "returned"}
  /\ call' = [call EXCEPT ![c] = [op |-> op, doc |-> d, value |-> v, pc |-> "called", fd |-> 0]]
  /\ IF op = "put" /\ Savers(d) # {}
     THEN /\ clash' = clash \cup Savers(d) \cup {c}
          /\ raced' = IF backend = "file" THEN raced \cup {d} ELSE raced
     ELSE UNCHANGED <<clash, raced>>
  /\ UNCHANGED <<backend, table, fs>>
put_version(c, v, f) == Begin(c, "put", VersionOf(v), [flow |-> f, created |-> Now])
put_head(c, f, v) == Begin(c, "put", HeadOf(f), [version |-> v])
set_tag(c, f, t, v) == Begin(c, "put", TagOf(f, t), [version |-> v])
delete_tag(c, f, t) == Begin(c, "delete", TagOf(f, t), Absent)

--------------------------------------------------------------------------
(* The file stores: atomic_write, and the same lines in set_tag.           *)

Fresh == CHOOSE i \in Inodes : \A d \in Docs : i \notin {target[d], tmp[d]}
                              /\ \A e \in Clients : call[e].op = "put" => call[e].fd # i
\* Defect: it renames before it has written.
open_and_rename(c) ==
  /\ backend = "file" /\ AtStep(c, "put", "called")
  /\ target' = [target EXCEPT ![Doc(c)] = Fresh]
  /\ content' = [content EXCEPT ![Fresh] = Empty]
  /\ Goto(c, "opened", Fresh)
  /\ UNCHANGED <<backend, table, tmp, calls, raced>>
\* std::fs::write opens the temporary file, creating or truncating it ...
open_tmp(c) ==
  /\ backend = "file" /\ AtStep(c, "put", "called")
  /\ LET fd == IF tmp[Doc(c)] = 0 THEN Fresh ELSE tmp[Doc(c)]
     IN /\ tmp' = [tmp EXCEPT ![Doc(c)] = fd]
        /\ content' = [content EXCEPT ![fd] = Empty]
        /\ Goto(c, "opened", fd)
  /\ UNCHANGED <<backend, table, target, calls, raced>>
\* ... and writes its bytes over whatever another descriptor has put there.
write_tmp(c) ==
  /\ AtStep(c, "put", "opened")
  /\ LET fd == call[c].fd
     IN \E bytes \in {Whole(call[c].value)} \cup (IF content[fd] = Empty THEN {} ELSE {Torn}) :
          content' = [content EXCEPT ![fd] = bytes]
  /\ Goto(c, "written", call[c].fd)
  /\ UNCHANGED <<backend, table, target, tmp, calls, raced>>
write_fails(c) ==
  /\ AtStep(c, "put", "opened")
  /\ content' = [content EXCEPT ![call[c].fd] = Torn]
  /\ Finish(c, "err")
  /\ UNCHANGED <<backend, table, target, tmp, calls, raced>>
\* Another save of the document may have renamed the temporary file already.
rename(c) ==
  /\ AtStep(c, "put", "written")
  /\ IF tmp[Doc(c)] = 0 THEN Finish(c, "err") /\ UNCHANGED fs
     ELSE /\ target' = [target EXCEPT ![Doc(c)] = tmp[Doc(c)]]
          /\ tmp' = [tmp EXCEPT ![Doc(c)] = 0]
          /\ Finish(c, "ok") /\ UNCHANGED content
  /\ raced' = IF c \in clash THEN raced ELSE raced \ {Doc(c)}
  /\ UNCHANGED <<backend, table, calls>>
atomic_write(c) == open_tmp(c) \/ write_tmp(c) \/ write_fails(c) \/ rename(c)

\* delete_tag looks, then removes; the file may have gone in between.
file_delete_tag(c) ==
  /\ backend = "file" /\ call[c].op = "delete"
  /\ \/ /\ call[c].pc = "called"
        /\ IF target[Doc(c)] = 0 THEN Finish(c, "absent") ELSE Goto(c, "exists", 0)
        /\ UNCHANGED fs
     \/ /\ call[c].pc = "exists"
        /\ IF target[Doc(c)] = 0 THEN Finish(c, "err") /\ UNCHANGED target
           ELSE Finish(c, "deleted") /\ target' = [target EXCEPT ![Doc(c)] = 0]
        /\ UNCHANGED <<tmp, content>>
  /\ UNCHANGED <<backend, table, calls, raced>>

Crash ==
  /\ backend = "file" /\ \E c \in Clients : call[c].op \in {"put", "delete"}
  /\ call' = [c \in Clients |-> Idle] /\ clash' = {}
  /\ EndRead
  /\ UNCHANGED <<backend, table, fs, calls, raced>>

--------------------------------------------------------------------------
(* The database stores.                                                    *)

Execute(c, rows, outcome) ==
  /\ backend = "sql" /\ call[c].pc = "called"
  /\ \/ table' = rows /\ Finish(c, outcome)
     \/ table' = table /\ Finish(c, "err")
  /\ UNCHANGED <<backend, fs, calls, raced>>
\* Defect: it updates a version on conflict.
sql_put_version_update(c) ==
  /\ call[c].op = "put" /\ Doc(c).kind = "version"
  /\ Execute(c, [table EXCEPT ![Doc(c)] = call[c].value], "ok")
\* INSERT ... ON CONFLICT DO NOTHING
sql_put_version(c) ==
  /\ call[c].op = "put" /\ Doc(c).kind = "version"
  /\ Execute(c, IF table[Doc(c)] = Absent THEN [table EXCEPT ![Doc(c)] = call[c].value] ELSE table, "ok")
\* INSERT ... ON CONFLICT DO UPDATE
sql_put_head(c) ==
  /\ call[c].op = "put" /\ Doc(c).kind = "head"
  /\ Execute(c, [table EXCEPT ![Doc(c)] = call[c].value], "ok")
sql_set_tag(c) ==
  /\ call[c].op = "put" /\ Doc(c).kind = "tag"
  /\ Execute(c, [table EXCEPT ![Doc(c)] = call[c].value], "ok")
sql_delete_tag(c) ==
  /\ call[c].op = "delete"
  /\ Execute(c, [table EXCEPT ![Doc(c)] = Absent],
             IF table[Doc(c)] = Absent THEN "absent" ELSE "deleted")

--------------------------------------------------------------------------
(* Reading.                                                                *)

NotParsed == [error |-> "deserialize"]
\* What std::fs::read and from_slice find now: an error unless the file is whole.
file_get(d) ==
  IF target[d] = 0 THEN Absent
  ELSE IF content[target[d]].bytes = "whole" THEN content[target[d]].value ELSE NotParsed
get(d) == IF backend = "file" THEN file_get(d) ELSE table[d]

\* The documents a call reads: one (get_head, get_version, get_tag), or what a listing goes
\* through (list_flows, list_versions, list_tags; tags_for_version takes the flows in turn).
Kind(k) == {d \in Docs : d.kind = k}
Queries == {{d} : d \in Docs} \cup {Kind("head"), Kind("version"), Kind("tag")}
             \cup {{d \in Kind("tag") : d.flow = f} : f \in Flows}

begin_read(S) ==
  /\ reading # "reading" /\ Cardinality(InProgress) < MaxBusy /\ S # {}
  /\ reading' = "reading" /\ unread' = S /\ entry' = {}
  /\ found' = [d \in S |-> Absent] /\ since' = [d \in S |-> {get(d)}]
ReadOn(t, e) == unread' = t /\ entry' = e /\ reading' = IF t \cup e = {} THEN "returned" ELSE "reading"

\* exists, or the next entry of the directory whose extension is json.
file_look(d) ==
  /\ backend = "file" /\ reading = "reading" /\ entry = {} /\ d \in unread
  /\ ReadOn(unread \ {d}, IF target[d] = 0 THEN {} ELSE {d})
  /\ UNCHANGED <<found, since>>
\* The file is read; if it has gone since, the whole call fails.
file_read(d) ==
  /\ backend = "file" /\ d \in entry
  /\ IF target[d] = 0
     THEN reading' = "gone" /\ unread' = {} /\ entry' = {} /\ UNCHANGED found
     ELSE ReadOn(unread, {}) /\ found' = [found EXCEPT ![d] = file_get(d)]
  /\ UNCHANGED since
\* A system call or a statement fails.
read_fails == reading = "reading" /\ EndRead
sql_select ==
  /\ backend = "sql" /\ reading = "reading"
  /\ ReadOn({}, {}) /\ found' = [d \in DOMAIN found |-> table[d]]
  /\ UNCHANGED since

\* What the calls make of what they have read; a listing skips what it cannot parse.
Listed == {d \in DOMAIN found : found[d] \in Values}
list_flows == {d.flow : d \in Listed}

\* The elements of S in the order of Before: x has k - 1 elements before it if it is the k-th.
Sorted(S, Before(_, _)) ==
  [k \in 1..Cardinality(S) |-> CHOOSE x \in S : Cardinality({y \in S : Before(y, x)}) = k - 1]
\* Newest first, the version id breaking ties.
Newer(a, b) == LET created(v) == found[VersionOf(v)].created
               IN created(a) > created(b) \/ (created(a) = created(b) /\ a > b)
Page(s, limit, offset) ==
  SubSeq(s, offset + 1, IF offset + limit < Len(s) THEN offset + limit ELSE Len(s))
VersionsOf(f) == {d.key : d \in {e \in Listed : found[e].flow = f}}
\* Defect: it takes before it skips.
file_list_versions_taken(f, limit, offset) == Page(Page(Sorted(VersionsOf(f), Newer), limit, 0), limit, offset)
\* sort_by, skip and take; ORDER BY, OFFSET and LIMIT.
file_list_versions(f, limit, offset) == Page(Sorted(VersionsOf(f), Newer), limit, offset)
sql_list_versions(f, limit, offset) == Page(Sorted(VersionsOf(f), Newer), limit, offset)
list_versions(f, limit, offset) ==
  IF backend = "file" THEN file_list_versions(f, limit, offset) ELSE sql_list_versions(f, limit, offset)

\* The two versions, or NotFound if one of them is missing.
get_versions_for_diff(a, b) ==
  IF Absent \in {get(VersionOf(a)), get(VersionOf(b))} THEN Absent ELSE <<get(VersionOf(a)), get(VersionOf(b))>>

ByTag(d, e) == d.key < e.key \/ (d.key = e.key /\ d.flow < e.flow)
TagNames(ds) == LET s == Sorted(ds, ByTag) IN [k \in DOMAIN s |-> s[k].key]
list_tags(f) == TagNames({d \in Listed : d.flow = f})
\* The names only: two flows that use one tag for the version show up as the name twice.
tags_for_version(v) == TagNames({d \in Listed : found[d].version = v})

--------------------------------------------------------------------------
Change ==
  \E c \in Clients :
    \/ \E v \in VersionIds, f \in Flows : put_version(c, v, f)
    \/ \E f \in Flows, v \in VersionIds : put_head(c, f, v)
    \/ \E f \in Flows, t \in Tags, v \in VersionIds : set_tag(c, f, t, v)
    \/ \E f \in Flows, t \in Tags : delete_tag(c, f, t)
    \/ atomic_write(c) \/ file_delete_tag(c)
    \/ sql_put_version(c) \/ sql_put_head(c) \/ sql_set_tag(c) \/ sql_delete_tag(c)
\* A reader in the middle of a call stands still while a document changes under it; one that
\* has its answer is done with it.
Watch ==
  IF reading = "reading"
  THEN /\ since' = [d \in DOMAIN since |-> since[d] \cup {get(d)'}]
       /\ UNCHANGED <<reading, unread, entry, found>>
  ELSE EndRead
Read ==
  /\ \/ \E S \in Queries : begin_read(S)
     \/ \E d \in Docs : file_look(d) \/ file_read(d)
     \/ sql_select \/ read_fails
  /\ UNCHANGED <<backend, table, fs, call, calls, clash, raced>>

Next == (Change /\ Watch) \/ Read \/ Crash
Spec == Init /\ [][Next]_vars
Symmetry == Permutations(Clients)

--------------------------------------------------------------------------
(* Properties.                                                             *)

\* The call in progress as a caller sees it.
Seen(c) == IF call[c].op \in {"put", "delete"}
           THEN [op |-> call[c].op, doc |-> call[c].doc, value |-> call[c].value] ELSE call[c]
Lost == [error |-> "lost"]
\* A document as the callers may count on it.
Kept(d) == IF d \in raced THEN Lost ELSE get(d)
Promised == INSTANCE DocumentStore WITH docs <- [d \in Docs |-> Kept(d)], call <- [c \in Clients |-> Seen(c)]
\* Every store behaves as a store of documents that change in one step: no reader ever finds
\* half a file, a call that returned an error or died in a crash changed nothing, and of the
\* calls that delete a tag one is told it did.  A temporary file left by a crash does no harm.
\* Saves of one document that overlap on files lose that document and no other, until a save
\* that overlaps no other stores it again; the database loses none.
StoresAreAtomic == Promised!ASpec

Count(s, x) == Cardinality({k \in DOMAIN s : s[k] = x})
\* Documents that were stored all through the reader's call, and at some time of it.
Always(d) == since[d] \subseteq Values
Ever(d) == since[d] \cap Values # {}
\* While documents are saved, deleted and lost under the reader (exists and read_dir, then a
\* read of each file): a read returns a state its document had during the call, and fails for
\* a vanished file only if a tag was deleted during it.  list_flows, list_tags and
\* tags_for_version list what was there all the time, once, and nothing that never was; the
\* pages of a flow's history put together are its versions, each once, newest first.
ReadsFaithful ==
  /\ reading = "gone" => \E d \in DOMAIN since : d.kind = "tag" /\ Absent \in since[d] /\ since[d] # {Absent}
  /\ reading = "returned" => \A d \in DOMAIN since : found[d] \in since[d]
  /\ reading = "returned" /\ DOMAIN since = Kind("head") =>
       \A f \in Flows : (Always(HeadOf(f)) => f \in list_flows) /\ (f \in list_flows => Ever(HeadOf(f)))
  /\ reading = "returned" /\ DOMAIN since = Kind("tag") =>
       \A t \in Tags :
         /\ \A f \in Flows : /\ Count(list_tags(f), t) <= IF Ever(TagOf(f, t)) THEN 1 ELSE 0
                             /\ Count(list_tags(f), t) >= IF Always(TagOf(f, t)) THEN 1 ELSE 0
         /\ \A v \in VersionIds :
              LET tagged == [version |-> v]
              IN /\ Count(tags_for_version(v), t) <= Cardinality({f \in Flows : tagged \in since[TagOf(f, t)]})
                 /\ Count(tags_for_version(v), t) >= Cardinality({f \in Flows : since[TagOf(f, t)] = {tagged}})
  /\ reading = "returned" /\ DOMAIN since = Kind("version") =>
       \A f \in Flows :
         LET n == Cardinality(VersionIds)
             all == list_versions(f, n, 0)
         IN /\ FlattenSeq([k \in 1..n |-> list_versions(f, 1, k - 1)]) = all
            /\ \A v \in VersionIds :
                 /\ v \in ToSet(all) => \E x \in since[VersionOf(v)] \cap Values : x.flow = f
                 /\ Always(VersionOf(v)) /\ (\A x \in since[VersionOf(v)] : x.flow = f) => v \in ToSet(all)
            /\ \A k \in 1..(Len(all) - 1) : Newer(all[k], all[k + 1])

\* Two versions that can be compared can be compared ever after, and in the database the
\* comparison never changes; the file store replaces a version that is saved again.
VersionsStay ==
  [][\A a, b \in VersionIds : get_versions_for_diff(a, b) # Absent =>
       /\ get_versions_for_diff(a, b)' # Absent
       /\ backend = "sql" => get_versions_for_diff(a, b)' = get_versions_for_diff(a, b)]_vars

\* FileFlowStore's doc comment: "Atomic writes use a temp-file-then-rename pattern to prevent
\* partial writes from corrupting the store."  Two saves that overlap write one temporary
\* file, so this does not hold.
FilesStayWhole == \A d \in Docs : get(d) # NotParsed
=============================================================================
