-------------------------------- MODULE Vault --------------------------------
(***************************************************************************)
(* What a storage backend promises its callers (storage.VaultStorageEngine *)
(* in internal/storage/engine.go): notes are saved, deleted and renamed    *)
(* one at a time, and every change is written to the audit log under the   *)
(* action it really was.                                                   *)
(*                                                                         *)
(* A request is a record with a field op:                                  *)
(*   save    path, content      put content at path                        *)
(*   delete  path, gone         remove the notes of gone: path alone,      *)
(*                              every key of a secret, or none (path is a  *)
(*                              namespace with no notes)                   *)
(*   rename  from, path         move a note to a path nothing is at        *)
(*   namespace  path            make room for notes, itself not one        *)
(***************************************************************************)
EXTENDS Naturals, Sequences, FiniteSets

CONSTANTS
    Clients,       \* request goroutines
    Paths,         \* logical vault paths of notes
    Contents,      \* contents a save may carry
    Absent,        \* no note at a path
    Partial,       \* a note whose save has begun and not ended
    None,          \* no request, no audit entry
    Requests,      \* the requests clients make
    MaxCalls,      \* bound on the number of requests
    AtomicSaves    \* readers never see a partial note

VARIABLES
    store,         \* content at each path
    req,           \* request each client is serving
    effect,        \* audit entry of the change a request has made
    log,           \* audit entries recorded
    lost,          \* entries of changes whose request ended before recording
    calls          \* number of requests so far

vars == <<store, req, effect, log, lost, calls>>

Entry(action, path, prev) == [action |-> action, path |-> path, prev |-> prev]

Init ==
    /\ store = [p \in Paths |-> Absent]
    /\ req = [c \in Clients |-> None]
    /\ effect = [c \in Clients |-> None]
    /\ log = <<>> /\ lost = <<>> /\ calls = 0

Call(c) ==
    /\ req[c] = None /\ calls < MaxCalls
    /\ \E r \in Requests : req' = [req EXCEPT ![c] = r]
    /\ calls' = calls + 1
    /\ UNCHANGED <<store, effect, log, lost>>

\* Client c has a request op that has changed nothing yet.
Asked(c, op) == req[c] # None /\ req[c].op = op /\ effect[c] = None

Save(c) ==
    /\ Asked(c, "save")
    /\ store' = [store EXCEPT ![req[c].path] = req[c].content]
    /\ effect' = [effect EXCEPT ![c] =
         Entry(IF store[req[c].path] = Absent THEN "create" ELSE "update",
               req[c].path, None)]
    /\ UNCHANGED <<req, log, lost, calls>>

\* Where saves are not atomic, readers may see the note between these two.
BeginSave(c) ==
    /\ ~AtomicSaves /\ Asked(c, "save")
    /\ store' = [store EXCEPT ![req[c].path] = Partial]
    /\ effect' = [effect EXCEPT ![c] =
         Entry(IF store[req[c].path] = Absent THEN "create" ELSE "update",
               req[c].path, None)]
    /\ UNCHANGED <<req, log, lost, calls>>

EndSave(c) ==
    /\ ~AtomicSaves /\ effect[c] # None /\ req[c].op = "save"
    /\ store[req[c].path] = Partial
    /\ store' = [store EXCEPT ![req[c].path] = req[c].content]
    /\ UNCHANGED <<req, effect, log, lost, calls>>

Delete(c) ==
    /\ Asked(c, "delete")
    /\ req[c].path \in Paths => store[req[c].path] # Absent
    /\ store' = [p \in Paths |->
                   IF p \in req[c].gone THEN Absent ELSE store[p]]
    /\ effect' = [effect EXCEPT ![c] = Entry("delete", req[c].path, None)]
    /\ UNCHANGED <<req, log, lost, calls>>

Rename(c) ==
    /\ Asked(c, "rename")
    /\ store[req[c].from] # Absent /\ store[req[c].path] = Absent
    /\ store' = [store EXCEPT ![req[c].path] = store[req[c].from],
                              ![req[c].from] = Absent]
    /\ effect' = [effect EXCEPT ![c] =
                    Entry("rename", req[c].path, req[c].from)]
    /\ UNCHANGED <<req, log, lost, calls>>

\* What is made holds nothing yet: no note changes.
CreateNamespace(c) ==
    /\ Asked(c, "namespace")
    /\ effect' = [effect EXCEPT ![c] = Entry("create", req[c].path, None)]
    /\ UNCHANGED <<store, req, log, lost, calls>>

\* The request ends with an error and has changed nothing.
Reject(c) ==
    /\ req[c] # None /\ effect[c] = None
    /\ req' = [req EXCEPT ![c] = None]
    /\ UNCHANGED <<store, effect, log, lost, calls>>

Record(c) ==
    /\ effect[c] # None
    /\ req[c].op = "save" => store[req[c].path] # Partial
    /\ log' = Append(log, effect[c])
    /\ req' = [req EXCEPT ![c] = None]
    /\ effect' = [effect EXCEPT ![c] = None]
    /\ UNCHANGED <<store, lost, calls>>

\* The change was made, but the request ends (a time-out, a crash) before it
\* is recorded.
Lose(c) ==
    /\ effect[c] # None
    /\ lost' = Append(lost, effect[c])
    /\ req' = [req EXCEPT ![c] = None]
    /\ effect' = [effect EXCEPT ![c] = None]
    /\ UNCHANGED <<store, log, calls>>

Next == \E c \in Clients :
    \/ Call(c) \/ Save(c) \/ BeginSave(c) \/ EndSave(c) \/ Delete(c)
    \/ Rename(c) \/ CreateNamespace(c) \/ Reject(c) \/ Record(c) \/ Lose(c)

Spec == Init /\ [][Next]_vars

-----------------------------------------------------------------------------
(* Properties *)

Adds(e, p) == e.action \in {"create", "rename"} /\ e.path = p
Removes(e, p) == \/ e.action = "delete" /\ e.path = p
                 \/ e.action = "rename" /\ e.prev = p

\* The entry of a request that removed p and the notes beside it at once: it
\* does not say which there were.
Sweeps(e, p) == \E r \in Requests :
    /\ e.action = "delete" /\ r.op = "delete"
    /\ r.path = e.path /\ e.path # p /\ p \in r.gone

\* Every entry that Is about p is in the log: none was lost, none is about to be
\* recorded.
AllInLog(Is(_, _), p) ==
    /\ \A i \in DOMAIN lost : ~Is(lost[i], p)
    /\ \A c \in Clients : effect[c] # None => ~Is(effect[c], p)

Count(Is(_, _), p) == Cardinality({i \in DOMAIN log : Is(log[i], p)})

\* The log balances where it is whole: a note whose entries are all in it, none
\* of them of a request that swept the note away with others, is there exactly
\* when the log has it created or renamed to once more often than deleted or
\* renamed away.  An entry with the wrong action, a rename onto a note or a
\* delete of nothing breaks it, whatever order the log has.
AuditBalance ==
    \A p \in Paths :
      (/\ AllInLog(Adds, p) /\ AllInLog(Removes, p) /\ AllInLog(Sweeps, p)
       /\ Count(Sweeps, p) = 0) =>
        Count(Adds, p) = Count(Removes, p) + IF store[p] = Absent THEN 0 ELSE 1
=============================================================================
