------------------------------ MODULE K8sEngine ------------------------------
(***************************************************************************)
(* internal/storage/k8s/k8s.go: notes are the keys of Kubernetes Secrets.  *)
(* Every change reads a whole Secret, edits the copy and writes it back;   *)
(* the API server refuses the write if the Secret has changed since, which *)
(* is what makes the three steps one.                                      *)
(*                                                                         *)
(* A path is a pair <<secret, key>>; <<secret, Whole>> names a Secret      *)
(* (splitPath with no key).                                                *)
(***************************************************************************)
EXTENDS Naturals, Sequences, FiniteSets

CONSTANTS
    Clients, Secrets, Keys, Whole, Contents, Absent, Partial, None,
    Requests, MaxCalls

Paths == Secrets \X Keys
Places == Secrets \X (Keys \cup {Whole})    \* a note or a whole Secret

\* None is a value of its own. Save and Rename refuse a path without a key, so
\* only a delete may name a whole Secret.
ASSUME K8sAssumption ==
    /\ IsFiniteSet(Clients) /\ MaxCalls \in Nat /\ Whole \notin Keys
    /\ Absent \notin Contents \cup {Partial} /\ Partial \notin Contents
    /\ Requests \subseteq [op : {"save"}, path : Paths, content : Contents]
                        \cup [op : {"delete"}, path : Places]
                        \cup [op : {"rename"}, from : Paths, path : Paths]
    /\ None \notin Requests
                \cup [op : {"delete"}, path : Places, gone : SUBSET Paths]
                \cup [action : {"create", "update", "delete", "rename"},
                      path : Places, prev : Paths \cup {None}]
                \cup [Keys -> Contents \cup {Absent}]
                \cup [data : [Keys -> Contents \cup {Absent}], version : Nat]

VARIABLES
    cluster,      \* the Secrets of the namespace, as the API server has them
    version,      \* resourceVersion each Secret had last
    pc, req,      \* what each request goroutine does, and for which request
    copy,         \* the Secret the goroutine got and edits
    action,       \* audit action it has chosen
    log, lost,    \* entries recorded, and those of changes never recorded
    calls

vars == <<cluster, version, pc, req, copy, action, log, lost, calls>>

Missing == [k \in Keys |-> Absent]
SecretOf(path) == path[1]
KeyOf(path) == path[2]
S(c) == SecretOf(req[c].path)

Entry(a, path, prev) == [action |-> a, path |-> path, prev |-> prev]
EntryOf(c) == Entry(action[c], req[c].path,
                    IF req[c].op = "rename" THEN req[c].from ELSE None)

Init ==
    /\ cluster = [s \in Secrets |-> None]
    /\ version = [s \in Secrets |-> 0]
    /\ pc = [c \in Clients |-> "idle"]
    /\ req = [c \in Clients |-> None]
    /\ copy = [c \in Clients |-> None]
    /\ action = [c \in Clients |-> None]
    /\ log = <<>> /\ lost = <<>> /\ calls = 0

-----------------------------------------------------------------------------
(* The API server *)

\* A Secret as Get returns it: its data and the version of that data.
Fetched(s) == IF cluster[s] = None THEN None
              ELSE [data |-> cluster[s], version |-> version[s]]

\* Create succeeds on a name that is free, Update on the version it is based
\* on; either gives the Secret a new version.
Accepts(s, old) == Fetched(s) = old

Put(s, data) ==
    /\ cluster' = [cluster EXCEPT ![s] = data]
    /\ version' = [version EXCEPT ![s] = @ + 1]

-----------------------------------------------------------------------------
(* The engine *)

Call(c) ==
    /\ pc[c] = "idle" /\ calls < MaxCalls
    /\ \E r \in Requests :
         /\ req' = [req EXCEPT ![c] = r]
         /\ pc' = [pc EXCEPT ![c] = IF KeyOf(r.path) = Whole THEN "drop"
                                                            ELSE "get"]
    /\ calls' = calls + 1
    /\ UNCHANGED <<cluster, version, copy, action, log, lost>>

Finish(c) ==
    /\ pc' = [pc EXCEPT ![c] = "idle"]
    /\ req' = [req EXCEPT ![c] = None]
    /\ copy' = [copy EXCEPT ![c] = None]
    /\ action' = [action EXCEPT ![c] = None]

\* The handler goes on: it wants to write, and to record act afterwards.
Intend(c, act) ==
    /\ copy' = [copy EXCEPT ![c] = Fetched(S(c))]
    /\ action' = [action EXCEPT ![c] = act]
    /\ pc' = [pc EXCEPT ![c] = "put"]
    /\ UNCHANGED <<cluster, version, req, log, lost, calls>>

Holds(s, k) == cluster[s] # None /\ cluster[s][k] # Absent

\* Variant: a new key of a Secret that is there is taken for an update.
GetToSaveBySecret(c) ==
    /\ pc[c] = "get" /\ req[c].op = "save"
    /\ Intend(c, IF cluster[S(c)] = None THEN "create" ELSE "update")

\* Save: Get the Secret; a Secret that is not there is created.
GetToSave(c) ==
    /\ pc[c] = "get" /\ req[c].op = "save"
    /\ Intend(c, IF Holds(S(c), KeyOf(req[c].path)) THEN "update" ELSE "create")

GetToDelete(c) ==
    /\ pc[c] = "get" /\ req[c].op = "delete"
    /\ Holds(S(c), KeyOf(req[c].path))
    /\ Intend(c, "delete")

GetToRename(c) ==
    /\ pc[c] = "get" /\ req[c].op = "rename"
    /\ SecretOf(req[c].from) = S(c)
    /\ Holds(S(c), KeyOf(req[c].from)) /\ ~Holds(S(c), KeyOf(req[c].path))
    /\ Intend(c, "rename")

\* Variant: a rename stores the old key's name, not its value.
EditedToName(c) ==
    LET data == IF copy[c] = None THEN Missing ELSE copy[c].data
        key == KeyOf(req[c].path)
    IN  CASE req[c].op = "save"   -> [data EXCEPT ![key] = req[c].content]
          [] req[c].op = "delete" -> [data EXCEPT ![key] = Absent]
          [] req[c].op = "rename" ->
               [data EXCEPT ![key] = KeyOf(req[c].from),
                            ![KeyOf(req[c].from)] = Absent]

\* The edited copy that is sent back.
Edited(c) ==
    LET data == IF copy[c] = None THEN Missing ELSE copy[c].data
        key == KeyOf(req[c].path)
    IN  CASE req[c].op = "save"   -> [data EXCEPT ![key] = req[c].content]
          [] req[c].op = "delete" -> [data EXCEPT ![key] = Absent]
          [] req[c].op = "rename" ->
               [data EXCEPT ![key] = data[KeyOf(req[c].from)],
                            ![KeyOf(req[c].from)] = Absent]

\* Variant: the write does not carry the version the copy was read at.
UpdateBlindly(c) ==
    /\ pc[c] = "put" /\ (cluster[S(c)] = None <=> copy[c] = None)
    /\ Put(S(c), Edited(c))
    /\ pc' = [pc EXCEPT ![c] = "record"]
    /\ UNCHANGED <<req, copy, action, log, lost, calls>>

\* Create or Update succeeds.
Update(c) ==
    /\ pc[c] = "put" /\ Accepts(S(c), copy[c])
    /\ Put(S(c), Edited(c))
    /\ pc' = [pc EXCEPT ![c] = "record"]
    /\ UNCHANGED <<req, copy, action, log, lost, calls>>

\* Delete of a whole Secret, which carries no version.
Drop(c) ==
    /\ pc[c] = "drop" /\ cluster[S(c)] # None
    /\ cluster' = [cluster EXCEPT ![S(c)] = None]
    /\ action' = [action EXCEPT ![c] = "delete"]
    /\ pc' = [pc EXCEPT ![c] = "record"]
    /\ UNCHANGED <<version, req, copy, log, lost, calls>>

\* Any error before the API server has applied a write: not found, the check
\* on the copy fails, a version conflict, the 10 s time-out, a lost request.
Error(c) ==
    /\ pc[c] \in {"get", "put", "drop"}
    /\ Finish(c)
    /\ UNCHANGED <<cluster, version, log, lost, calls>>

Record(c) ==
    /\ pc[c] = "record"
    /\ log' = Append(log, EntryOf(c))
    /\ Finish(c)
    /\ UNCHANGED <<cluster, version, lost, calls>>

\* The write is applied, but the time-out or a crash ends the request before
\* Record: the error path returns without recording.
TimedOut(c) ==
    /\ pc[c] = "record"
    /\ lost' = Append(lost, EntryOf(c))
    /\ Finish(c)
    /\ UNCHANGED <<cluster, version, log, calls>>

Next == \E c \in Clients :
    \/ Call(c) \/ GetToSave(c) \/ GetToDelete(c) \/ GetToRename(c)
    \/ Update(c) \/ Drop(c) \/ Error(c) \/ Record(c) \/ TimedOut(c)

Spec == Init /\ [][Next]_vars

-----------------------------------------------------------------------------
(* Properties *)

TypeOK ==
    /\ cluster \in [Secrets -> {None} \cup [Keys -> Contents \cup {Absent}]]
    /\ version \in [Secrets -> Nat]
    /\ pc \in [Clients -> {"idle", "get", "put", "drop", "record"}]
    /\ req \in [Clients -> {None} \cup Requests]
    /\ copy \in [Clients -> {None} \cup
         [data : [Keys -> Contents \cup {Absent}], version : Nat]]
    /\ action \in [Clients -> {None, "create", "update", "delete", "rename"}]
    /\ calls \in 0 .. MaxCalls

Stored == [p \in Paths |->
    IF cluster[p[1]] = None THEN Absent ELSE cluster[p[1]][p[2]]]

Gone(r) == IF KeyOf(r.path) = Whole THEN {SecretOf(r.path)} \X Keys
                                    ELSE {r.path}
Abstract(r) == IF r # None /\ r.op = "delete"
                 THEN [op |-> "delete", path |-> r.path, gone |-> Gone(r)]
                 ELSE r

V == INSTANCE Vault WITH
    store <- Stored,
    req <- [c \in Clients |-> Abstract(req[c])],
    effect <- [c \in Clients |-> IF pc[c] = "record" THEN EntryOf(c) ELSE None],
    Requests <- {Abstract(r) : r \in Requests},
    AtomicSaves <- TRUE

\* Get, edit, write back is one atomic change of one note, however many
\* requests edit the same Secret at once (k8s.go:123-244), and the action in
\* the audit log is the one that happened.
ImplementsVault == V!Spec

\* The audit log of a cluster vault accounts for every note none of whose
\* entries was lost with a request that timed out (k8s.go:163-169, 194-200,
\* 236-243), and that was not deleted with its whole Secret.
AuditBalance == V!AuditBalance
=============================================================================
