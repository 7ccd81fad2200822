----------------------------- MODULE LocalEngine -----------------------------
(***************************************************************************)
(* internal/storage/local/local.go: notes are files under a root           *)
(* directory, namespaces are its sub-directories.  The engine takes no     *)
(* lock: every system call of a request is a step, and the calls of        *)
(* concurrent requests interleave.                                         *)
(*                                                                         *)
(* A directory entry names an inode; an open file stays on its inode       *)
(* whatever happens to the name.  Writing a file is two calls: open with   *)
(* O_TRUNC, which leaves it empty, and write.                              *)
(***************************************************************************)
EXTENDS Naturals, Sequences, FiniteSets

CONSTANTS
    Clients,      \* request goroutines
    Notes,        \* logical paths of notes
    Dirs,         \* namespaces
    Root,         \* the vault's root directory, not a namespace
    Parent,       \* directory of each note
    Contents,     \* contents a save may carry, as sequences of blocks
    Absent, None,
    Requests,     \* requests each client may make
    MaxCalls      \* bound on the number of requests

Block == UNION {{x[i] : i \in DOMAIN x} : x \in Contents}

\* No content is empty: a save of nothing would look like one cut off after
\* its open.
ASSUME LocalAssumption ==
    /\ MaxCalls \in Nat
    /\ Notes \cap Dirs = {}
    /\ Root \notin Dirs /\ Parent \in [Notes -> Dirs \cup {Root}]
    /\ Contents \subseteq Seq(Block) /\ <<>> \notin Contents
    /\ Absent \notin Nat /\ Absent \notin Seq(Block)
    /\ None \notin Nat
    /\ None \notin [action : {"create", "update", "delete", "rename"},
                   path : Notes \cup Dirs, prev : {None} \cup Notes]
    /\ None \notin [op : {"delete"}, path : Notes \cup Dirs, gone : SUBSET Notes]
    /\ \A c \in Clients : None \notin Requests[c]
    /\ \A c \in Clients : Requests[c] \subseteq
         [op : {"save"}, path : Notes, content : Contents]
         \cup [op : {"delete"}, path : Notes \cup Dirs]
         \cup [op : {"rename"}, from : Notes, path : Notes]
         \cup [op : {"namespace"}, path : Dirs]

VARIABLES
    names,        \* inode each note's path names, or Absent
    dirs,         \* namespaces that exist
    inodes,       \* contents of every inode ever allocated
    cut,          \* history: inodes whose save ended before its write
    pc, req,      \* what each request goroutine does, and for which request
    action,       \* audit action it has chosen
    fd,           \* inode a save has open
    log,          \* audit entries recorded
    lost,         \* entries of changes whose request ended before recording
    calls

tree == <<names, dirs, inodes>>
vars == <<tree, cut, pc, req, action, fd, log, lost, calls>>

Empty == <<>>
IsNote(path) == path \in Notes
Exists(path) == IF IsNote(path) THEN names[path] # Absent ELSE path \in dirs
HasRoom(path) == Parent[path] \in dirs \cup {Root}
Children(d) == {p \in Notes : Parent[p] = d /\ names[p] # Absent}

Entry(a, path, prev) == [action |-> a, path |-> path, prev |-> prev]
EntryOf(c) == Entry(action[c], req[c].path,
                    IF req[c].op = "rename" THEN req[c].from ELSE None)

Init ==
    /\ names = [p \in Notes |-> Absent] /\ dirs = {}
    /\ inodes = <<>> /\ cut = {}
    /\ pc = [c \in Clients |-> "idle"]
    /\ req = [c \in Clients |-> None]
    /\ action = [c \in Clients |-> None]
    /\ fd = [c \in Clients |-> None]
    /\ log = <<>> /\ lost = <<>> /\ calls = 0

Call(c) ==
    /\ pc[c] = "idle" /\ calls < MaxCalls
    /\ \E r \in Requests[c] : req' = [req EXCEPT ![c] = r]
    /\ pc' = [pc EXCEPT ![c] = "asked"]
    /\ calls' = calls + 1
    /\ UNCHANGED <<tree, cut, action, fd, log, lost>>

Goto(c, label) ==
    /\ pc' = [pc EXCEPT ![c] = label]
    /\ UNCHANGED <<req, calls, cut, log, lost>>

At(c, label, op) == pc[c] = label /\ req[c].op = op

Finish(c) ==
    /\ pc' = [pc EXCEPT ![c] = "idle"]
    /\ req' = [req EXCEPT ![c] = None]
    /\ action' = [action EXCEPT ![c] = None]
    /\ fd' = [fd EXCEPT ![c] = None]
    /\ UNCHANGED <<tree, calls>>

-----------------------------------------------------------------------------
(* Save *)

StatToSave(c) ==
    /\ At(c, "asked", "save")
    /\ action' = [action EXCEPT ![c] =
                    IF Exists(req[c].path) THEN "update" ELSE "create"]
    /\ Goto(c, "mkdir")
    /\ UNCHANGED <<tree, fd>>

\* MkdirAll of the note's directory, which nobody records.
MkdirAll(c) ==
    /\ At(c, "mkdir", "save")
    /\ dirs' = dirs \cup ({Parent[req[c].path]} \ {Root})
    /\ Goto(c, "open")
    /\ UNCHANGED <<names, inodes, action, fd>>

\* Variant: the open file is the one the path named before the call.
OpenStale(c) ==
    LET path == req[c].path IN
    /\ At(c, "open", "save") /\ HasRoom(path)
    /\ IF names[path] = Absent
         THEN /\ inodes' = Append(inodes, Empty)
              /\ names' = [names EXCEPT ![path] = Len(inodes')]
         ELSE /\ inodes' = [inodes EXCEPT ![names[path]] = Empty]
              /\ UNCHANGED names
    /\ fd' = [fd EXCEPT ![c] = names[path]]
    /\ Goto(c, "write")
    /\ UNCHANGED <<dirs, action>>

\* os.WriteFile: open(O_CREATE|O_TRUNC) ...
Open(c) ==
    LET path == req[c].path IN
    /\ At(c, "open", "save") /\ HasRoom(path)
    /\ IF names[path] = Absent
         THEN /\ inodes' = Append(inodes, Empty)
              /\ names' = [names EXCEPT ![path] = Len(inodes')]
         ELSE /\ inodes' = [inodes EXCEPT ![names[path]] = Empty]
              /\ UNCHANGED names
    /\ fd' = [fd EXCEPT ![c] = names'[path]]
    /\ Goto(c, "write")
    /\ UNCHANGED <<dirs, action>>

\* A write at the start of a file that another request has written since it
\* was emptied leaves the end of a longer text behind.
Overwrite(old, new) == new \o SubSeq(old, Len(new) + 1, Len(old))

\* Variant: the file is found again by its name.
WriteByName(c) ==
    /\ At(c, "write", "save")
    /\ inodes' = IF names[req[c].path] = Absent THEN inodes
                 ELSE [inodes EXCEPT ![names[req[c].path]] =
                             Overwrite(@, req[c].content)]
    /\ fd' = [fd EXCEPT ![c] = None]
    /\ Goto(c, "record")
    /\ UNCHANGED <<names, dirs, action>>

\* ... then write and close.
Write(c) ==
    /\ At(c, "write", "save")
    /\ inodes' = [inodes EXCEPT ![fd[c]] = Overwrite(@, req[c].content)]
    /\ fd' = [fd EXCEPT ![c] = None]
    /\ Goto(c, "record")
    /\ UNCHANGED <<names, dirs, action>>

-----------------------------------------------------------------------------
(* Delete, Rename, CreateNamespace *)

\* os.Remove takes a file, or a directory with nothing in it.
Delete(c) ==
    LET path == req[c].path IN
    /\ At(c, "asked", "delete") /\ Exists(path)
    /\ IF IsNote(path)
         THEN names' = [names EXCEPT ![path] = Absent] /\ UNCHANGED dirs
         ELSE Children(path) = {} /\ dirs' = dirs \ {path} /\ UNCHANGED names
    /\ action' = [action EXCEPT ![c] = "delete"]
    /\ Goto(c, "record")
    /\ UNCHANGED <<inodes, fd>>

StatOld(c) ==
    /\ At(c, "asked", "rename")
    /\ Parent[req[c].from] = Parent[req[c].path] /\ Exists(req[c].from)
    /\ Goto(c, "statnew")
    /\ UNCHANGED <<tree, action, fd>>

StatNew(c) ==
    /\ At(c, "statnew", "rename") /\ ~Exists(req[c].path)
    /\ Goto(c, "rename")
    /\ UNCHANGED <<tree, action, fd>>

\* Variant: the old name stays.
RenameAsLink(c) ==
    /\ At(c, "rename", "rename") /\ Exists(req[c].from)
    /\ names' = [names EXCEPT ![req[c].path] = names[req[c].from]]
    /\ action' = [action EXCEPT ![c] = "rename"]
    /\ Goto(c, "record")
    /\ UNCHANGED <<dirs, inodes, fd>>

\* os.Rename, which replaces whatever is at the new path, and does nothing to
\* a note renamed to itself.
Rename(c) ==
    /\ At(c, "rename", "rename") /\ Exists(req[c].from)
    /\ names' = [names EXCEPT ![req[c].from] = Absent,
                              ![req[c].path] = names[req[c].from]]
    /\ action' = [action EXCEPT ![c] = "rename"]
    /\ Goto(c, "record")
    /\ UNCHANGED <<dirs, inodes, fd>>

StatNamespace(c) ==
    /\ At(c, "asked", "namespace") /\ ~Exists(req[c].path)
    /\ Goto(c, "mkdir")
    /\ UNCHANGED <<tree, action, fd>>

CreateNamespace(c) ==
    /\ At(c, "mkdir", "namespace")
    /\ dirs' = dirs \cup {req[c].path}
    /\ action' = [action EXCEPT ![c] = "create"]
    /\ Goto(c, "record")
    /\ UNCHANGED <<names, inodes, fd>>

-----------------------------------------------------------------------------
(* How a request ends *)

Record(c) ==
    /\ pc[c] = "record"
    /\ log' = Append(log, EntryOf(c))
    /\ Finish(c)
    /\ UNCHANGED <<lost, cut>>

\* A check or a system call fails, the process stops, or Record panics: the
\* request ends here.  What it has changed already stays changed.
Abort(c) ==
    /\ pc[c] # "idle"
    /\ lost' = IF pc[c] \in {"write", "record"} THEN Append(lost, EntryOf(c))
                                                ELSE lost
    /\ cut' = IF pc[c] = "write" THEN cut \cup {fd[c]} ELSE cut
    /\ Finish(c)
    /\ UNCHANGED log

Next == \E c \in Clients :
    \/ Call(c) \/ StatToSave(c) \/ MkdirAll(c) \/ Open(c) \/ Write(c)
    \/ Delete(c) \/ StatOld(c) \/ StatNew(c) \/ Rename(c)
    \/ StatNamespace(c) \/ CreateNamespace(c) \/ Record(c) \/ Abort(c)

Spec == Init /\ [][Next]_vars

-----------------------------------------------------------------------------
(* Properties *)

TypeOK ==
    /\ inodes \in Seq(Seq(Block))
    /\ cut \subseteq DOMAIN inodes
    /\ names \in [Notes -> {Absent} \cup DOMAIN inodes]
    /\ dirs \in SUBSET Dirs
    /\ pc \in [Clients -> {"idle", "asked", "mkdir", "open", "write",
                           "statnew", "rename", "record"}]
    /\ req \in [Clients -> {None} \cup UNION {Requests[c] : c \in Clients}]
    /\ \A c \in Clients : req[c] \in {None} \cup Requests[c]
    /\ action \in [Clients -> {None, "create", "update", "delete", "rename"}]
    /\ fd \in [Clients -> {None} \cup DOMAIN inodes]
    /\ calls \in 0 .. MaxCalls

\* Two paths never name the same file: a rename moves (local.go:154).
OneNamePerFile ==
    \A p, q \in Notes : names[p] = names[q] /\ p # q => names[p] = Absent

\* A note is empty only while a save has its file open, or after a save was
\* cut off between opening the file and writing it (local.go:108-110), even
\* if the note is renamed meanwhile.
EmptyOnlyDuringSaves ==
    \A p \in Notes :
      names[p] # Absent /\ inodes[names[p]] = Empty =>
        \/ \E c \in Clients : pc[c] = "write" /\ fd[c] = names[p]
        \/ names[p] \in cut

NoteRequest(r) == IF r # None /\ r.op = "delete"
                    THEN [op |-> "delete", path |-> r.path,
                          gone |-> {r.path} \cap Notes]
                    ELSE r
Changed(c) == pc[c] \in {"write", "record"}

V == INSTANCE Vault WITH
    Paths <- Notes, Partial <- Empty,
    store <- [p \in Notes |-> IF names[p] = Absent THEN Absent
                                                   ELSE inodes[names[p]]],
    req <- [c \in Clients |-> NoteRequest(req[c])],
    effect <- [c \in Clients |-> IF Changed(c) THEN EntryOf(c) ELSE None],
    Requests <- {NoteRequest(r) : r \in UNION {Requests[c] : c \in Clients}},
    AtomicSaves <- FALSE

\* No two clients name the same note in their requests.
Named(r) == IF r.op = "rename" THEN {r.from, r.path} ELSE {r.path} \cap Notes
Apart == \A c, d \in Clients : c # d =>
    \A r \in Requests[c], s \in Requests[d] : Named(r) \cap Named(s) = {}

\* Requests on different notes do not disturb each other, whatever namespaces
\* come and go around them: each is the change the contract describes
\* (engine.go:10-31), recorded as what it was.
ImplementsVault == V!Spec
=============================================================================
