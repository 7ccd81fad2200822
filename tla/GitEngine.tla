------------------------------ MODULE GitEngine ------------------------------
(***************************************************************************)
(* internal/storage/git/git.go: the local engine with a git repository at  *)
(* its root.  Every operation first changes the working tree through the   *)
(* local engine (LocalEngine; one step here) and then, under a mutex, adds *)
(* its paths to the index, asks whether they differ from HEAD, and commits.*)
(* git failures are logged and swallowed.                                  *)
(*                                                                         *)
(* A request can also end before its commit: the inner engine fails with   *)
(* the change made or cut short, git refuses the paths, a command fails, or*)
(* the process stops. What it wrote stays behind, for a later commit.      *)
(*                                                                         *)
(* A version of a note is its text, the user who wrote it there, and       *)
(* whether that user's request has ended without committing it.            *)
(***************************************************************************)
EXTENDS Naturals, Sequences, FiniteSets

CONSTANTS
    Users,       \* acting users; each has one request at a time
    Notes,       \* paths of notes
    Texts,       \* texts of notes
    Absent, None,
    Cut,         \* text of a note whose save was cut short
    System,      \* serviceUserName, author of the initial commit
    Requests,    \* requests users make
    MaxCalls,    \* bound on the number of requests
    Existing,    \* notes on the volume before git mode is turned on
    Faults       \* changes and git commands may fail, the process may stop

ASSUME GitAssumption ==
    /\ MaxCalls \in Nat /\ Faults \in BOOLEAN
    /\ Existing \subseteq Notes /\ Absent \notin Texts \cup {Cut}
    /\ System \notin Users
    /\ Requests \subseteq [op : {"save"}, path : Notes, text : Texts]
                     \cup [op : {"delete"}, path : Notes]
                     \cup [op : {"rename"}, from : Notes, path : Notes]

VARIABLES
    tree,        \* version of each note in the working tree
    index, head, \* the same for git's index and for HEAD
    repo,        \* .git exists
    boot,        \* next step of bootstrap, or "up"
    mu,          \* e.mu is locked
    pc, req,     \* what each user's request does, and which it is
    commits,     \* commits made
    faulted,     \* history: a command has failed or the process has stopped
    calls

files == <<tree, index, head, repo, commits>>
vars == <<files, faulted, boot, mu, pc, req, calls>>

Version(text, user) == [text |-> text, by |-> user, left |-> FALSE]
Nothing == [p \in Notes |-> Version(Absent, System)]
Present(area, p) == area[p].text # Absent
Differs(p) == index[p].text # head[p].text

\* The paths an operation hands to commitChange.
PathsOf(r) == IF r.op = "rename" THEN {r.from, r.path} ELSE {r.path}

\* The request of u has changed p and has still to commit it.
Owes(u, p) == pc[u] \in {"lock", "add", "diff", "commit"} /\ p \in PathsOf(req[u])

\* The area, after requests of these users (or bootstrap) have ended halfway.
LeftBehind(area, users) ==
    [p \in Notes |->
        IF \/ \E u \in users : Owes(u, p) /\ area[p].by = u
           \/ boot \in {"add", "commit"}
          THEN [area[p] EXCEPT !.left = TRUE] ELSE area[p]]

Init ==
    /\ tree \in [Notes -> {Version(Absent, System)}
                            \cup {Version(x, System) : x \in Texts}]
    /\ \A p \in Notes : Present(tree, p) <=> p \in Existing
    /\ index = Nothing /\ head = Nothing /\ repo = FALSE
    /\ boot = "stat" /\ mu = FALSE
    /\ pc = [u \in Users |-> "idle"]
    /\ req = [u \in Users |-> None]
    /\ commits = <<>> /\ calls = 0
    /\ faulted = FALSE

\* git commit takes the whole index, whatever was added for it.
Commit(author, own) ==
    /\ commits' = Append(commits,
         [author |-> author, own |-> own,
          changed |-> {p \in Notes : Differs(p)},
          by |-> {index[p].by : p \in {q \in Notes : Differs(q) /\ ~index[q].left}},
          waiting |-> {w \in Users : pc[w] = "lock"}])
    /\ head' = index

-----------------------------------------------------------------------------
(* bootstrap *)

\* Nothing is done if .git is there.
Stat ==
    /\ boot = "stat"
    /\ boot' = IF repo THEN "up" ELSE "init"
    /\ UNCHANGED <<files, faulted, mu, pc, req, calls>>

GitInit ==
    /\ boot = "init"
    /\ repo' = TRUE /\ boot' = "add"
    /\ UNCHANGED <<tree, index, head, commits, faulted, mu, pc, req, calls>>

AddAll ==
    /\ boot = "add"
    /\ index' = tree /\ boot' = "commit"
    /\ UNCHANGED <<tree, head, repo, commits, faulted, mu, pc, req, calls>>

InitialCommit ==
    /\ boot = "commit"
    /\ Commit(System, Notes) /\ boot' = "up"
    /\ UNCHANGED <<tree, index, repo, faulted, mu, pc, req, calls>>

\* The process ends (or a command of bootstrap fails, and main exits); it is
\* started again.
Restart ==
    /\ Faults /\ boot # "stat"
    /\ faulted' = TRUE
    /\ boot' = "stat" /\ mu' = FALSE
    /\ pc' = [u \in Users |-> "idle"]
    /\ req' = [u \in Users |-> None]
    /\ tree' = LeftBehind(tree, Users) /\ index' = LeftBehind(index, Users)
    /\ UNCHANGED <<head, repo, commits, calls>>

-----------------------------------------------------------------------------
(* Save, Delete, Rename: the change itself *)

Goto(u, label) == pc' = [pc EXCEPT ![u] = label]

Call(u) ==
    /\ boot = "up" /\ pc[u] = "idle" /\ calls < MaxCalls
    /\ \E r \in Requests : req' = [req EXCEPT ![u] = r]
    /\ Goto(u, "change") /\ calls' = calls + 1
    /\ UNCHANGED <<files, faulted, boot, mu>>

\* Variant: the whole version is stored where the text belongs.
ChangedNested(u) ==
    LET r == req[u] IN
    CASE r.op = "save"   -> [tree EXCEPT ![r.path] = Version(r.text, u)]
      [] r.op = "delete" -> [tree EXCEPT ![r.path] = Version(Absent, u)]
      [] r.op = "rename" -> [tree EXCEPT ![r.path] = Version(tree[r.from], u),
                                         ![r.from] = Version(Absent, u)]

\* What the inner engine leaves in the working tree.
Changed(u) ==
    LET r == req[u] IN
    CASE r.op = "save"   -> [tree EXCEPT ![r.path] = Version(r.text, u)]
      [] r.op = "delete" -> [tree EXCEPT ![r.path] = Version(Absent, u)]
      [] r.op = "rename" -> [tree EXCEPT ![r.path] = Version(tree[r.from].text, u),
                                         ![r.from] = Version(Absent, u)]

\* The note is there, and the target of a rename is not.
Possible(r) ==
    /\ r.op = "delete" => Present(tree, r.path)
    /\ r.op = "rename" => Present(tree, r.from) /\ ~Present(tree, r.path)

Change(u) ==
    /\ pc[u] = "change" /\ Possible(req[u])
    /\ tree' = Changed(u) /\ Goto(u, "lock")
    /\ UNCHANGED <<index, head, repo, commits, faulted, boot, mu, req, calls>>

-----------------------------------------------------------------------------
(* commitChange *)

Lock(u) ==
    /\ pc[u] = "lock" /\ ~mu
    /\ mu' = TRUE /\ Goto(u, "add")
    /\ UNCHANGED <<files, faulted, boot, req, calls>>

\* git refuses, before it adds anything, a path that is in neither the
\* working tree nor the index.
Matches(paths) == \A p \in paths : Present(tree, p) \/ Present(index, p)

\* git add -A -- paths
Add(u) ==
    LET paths == PathsOf(req[u]) IN
    /\ pc[u] = "add" /\ Matches(paths)
    /\ index' = [p \in Notes |-> IF p \in paths THEN tree[p] ELSE index[p]]
    /\ Goto(u, "diff")
    /\ UNCHANGED <<tree, head, repo, commits, faulted, boot, mu, req, calls>>

\* Variant: exit code 1 taken for "no difference".
DirtyInverted(u) == \A p \in PathsOf(req[u]) : ~Differs(p)

\* git diff --cached --quiet -- paths
Dirty(u) == \E p \in PathsOf(req[u]) : Differs(p)

Diff(u) ==
    /\ pc[u] = "diff" /\ Dirty(u)
    /\ Goto(u, "commit")
    /\ UNCHANGED <<files, faulted, boot, mu, req, calls>>

\* commitChange returns.
Return(u) ==
    /\ Goto(u, "idle") /\ req' = [req EXCEPT ![u] = None] /\ mu' = FALSE

\* Variant: everything goes into the commit, in the working tree's state.
CommitAll(u) ==
    /\ pc[u] = "commit"
    /\ commits' = Append(commits,
         [author |-> u, own |-> PathsOf(req[u]),
          changed |-> {p \in Notes : tree[p].text # head[p].text},
          by |-> {u}, waiting |-> {}])
    /\ head' = tree /\ index' = tree
    /\ Return(u) /\ UNCHANGED <<tree, repo, faulted, boot, calls>>

\* Variant: the author is not set, and git takes the service's name.
CommitUnsigned(u) ==
    /\ pc[u] = "commit"
    /\ Commit(System, PathsOf(req[u]))
    /\ Return(u) /\ UNCHANGED <<tree, index, repo, faulted, boot, calls>>

GitCommit(u) ==
    /\ pc[u] = "commit"
    /\ Commit(u, PathsOf(req[u]))
    /\ Return(u) /\ UNCHANGED <<tree, index, repo, faulted, boot, calls>>

\* The inner engine refuses the change: the note is missing, or in the way.
ChangeFails(u) ==
    /\ pc[u] = "change"
    /\ Goto(u, "idle") /\ req' = [req EXCEPT ![u] = None]
    /\ UNCHANGED <<files, faulted, boot, mu, calls>>

\* The inner engine fails halfway and nothing is committed: a save has emptied
\* the file and could not write it, or a panic of audit.Record ends the request
\* after the change.
ChangeBreaks(u) ==
    LET r == req[u] IN
    /\ Faults /\ pc[u] = "change"
    /\ \/ /\ r.op = "save"
          /\ tree' = [tree EXCEPT ![r.path] = [Version(Cut, u) EXCEPT !.left = TRUE]]
       \/ /\ Possible(r)
          /\ tree' = [p \in Notes |-> IF p \in PathsOf(r)
                                        THEN [Changed(u)[p] EXCEPT !.left = TRUE]
                                        ELSE tree[p]]
    /\ Goto(u, "idle") /\ req' = [req EXCEPT ![u] = None]
    /\ UNCHANGED <<index, head, repo, commits, faulted, boot, mu, calls>>

\* commitChange returns without a commit; what was added stays added.
GiveUp(u) ==
    /\ tree' = LeftBehind(tree, {u}) /\ index' = LeftBehind(index, {u})
    /\ Return(u) /\ UNCHANGED <<head, repo, commits, boot, calls>>

AddRefused(u) ==
    /\ pc[u] = "add" /\ ~Matches(PathsOf(req[u]))
    /\ GiveUp(u) /\ UNCHANGED faulted

NothingToCommit(u) ==
    /\ pc[u] = "diff" /\ ~Dirty(u)
    /\ Return(u) /\ UNCHANGED <<files, faulted, boot, calls>>

\* A command fails, and the failure is logged.
CommandFails(u) ==
    /\ Faults /\ pc[u] \in {"add", "diff", "commit"}
    /\ faulted' = TRUE
    /\ GiveUp(u)

Next ==
    \/ Stat \/ GitInit \/ AddAll \/ InitialCommit \/ Restart
    \/ \E u \in Users :
         \/ Call(u) \/ Change(u) \/ Lock(u) \/ Add(u) \/ Diff(u)
         \/ GitCommit(u) \/ ChangeFails(u) \/ ChangeBreaks(u)
         \/ AddRefused(u) \/ NothingToCommit(u) \/ CommandFails(u)

Spec == Init /\ [][Next]_vars

-----------------------------------------------------------------------------
(* Properties *)

Versions == [text : Texts \cup {Absent, Cut}, by : Users \cup {System}, left : BOOLEAN]

TypeOK ==
    /\ tree \in [Notes -> Versions] /\ index \in [Notes -> Versions]
    /\ head \in [Notes -> Versions]
    /\ repo \in BOOLEAN /\ mu \in BOOLEAN
    /\ boot \in {"stat", "init", "add", "commit", "up"}
    /\ pc \in [Users -> {"idle", "change", "lock", "add", "diff", "commit"}]
    /\ req \in [Users -> {None} \cup Requests]
    /\ commits \in Seq([author : Users \cup {System}, own : SUBSET Notes,
                        changed : SUBSET Notes, by : SUBSET (Users \cup {System}),
                        waiting : SUBSET Users])
    /\ faulted \in BOOLEAN
    /\ calls \in 0 .. MaxCalls

\* A commit holds only the paths of the operation it is made for: an
\* unrelated concurrent write is never swept into it (git.go:138-140).  A
\* command that failed may have left other paths in the index.
OnlyOwnPaths ==
    ~faulted =>
      \A i \in DOMAIN commits : commits[i].changed \subseteq commits[i].own

\* A commit is made only where the operation's own paths differ from HEAD,
\* never for nothing (git.go:157-163), restarts and failed commands included.
NoEmptyCommits ==
    \A i \in DOMAIN commits :
      commits[i].author # System => commits[i].changed \cap commits[i].own # {}

\* Every change is committed (git.go:1-5): HEAD has each note as the working tree
\* has it, unless a request that wrote to it has still to commit, or the request
\* that wrote what is there ended before its commit: the inner engine failed
\* halfway, git refused its paths, a command failed, or the process stopped.
CommittedUnlessPending ==
    boot = "up" =>
      \A p \in Notes :
        tree[p].text = head[p].text \/ tree[p].left \/ \E u \in Users : Owes(u, p)

\* "git log still shows who really made each change" (git.go:29-32, 191-193), as
\* far as it goes: where a commit holds a change of someone other than its
\* author, that user had a request of his own waiting for the mutex at that
\* moment, or his request had ended before its commit, as above.
WrongAuthorsWereWaiting ==
    \A i \in DOMAIN commits :
      commits[i].by \subseteq {commits[i].author} \cup commits[i].waiting
=============================================================================
