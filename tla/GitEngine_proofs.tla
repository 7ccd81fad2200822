-------------------------- MODULE GitEngine_proofs --------------------------
(* Theorems about GitEngine. *)
EXTENDS GitEngine, SequenceTheorems, TLAPS

Inside(u) == pc[u] \in {"add", "diff", "commit"}

\* A request under way is one of Requests; none is before bootstrap is over.
Asked ==
    /\ boot # "up" => \A u \in Users : pc[u] = "idle"
    /\ \A u \in Users : pc[u] # "idle" => req[u] \in Requests

Types == TypeOK /\ Asked

\* e.mu: one request at a time is inside commitChange.
OneInside ==
    \A u \in Users : Inside(u) =>
      mu /\ \A v \in Users : Inside(v) => v = u

\* What is staged belongs to the request inside, unless a command has failed.
Staged ==
    ~faulted => \A p \in Notes : Differs(p) =>
      \/ boot = "commit"
      \/ \E u \in Users : pc[u] \in {"diff", "commit"} /\ p \in PathsOf(req[u])

\* The request that is about to commit has seen a difference.
Seen == \A u \in Users : pc[u] = "commit" => Dirty(u)

IInv ==
    /\ Types /\ OneInside /\ Staged /\ Seen
    /\ OnlyOwnPaths /\ NoEmptyCommits

Waits(u, p) == pc[u] = "lock" /\ p \in PathsOf(req[u])

\* The repository has been initialised, or bootstrap finds the tree as it was.
Early == boot \in {"init", "add", "commit"} \/ (boot = "stat" /\ ~repo)

\* Bootstrap commits the tree as the service found it.
Bootstrap ==
    /\ boot = "init" => ~repo
    /\ boot \in {"add", "commit", "up"} => repo
    /\ boot = "commit" => index = tree
    /\ Early => \A p \in Notes : tree[p].by = System

\* A version that HEAD does not have, or that differs from what is staged, was
\* left behind, or its author has still to commit it.
Ahead ==
    boot = "up" \/ (boot = "stat" /\ repo) => \A p \in Notes :
      \/ tree[p].left
      \/ \E u \in Users : Owes(u, p) /\ tree[p].by = u
      \/ tree[p].text = head[p].text /\ index[p].text = head[p].text

\* What the request inside has added is the tree's text, or the user who
\* changed it since waits for the mutex or has left it behind.
Added ==
    \A u \in Users : pc[u] \in {"diff", "commit"} =>
      \A p \in PathsOf(req[u]) :
        \/ tree[p].left \/ index[p].text = tree[p].text
        \/ \E w \in Users : Waits(w, p) /\ tree[p].by = w

\* What is staged was left behind, or its author has still to commit it.
Authors ==
    \A p \in Notes : Differs(p) =>
      \/ index[p].left
      \/ \E w \in Users : Owes(w, p) /\ index[p].by = w
      \/ boot = "commit" /\ index[p].by = System

HistoryInv == IInv /\ Bootstrap /\ Ahead /\ Added /\ Authors

-----------------------------------------------------------------------------

LEMMA Paths ==
    ASSUME NEW r \in Requests PROVE PathsOf(r) \in SUBSET Notes
BY GitAssumption DEF PathsOf

LEMMA VersionType ==
    ASSUME NEW x \in Texts \cup {Absent, Cut}, NEW u \in Users \cup {System}
    PROVE  Version(x, u) \in Versions
BY DEF Version, Versions

\* What is left behind keeps its text and its author.
LEMMA LeftBehindIs ==
    ASSUME NEW area \in [Notes -> Versions], NEW users
    PROVE  /\ LeftBehind(area, users) \in [Notes -> Versions]
           /\ \A p \in Notes :
                /\ LeftBehind(area, users)[p].text = area[p].text
                /\ LeftBehind(area, users)[p].by = area[p].by
                /\ area[p].left => LeftBehind(area, users)[p].left
                /\ (\E u \in users : Owes(u, p) /\ area[p].by = u)
                     \/ boot \in {"add", "commit"} => LeftBehind(area, users)[p].left
<1> SUFFICES ASSUME NEW p \in Notes
             PROVE  /\ LeftBehind(area, users)[p] \in Versions
                    /\ LeftBehind(area, users)[p].text = area[p].text
                    /\ LeftBehind(area, users)[p].by = area[p].by
                    /\ area[p].left => LeftBehind(area, users)[p].left
                    /\ (\E u \in users : Owes(u, p) /\ area[p].by = u)
                         \/ boot \in {"add", "commit"} => LeftBehind(area, users)[p].left
  BY DEF LeftBehind
<1>1. area[p] \in Versions
  OBVIOUS
<1>2. LET marked == [area[p] EXCEPT !.left = TRUE]
      IN  /\ marked \in Versions /\ marked.left
          /\ marked.text = area[p].text /\ marked.by = area[p].by
  BY <1>1 DEF Versions
<1>3. \/ LeftBehind(area, users)[p] = [area[p] EXCEPT !.left = TRUE]
      \/ /\ LeftBehind(area, users)[p] = area[p]
         /\ ~(\E u \in users : Owes(u, p) /\ area[p].by = u)
         /\ boot \notin {"add", "commit"}
  BY DEF LeftBehind
<1> QED
  BY <1>1, <1>2, <1>3

LEMMA NothingType == Nothing \in [Notes -> Versions]
BY VersionType DEF Nothing

LEMMA Initially == Init => IInv
<1> SUFFICES ASSUME Init PROVE IInv
  OBVIOUS
<1>1. tree \in [Notes -> Versions]
  <2>1. {Version(Absent, System)} \cup {Version(x, System) : x \in Texts}
          \subseteq Versions
    BY VersionType
  <2> QED BY <2>1 DEF Init
<1>2. TypeOK
  <2>1. commits \in Seq([author : Users \cup {System}, own : SUBSET Notes,
                        changed : SUBSET Notes, by : SUBSET (Users \cup {System}),
                        waiting : SUBSET Users])
    BY EmptySeq DEF Init
  <2>2. /\ index \in [Notes -> Versions] /\ head \in [Notes -> Versions]
        /\ calls \in 0 .. MaxCalls
    BY NothingType, GitAssumption DEF Init
  <2> QED BY <1>1, <2>1, <2>2 DEF Init, TypeOK
<1>3. Asked /\ OneInside /\ Seen
  BY DEF Init, Asked, OneInside, Inside, Seen
<1>4. Staged
  BY DEF Init, Staged, Differs
<1>5. OnlyOwnPaths /\ NoEmptyCommits
  BY DEF Init, OnlyOwnPaths, NoEmptyCommits
<1> QED
  BY <1>2, <1>3, <1>4, <1>5 DEF IInv, Types

CommitRecords ==
    [author : Users \cup {System}, own : SUBSET Notes, changed : SUBSET Notes,
     by : SUBSET (Users \cup {System}), waiting : SUBSET Users]

\* The commit git makes of the index.
Made(author, own) ==
    [author |-> author, own |-> own,
     changed |-> {p \in Notes : Differs(p)},
     by |-> {index[p].by : p \in {q \in Notes : Differs(q) /\ ~index[q].left}},
     waiting |-> {w \in Users : pc[w] = "lock"}]

LEMMA MadeType ==
    ASSUME TypeOK, NEW author \in Users \cup {System}, NEW own \in SUBSET Notes
    PROVE  Made(author, own) \in CommitRecords
<1>1. {index[p].by : p \in {q \in Notes : Differs(q) /\ ~index[q].left}}
        \in SUBSET (Users \cup {System})
  BY DEF TypeOK, Versions
<1> QED
  BY <1>1 DEF Made, CommitRecords

\* The commits after one more.
LEMMA CommitType ==
    ASSUME TypeOK, NEW author \in Users \cup {System}, NEW own \in SUBSET Notes
    PROVE  LET s == Append(commits, Made(author, own))
           IN  /\ s \in Seq(CommitRecords)
               /\ \A i \in DOMAIN s :
                    \/ i \in DOMAIN commits /\ s[i] = commits[i]
                    \/ s[i] = Made(author, own)
<1>1. commits \in Seq(CommitRecords) /\ Made(author, own) \in CommitRecords
  BY MadeType DEF TypeOK, CommitRecords
<1> QED
  BY <1>1, AppendProperties, LenProperties

LEMMA ChangedType ==
    ASSUME Types, NEW u \in Users, pc[u] = "change"
    PROVE  Changed(u) \in [Notes -> Versions]
<1>1. req[u] \in Requests
  BY DEF Types, Asked
<1>2. /\ tree \in [Notes -> Versions]
      /\ Version(Absent, u) \in Versions
      /\ \A p \in Notes : tree[p].text \in Texts \cup {Absent, Cut}
  BY VersionType DEF Types, TypeOK, Versions
<1>3. CASE req[u] \in [op : {"save"}, path : Notes, text : Texts]
  <2>1. Version(req[u].text, u) \in Versions
    BY <1>3, VersionType
  <2>2. Changed(u) = [tree EXCEPT ![req[u].path] = Version(req[u].text, u)]
    BY <1>3 DEF Changed
  <2> QED BY <1>2, <1>3, <2>1, <2>2
<1>4. CASE req[u] \in [op : {"delete"}, path : Notes]
  <2>1. Changed(u) = [tree EXCEPT ![req[u].path] = Version(Absent, u)]
    BY <1>4 DEF Changed
  <2> QED BY <1>2, <1>4, <2>1
<1>5. CASE req[u] \in [op : {"rename"}, from : Notes, path : Notes]
  <2>1. Version(tree[req[u].from].text, u) \in Versions
    BY <1>2, <1>5, VersionType
  <2>2. Changed(u) =
          [tree EXCEPT ![req[u].path] = Version(tree[req[u].from].text, u),
                       ![req[u].from] = Version(Absent, u)]
    BY <1>5 DEF Changed
  <2> QED BY <1>2, <1>5, <2>1, <2>2
<1> QED
  BY <1>1, <1>3, <1>4, <1>5, GitAssumption

LEMMA BrokenType ==
    ASSUME Types, NEW u \in Users, ChangeBreaks(u)
    PROVE  tree' \in [Notes -> Versions]
<1>1. pc[u] = "change" /\ req[u] \in Requests /\ tree \in [Notes -> Versions]
  BY DEF ChangeBreaks, Types, TypeOK, Asked
<1>2. \A v \in Versions : [v EXCEPT !.left = TRUE] \in Versions
  BY DEF Versions
<1>3. CASE tree' = [tree EXCEPT ![req[u].path] = [Version(Cut, u) EXCEPT !.left = TRUE]]
  <2>1. Version(Cut, u) \in Versions
    BY VersionType
  <2> QED BY <1>1, <1>2, <1>3, <2>1
<1>4. CASE tree' = [p \in Notes |-> IF p \in PathsOf(req[u])
                                     THEN [Changed(u)[p] EXCEPT !.left = TRUE]
                                     ELSE tree[p]]
  <2>1. \A p \in Notes : Changed(u)[p] \in Versions
    BY <1>1, ChangedType
  <2> QED BY <1>1, <1>2, <1>4, <2>1
<1> QED
  BY <1>3, <1>4 DEF ChangeBreaks

LEMMA TypesNext ==
    ASSUME Types, [Next]_vars PROVE Types'
<1> USE GitAssumption DEF Types, TypeOK, Asked, files, Goto, Return
<1>1. CASE Stat \/ GitInit \/ AddAll
  BY <1>1 DEF Stat, GitInit, AddAll
<1>2. CASE InitialCommit
  <2>1. commits' = Append(commits, Made(System, Notes)) /\ head' = index
    BY <1>2 DEF InitialCommit, Commit, Made
  <2>2. commits' \in Seq(CommitRecords)
    BY <2>1, CommitType
  <2> QED BY <1>2, <2>1, <2>2 DEF InitialCommit, CommitRecords
<1>3. CASE Restart
  <2>1. tree' \in [Notes -> Versions] /\ index' \in [Notes -> Versions]
    BY <1>3, LeftBehindIs DEF Restart
  <2> QED BY <1>3, <2>1 DEF Restart
<1>4. ASSUME NEW u \in Users, Call(u) PROVE Types'
  BY <1>4 DEF Call
<1>5. ASSUME NEW u \in Users, Change(u) PROVE Types'
  BY <1>5, ChangedType DEF Change
<1>6. ASSUME NEW u \in Users, Lock(u) PROVE Types'
  BY <1>6 DEF Lock
<1>7. ASSUME NEW u \in Users, Add(u) PROVE Types'
  BY <1>7 DEF Add
<1>8. ASSUME NEW u \in Users, Diff(u) PROVE Types'
  BY <1>8 DEF Diff
<1>9. ASSUME NEW u \in Users, GitCommit(u) PROVE Types'
  <2>1. commits' = Append(commits, Made(u, PathsOf(req[u]))) /\ head' = index
    BY <1>9 DEF GitCommit, Commit, Made
  <2>2. PathsOf(req[u]) \in SUBSET Notes
    BY <1>9, Paths DEF GitCommit
  <2>3. commits' \in Seq(CommitRecords)
    BY <2>1, <2>2, CommitType
  <2> QED BY <1>9, <2>1, <2>3 DEF GitCommit, CommitRecords
<1>10. ASSUME NEW u \in Users, ChangeFails(u) PROVE Types'
  BY <1>10 DEF ChangeFails
<1>11. ASSUME NEW u \in Users, AddRefused(u) \/ CommandFails(u) PROVE Types'
  <2>1. GiveUp(u) /\ (faulted' = faulted \/ faulted' = TRUE)
    BY <1>11 DEF AddRefused, CommandFails
  <2>2. tree' \in [Notes -> Versions] /\ index' \in [Notes -> Versions]
    BY <2>1, LeftBehindIs DEF GiveUp
  <2> QED BY <1>11, <2>1, <2>2 DEF GiveUp, AddRefused, CommandFails
<1>12. ASSUME NEW u \in Users, NothingToCommit(u) PROVE Types'
  BY <1>12 DEF NothingToCommit
<1>13. ASSUME NEW u \in Users, ChangeBreaks(u) PROVE Types'
  <2>1. tree' \in [Notes -> Versions]
    BY <1>13, BrokenType DEF ChangeBreaks
  <2> QED BY <1>13, <2>1 DEF ChangeBreaks
<1>14. CASE UNCHANGED vars
  BY <1>14 DEF vars
<1> QED
  BY <1>1, <1>2, <1>3, <1>4, <1>5, <1>6, <1>7, <1>8, <1>9, <1>10, <1>11,
     <1>12, <1>13, <1>14 DEF Next

LEMMA OneInsideNext ==
    ASSUME Types, OneInside, [Next]_vars PROVE OneInside'
<1> USE DEF Types, TypeOK, OneInside, Inside, Goto, Return
<1>1. CASE Stat \/ GitInit \/ AddAll \/ InitialCommit \/ Restart
  BY <1>1 DEF Stat, GitInit, AddAll, InitialCommit, Restart
<1>2. ASSUME NEW u \in Users,
             Call(u) \/ Change(u) \/ Lock(u) \/ Add(u) \/ Diff(u)
      PROVE  OneInside'
  BY <1>2 DEF Call, Change, Lock, Add, Diff
<1>3. ASSUME NEW u \in Users,
             \/ GitCommit(u) \/ ChangeFails(u) \/ ChangeBreaks(u) \/ AddRefused(u)
             \/ NothingToCommit(u) \/ CommandFails(u)
      PROVE  OneInside'
  BY <1>3 DEF GitCommit, ChangeFails, ChangeBreaks, AddRefused, NothingToCommit,
              CommandFails, GiveUp
<1>4. CASE UNCHANGED vars
  BY <1>4 DEF vars
<1> QED
  BY <1>1, <1>2, <1>3, <1>4 DEF Next

\* A request inside commitChange that has not added yet, or is found to have
\* nothing to commit, is there with nothing staged.
LEMMA NothingStaged ==
    ASSUME Types, OneInside, Staged, ~faulted, NEW u \in Users,
           pc[u] = "add" \/ (pc[u] = "diff" /\ ~Dirty(u)), NEW p \in Notes
    PROVE  ~Differs(p)
BY DEF Types, Asked, OneInside, Inside, Staged, Dirty

LEMMA StagedNext ==
    ASSUME Types, OneInside, Staged, [Next]_vars PROVE Staged'
<1> USE DEF Types, TypeOK, Asked, Goto, Return, files
<1> SUFFICES ASSUME ~faulted', NEW p \in Notes, Differs(p)'
             PROVE  \/ boot' = "commit"
                    \/ \E u \in Users : pc'[u] \in {"diff", "commit"}
                                      /\ p \in PathsOf(req'[u])
  BY DEF Staged
<1>0. ~faulted
  BY DEF Next, Stat, GitInit, AddAll, InitialCommit, Restart, Call, Change, Lock,
         Add, Diff, GitCommit, ChangeFails, ChangeBreaks, AddRefused, NothingToCommit,
         CommandFails, vars
<1>1. CASE Stat \/ GitInit \/ AddAll \/ InitialCommit \/ Restart
  BY <1>0, <1>1 DEF Stat, GitInit, AddAll, InitialCommit, Restart, Commit,
                    Differs, Staged
<1>2. ASSUME NEW u \in Users,
             \/ Call(u) \/ Change(u) \/ Lock(u) \/ Diff(u) \/ ChangeFails(u)
             \/ ChangeBreaks(u)
      PROVE  \E v \in Users : pc'[v] \in {"diff", "commit"}
                            /\ p \in PathsOf(req'[v])
  <2>1. UNCHANGED <<index, head>> /\ boot = "up"
    BY <1>2 DEF Call, Change, Lock, Diff, ChangeFails, ChangeBreaks
  <2>2. PICK v \in Users : pc[v] \in {"diff", "commit"} /\ p \in PathsOf(req[v])
    BY <1>0, <2>1 DEF Staged, Differs
  <2>3. pc'[v] \in {"diff", "commit"} /\ req'[v] = req[v]
    BY <1>2, <2>2 DEF Call, Change, Lock, Diff, ChangeFails, ChangeBreaks
  <2> QED BY <2>2, <2>3
<1>3. ASSUME NEW u \in Users, Add(u)
      PROVE  \E v \in Users : pc'[v] \in {"diff", "commit"}
                            /\ p \in PathsOf(req'[v])
  <2>1. ~Differs(p)
    BY <1>0, <1>3, NothingStaged DEF Add
  <2>2. p \in PathsOf(req[u])
    BY <1>3, <2>1 DEF Add, Differs
  <2>3. pc'[u] = "diff" /\ req'[u] = req[u]
    BY <1>3 DEF Add
  <2> QED BY <2>2, <2>3
<1>4. ASSUME NEW u \in Users, GitCommit(u) PROVE FALSE
  BY <1>4 DEF GitCommit, Commit, Differs
<1>5. ASSUME NEW u \in Users, AddRefused(u) \/ NothingToCommit(u) PROVE FALSE
  <2>1. ~Differs(p)
    BY <1>0, <1>5, NothingStaged DEF AddRefused, NothingToCommit
  <2>2. head' = head /\ index'[p].text = index[p].text
    BY <1>5, LeftBehindIs DEF AddRefused, NothingToCommit, GiveUp
  <2> QED BY <2>1, <2>2 DEF Differs
<1>6. ASSUME NEW u \in Users, CommandFails(u) PROVE FALSE
  BY <1>6 DEF CommandFails
<1>7. CASE UNCHANGED vars
  BY <1>0, <1>7 DEF vars, Staged, Differs
<1> QED
  BY <1>1, <1>2, <1>3, <1>4, <1>5, <1>6, <1>7 DEF Next

LEMMA SeenNext ==
    ASSUME Types, OneInside, Seen, [Next]_vars PROVE Seen'
<1> USE DEF Types, TypeOK, Asked, Goto, Return, files
<1> SUFFICES ASSUME NEW v \in Users, pc'[v] = "commit" PROVE Dirty(v)'
  BY DEF Seen
<1>1. CASE Stat \/ GitInit \/ AddAll \/ InitialCommit \/ Restart
  BY <1>1 DEF Stat, GitInit, AddAll, InitialCommit, Restart
<1>2. ASSUME NEW u \in Users,
             \/ Call(u) \/ Change(u) \/ Lock(u) \/ ChangeFails(u) \/ ChangeBreaks(u)
             \/ NothingToCommit(u)
      PROVE  Dirty(v)'
  <2>1. UNCHANGED <<index, head>> /\ pc[v] = "commit" /\ req'[v] = req[v]
    BY <1>2 DEF Call, Change, Lock, ChangeFails, ChangeBreaks, NothingToCommit
  <2> QED BY <2>1 DEF Seen, Dirty, Differs
<1>3. ASSUME NEW u \in Users, Diff(u) PROVE Dirty(v)'
  <2>1. UNCHANGED <<index, head, req>> /\ (v = u \/ pc[v] = "commit") /\ Dirty(u)
    BY <1>3 DEF Diff
  <2> QED BY <2>1 DEF Seen, Dirty, Differs
<1>4. ASSUME NEW u \in Users,
             Add(u) \/ GitCommit(u) \/ AddRefused(u) \/ CommandFails(u)
      PROVE  FALSE
  BY <1>4 DEF Add, GitCommit, AddRefused, CommandFails, GiveUp, OneInside, Inside
<1>5. CASE UNCHANGED vars
  BY <1>5 DEF vars, Seen, Dirty, Differs
<1> QED
  BY <1>1, <1>2, <1>3, <1>4, <1>5 DEF Next

\* What a step can add to the history.
LEMMA NewCommit ==
    ASSUME Types, [Next]_vars
    PROVE  /\ faulted => faulted'
           /\ \/ UNCHANGED commits
              \/ boot = "commit"
                 /\ commits' = Append(commits, Made(System, Notes))
              \/ \E u \in Users :
                   /\ pc[u] = "commit"
                   /\ commits' = Append(commits, Made(u, PathsOf(req[u])))
<1> USE DEF files, Return
<1>1. CASE Stat \/ GitInit \/ AddAll \/ Restart
  BY <1>1 DEF Stat, GitInit, AddAll, Restart
<1>2. CASE InitialCommit
  BY <1>2 DEF InitialCommit, Commit, Made
<1>3. ASSUME NEW u \in Users,
             \/ Call(u) \/ Change(u) \/ Lock(u) \/ Add(u) \/ Diff(u)
             \/ ChangeFails(u) \/ ChangeBreaks(u) \/ AddRefused(u)
             \/ NothingToCommit(u) \/ CommandFails(u)
      PROVE  UNCHANGED commits /\ (faulted => faulted')
  BY <1>3 DEF Call, Change, Lock, Add, Diff, ChangeFails, ChangeBreaks, AddRefused,
              NothingToCommit, CommandFails, GiveUp
<1>4. ASSUME NEW u \in Users, GitCommit(u)
      PROVE  /\ pc[u] = "commit" /\ faulted' = faulted
             /\ commits' = Append(commits, Made(u, PathsOf(req[u])))
  BY <1>4 DEF GitCommit, Commit, Made
<1>5. CASE UNCHANGED vars
  BY <1>5 DEF vars
<1> QED
  BY <1>1, <1>2, <1>3, <1>4, <1>5 DEF Next

LEMMA OnlyOwnPathsNext ==
    ASSUME Types, Staged, OneInside, OnlyOwnPaths, [Next]_vars
    PROVE  OnlyOwnPaths'
<1> SUFFICES ASSUME ~faulted', NEW i \in DOMAIN commits'
             PROVE  commits'[i].changed \subseteq commits'[i].own
  BY DEF OnlyOwnPaths
<1>0. ~faulted
  BY NewCommit
<1>1. CASE UNCHANGED commits
  BY <1>0, <1>1 DEF OnlyOwnPaths
<1>2. CASE commits' = Append(commits, Made(System, Notes))
  <2>1. \/ i \in DOMAIN commits /\ commits'[i] = commits[i]
        \/ commits'[i] = Made(System, Notes)
    BY <1>2, CommitType DEF Types
  <2>2. Made(System, Notes).changed \subseteq Made(System, Notes).own
    BY DEF Made
  <2> QED BY <1>0, <2>1, <2>2 DEF OnlyOwnPaths
<1>3. ASSUME NEW u \in Users, pc[u] = "commit",
             commits' = Append(commits, Made(u, PathsOf(req[u])))
      PROVE  commits'[i].changed \subseteq commits'[i].own
  <2>0. PathsOf(req[u]) \in SUBSET Notes
    BY <1>3, Paths DEF Types, Asked
  <2>1. \/ i \in DOMAIN commits /\ commits'[i] = commits[i]
        \/ commits'[i] = Made(u, PathsOf(req[u]))
    BY <1>3, <2>0, CommitType DEF Types
  <2>2. \A p \in Notes : Differs(p) => p \in PathsOf(req[u])
    BY <1>0, <1>3 DEF Types, Asked, Staged, OneInside, Inside
  <2>3. Made(u, PathsOf(req[u])).changed \subseteq Made(u, PathsOf(req[u])).own
    BY <2>2 DEF Made
  <2> QED BY <1>0, <2>1, <2>3 DEF OnlyOwnPaths
<1> QED
  BY <1>1, <1>2, <1>3, NewCommit

LEMMA NoEmptyCommitsNext ==
    ASSUME Types, Seen, NoEmptyCommits, [Next]_vars PROVE NoEmptyCommits'
<1> SUFFICES ASSUME NEW i \in DOMAIN commits', commits'[i].author # System
             PROVE  commits'[i].changed \cap commits'[i].own # {}
  BY DEF NoEmptyCommits
<1>1. CASE UNCHANGED commits
  BY <1>1 DEF NoEmptyCommits
<1>2. CASE commits' = Append(commits, Made(System, Notes))
  <2>1. \/ i \in DOMAIN commits /\ commits'[i] = commits[i]
        \/ commits'[i] = Made(System, Notes)
    BY <1>2, CommitType DEF Types
  <2>2. Made(System, Notes).author = System
    BY DEF Made
  <2> QED BY <2>1, <2>2 DEF NoEmptyCommits
<1>3. ASSUME NEW u \in Users, pc[u] = "commit",
             commits' = Append(commits, Made(u, PathsOf(req[u])))
      PROVE  commits'[i].changed \cap commits'[i].own # {}
  <2>0. PathsOf(req[u]) \in SUBSET Notes
    BY <1>3, Paths DEF Types, Asked
  <2>1. \/ i \in DOMAIN commits /\ commits'[i] = commits[i]
        \/ commits'[i] = Made(u, PathsOf(req[u]))
    BY <1>3, <2>0, CommitType DEF Types
  <2>2. PICK p \in PathsOf(req[u]) : Differs(p)
    BY <1>3 DEF Seen, Dirty
  <2>3. p \in Made(u, PathsOf(req[u])).changed \cap Made(u, PathsOf(req[u])).own
    BY <2>0, <2>2 DEF Made
  <2> QED BY <2>1, <2>3 DEF NoEmptyCommits
<1> QED
  BY <1>1, <1>2, <1>3, NewCommit

LEMMA Invariance == Spec => []IInv
<1>1. IInv /\ [Next]_vars => IInv'
  BY TypesNext, OneInsideNext, StagedNext, SeenNext, OnlyOwnPathsNext,
     NoEmptyCommitsNext DEF IInv
<1> QED
  BY Initially, <1>1, PTL DEF Spec

-----------------------------------------------------------------------------
(* The theorems *)

\* The variables of the engine keep their types.
THEOREM TypeCorrect == Spec => []TypeOK
<1>1. IInv => TypeOK
  BY DEF IInv, Types
<1> QED
  BY Invariance, <1>1, PTL

\* For any number of users and notes, no concurrent write is swept into the
\* commit of another operation while no git command has failed
\* (git.go:138-140): the mutex covers add, diff and commit.
THEOREM CommitsAreOwn == Spec => []OnlyOwnPaths
<1>1. IInv => OnlyOwnPaths
  BY DEF IInv
<1> QED
  BY Invariance, <1>1, PTL

\* No commit of a request is without a change of its own, failed commands and
\* restarts included (git.go:157-163).
THEOREM CommitsAreNotEmpty == Spec => []NoEmptyCommits
<1>1. IInv => NoEmptyCommits
  BY DEF IInv
<1> QED
  BY Invariance, <1>1, PTL

-----------------------------------------------------------------------------
(* The history: nothing stays uncommitted, and whose changes a commit holds *)

LEMMA HistoryInitially == Init => Bootstrap /\ Ahead /\ Added /\ Authors
<1> SUFFICES ASSUME Init PROVE Bootstrap /\ Ahead /\ Added /\ Authors
  OBVIOUS
<1>1. \A p \in Notes : tree[p].by = System
  BY DEF Init, Version
<1> QED
  BY <1>1 DEF Init, Bootstrap, Early, Ahead, Added, Authors, Differs

LEMMA BootstrapNext ==
    ASSUME Types, Bootstrap, [Next]_vars PROVE Bootstrap'
<1> USE DEF Types, Asked, Bootstrap, Early, files, Return
<1>1. CASE Stat \/ GitInit \/ AddAll \/ InitialCommit
  BY <1>1 DEF Stat, GitInit, AddAll, InitialCommit
<1>2. CASE Restart
  <2>1. \A p \in Notes : tree'[p].by = tree[p].by
    BY <1>2, LeftBehindIs DEF Restart, TypeOK
  <2>2. boot' = "stat" /\ repo' = repo /\ (~repo => Early)
    BY <1>2 DEF Restart, TypeOK
  <2> QED BY <2>1, <2>2
<1>3. ASSUME NEW u \in Users,
             \/ Call(u) \/ Change(u) \/ Lock(u) \/ Add(u) \/ Diff(u) \/ GitCommit(u)
             \/ ChangeFails(u) \/ ChangeBreaks(u) \/ AddRefused(u)
             \/ NothingToCommit(u) \/ CommandFails(u)
      PROVE  Bootstrap'
  <2>1. boot = "up" /\ boot' = boot /\ repo' = repo
    BY <1>3 DEF TypeOK, Call, Change, Lock, Add, Diff, GitCommit, ChangeFails,
                ChangeBreaks, AddRefused, NothingToCommit, CommandFails, GiveUp
  <2> QED BY <2>1
<1>4. CASE UNCHANGED vars
  BY <1>4 DEF vars
<1> QED
  BY <1>1, <1>2, <1>3, <1>4 DEF Next

\* A change of the tree touches the request's own paths and signs them.
LEMMA ChangedSigned ==
    ASSUME Types, NEW u \in Users, pc[u] = "change", NEW p \in Notes
    PROVE  \/ p \in PathsOf(req[u]) /\ Changed(u)[p].by = u
           \/ p \notin PathsOf(req[u]) /\ Changed(u)[p] = tree[p]
<1>1. req[u] \in Requests /\ tree \in [Notes -> Versions]
  BY DEF Types, TypeOK, Asked
<1>2. CASE req[u] \in [op : {"save"}, path : Notes, text : Texts]
  BY <1>1, <1>2 DEF Changed, PathsOf, Version
<1>3. CASE req[u] \in [op : {"delete"}, path : Notes]
  BY <1>1, <1>3 DEF Changed, PathsOf, Version
<1>4. CASE req[u] \in [op : {"rename"}, from : Notes, path : Notes]
  BY <1>1, <1>4 DEF Changed, PathsOf, Version
<1> QED
  BY <1>1, <1>2, <1>3, <1>4, GitAssumption

\* A change that breaks leaves behind what it touched.
LEMMA BrokenLeft ==
    ASSUME Types, NEW u \in Users, ChangeBreaks(u), NEW p \in Notes
    PROVE  tree'[p].left \/ tree'[p] = tree[p]
<1>1. pc[u] = "change" /\ req[u] \in Requests /\ tree \in [Notes -> Versions]
  BY DEF ChangeBreaks, Types, TypeOK, Asked
<1>2. \A v \in Versions : [v EXCEPT !.left = TRUE].left
  BY DEF Versions
<1>3. CASE tree' = [tree EXCEPT ![req[u].path] = [Version(Cut, u) EXCEPT !.left = TRUE]]
  <2>1. Version(Cut, u) \in Versions
    BY VersionType
  <2> QED BY <1>1, <1>2, <1>3, <2>1
<1>4. CASE tree' = [q \in Notes |-> IF q \in PathsOf(req[u])
                                     THEN [Changed(u)[q] EXCEPT !.left = TRUE]
                                     ELSE tree[q]]
  <2>1. Changed(u)[p] \in Versions
    BY <1>1, ChangedType
  <2> QED BY <1>1, <1>2, <1>4, <2>1
<1> QED
  BY <1>3, <1>4 DEF ChangeBreaks

\* A step before commitChange, or between its add and its end, keeps what is
\* staged, HEAD, and whoever has still to commit.
LEMMA OutsideSteps ==
    ASSUME Types, NEW u \in Users,
           \/ Call(u) \/ Change(u) \/ Lock(u) \/ Diff(u) \/ ChangeFails(u)
           \/ ChangeBreaks(u)
    PROVE  /\ boot = "up" /\ boot' = "up" /\ UNCHANGED <<index, head>>
           /\ \A v \in Users, p \in Notes : Owes(v, p) => Owes(v, p)'
<1> USE DEF files, Return, Goto, Types, TypeOK, Asked
<1>1. boot = "up" /\ boot' = "up" /\ UNCHANGED <<index, head>>
  BY DEF Call, Change, Lock, Diff, ChangeFails, ChangeBreaks
<1>2. \A v \in Users, p \in Notes : Owes(v, p) => Owes(v, p)'
  BY DEF Call, Change, Lock, Diff, ChangeFails, ChangeBreaks, Owes
<1> QED
  BY <1>1, <1>2

\* A request that ends without a commit leaves behind what it wrote; the others
\* go on.
LEMMA GivesUp ==
    ASSUME Types, OneInside, NEW u \in Users, GiveUp(u), Inside(u)
    PROVE  /\ boot = "up" /\ boot' = "up" /\ head' = head
           /\ \A p \in Notes :
                /\ tree'[p].text = tree[p].text /\ tree'[p].by = tree[p].by
                /\ index'[p].text = index[p].text /\ index'[p].by = index[p].by
                /\ tree[p].left => tree'[p].left
                /\ index[p].left => index'[p].left
                /\ Owes(u, p) /\ tree[p].by = u => tree'[p].left
                /\ Owes(u, p) /\ index[p].by = u => index'[p].left
                /\ \A v \in Users \ {u} : Owes(v, p) => Owes(v, p)'
<1>1. tree \in [Notes -> Versions] /\ index \in [Notes -> Versions] /\ boot = "up"
  BY DEF Types, TypeOK, Asked, Inside
<1>2. /\ tree' = LeftBehind(tree, {u}) /\ index' = LeftBehind(index, {u})
      /\ head' = head /\ boot' = boot
      /\ pc' = [pc EXCEPT ![u] = "idle"] /\ req' = [req EXCEPT ![u] = None]
  BY DEF GiveUp, Return, Goto
<1>3. \A v \in Users \ {u}, p \in Notes : Owes(v, p) => Owes(v, p)'
  BY <1>2 DEF Owes, Types, TypeOK
<1> QED
  BY <1>1, <1>2, <1>3, LeftBehindIs

LEMMA AheadNext ==
    ASSUME Types, OneInside, Bootstrap, Ahead, Added, [Next]_vars
    PROVE  Ahead'
<1> USE DEF files, Return, Goto
<1> DEFINE Kept(p) ==
      \/ tree[p].left
      \/ \E v \in Users : Owes(v, p) /\ tree[p].by = v
      \/ tree[p].text = head[p].text /\ index[p].text = head[p].text
<1> SUFFICES ASSUME boot' = "up" \/ (boot' = "stat" /\ repo'), NEW p \in Notes
             PROVE  Kept(p)'
  BY DEF Ahead
<1>0. /\ pc \in [Users -> {"idle", "change", "lock", "add", "diff", "commit"}]
      /\ req \in [Users -> {None} \cup Requests]
      /\ tree \in [Notes -> Versions] /\ index \in [Notes -> Versions]
  BY DEF Types, TypeOK
<1>1. CASE Stat \/ GitInit \/ AddAll \/ InitialCommit
  <2>1. CASE InitialCommit
    BY <2>1 DEF InitialCommit, Commit, Bootstrap
  <2>2. CASE Stat
    <3>1. boot = "stat" /\ repo /\ UNCHANGED <<tree, index, head, pc, req>>
      BY <2>2 DEF Stat
    <3>2. \A v \in Users : Owes(v, p)' = Owes(v, p)
      BY <3>1 DEF Owes
    <3> QED BY <3>1, <3>2 DEF Ahead
  <2> QED BY <1>1, <2>1, <2>2 DEF GitInit, AddAll
<1>2. CASE Restart
  <2>1. /\ tree' = LeftBehind(tree, Users) /\ index' = LeftBehind(index, Users)
        /\ head' = head /\ boot # "stat" /\ repo' = repo /\ boot' = "stat"
    BY <1>2 DEF Restart
  <2>2. boot \in {"add", "commit", "up"}
    BY <2>1 DEF Bootstrap, Types, TypeOK
  <2>3. boot = "up" => Kept(p)
    BY DEF Ahead
  <2> QED BY <1>0, <2>1, <2>2, <2>3, LeftBehindIs
<1>3. ASSUME NEW u \in Users, Change(u) \/ ChangeBreaks(u) PROVE Kept(p)'
  <2>1. /\ boot = "up" /\ UNCHANGED <<index, head>> /\ pc[u] = "change"
        /\ \A v \in Users : Owes(v, p) => Owes(v, p)'
    BY <1>3, OutsideSteps DEF Change, ChangeBreaks
  <2>2. CASE Change(u) /\ p \in PathsOf(req[u])
    <3>1. tree'[p].by = u /\ pc'[u] = "lock" /\ req'[u] = req[u]
      BY <1>0, <2>1, <2>2, ChangedSigned DEF Change
    <3> QED BY <2>2, <3>1 DEF Owes
  <2>3. CASE tree'[p] = tree[p]
    BY <2>1, <2>3 DEF Ahead
  <2>4. CASE tree'[p].left
    BY <2>4
  <2> QED BY <1>3, <2>1, <2>2, <2>3, <2>4, ChangedSigned, BrokenLeft DEF Change
<1>4. ASSUME NEW u \in Users, Call(u) \/ Lock(u) \/ Diff(u) \/ ChangeFails(u)
      PROVE  Kept(p)'
  <2>1. /\ boot = "up" /\ UNCHANGED <<index, head>>
        /\ \A v \in Users : Owes(v, p) => Owes(v, p)'
    BY <1>4, OutsideSteps
  <2>2. tree' = tree
    BY <1>4 DEF Call, Lock, Diff, ChangeFails
  <2> QED BY <2>1, <2>2 DEF Ahead
<1>5. ASSUME NEW u \in Users, Add(u) PROVE Kept(p)'
  <2>1. /\ boot = "up" /\ UNCHANGED <<tree, head, req>>
        /\ index'[p] \in {tree[p], index[p]}
    BY <1>5 DEF Add, Types, Asked
  <2>2. \A v \in Users : Owes(v, p) => Owes(v, p)'
    BY <1>0, <1>5 DEF Add, Owes
  <2> QED BY <2>1, <2>2 DEF Ahead
<1>6. ASSUME NEW u \in Users, GitCommit(u) \/ NothingToCommit(u) PROVE Kept(p)'
  <2>1. /\ boot = "up" /\ UNCHANGED <<tree, index>> /\ pc[u] \in {"diff", "commit"}
        /\ pc' = [pc EXCEPT ![u] = "idle"] /\ req' = [req EXCEPT ![u] = None]
    BY <1>6 DEF GitCommit, NothingToCommit, Commit, Types, Asked
  <2>2. \A v \in Users \ {u} : Owes(v, p) => Owes(v, p)'
    BY <1>0, <2>1 DEF Owes
  <2>3. CASE p \in PathsOf(req[u])
    <3>1. \/ tree[p].left \/ index[p].text = tree[p].text
          \/ \E w \in Users : Waits(w, p) /\ tree[p].by = w
      BY <2>1, <2>3 DEF Added
    <3>2. ASSUME NEW w \in Users, Waits(w, p) PROVE w # u /\ Owes(w, p)
      BY <2>1, <3>2 DEF Waits, Owes
    <3>3. head'[p].text = index[p].text
      BY <1>6, <2>3 DEF GitCommit, Commit, NothingToCommit, Dirty, Differs
    <3> QED BY <2>1, <2>2, <3>1, <3>2, <3>3
  <2>4. CASE p \notin PathsOf(req[u])
    <3>1. ~Owes(u, p)
      BY <2>4 DEF Owes
    <3>2. head' = index \/ head' = head
      BY <1>6 DEF GitCommit, Commit, NothingToCommit
    <3> QED BY <2>1, <2>2, <3>1, <3>2 DEF Ahead
  <2> QED BY <2>3, <2>4
<1>7. ASSUME NEW u \in Users, AddRefused(u) \/ CommandFails(u) PROVE Kept(p)'
  <2>1. GiveUp(u) /\ Inside(u)
    BY <1>7 DEF AddRefused, CommandFails, Inside
  <2> QED BY <2>1, GivesUp DEF Ahead
<1>8. CASE UNCHANGED vars
  <2>1. UNCHANGED <<boot, repo, tree, index, head, pc, req>>
    BY <1>8 DEF vars
  <2>2. \A v \in Users : Owes(v, p) => Owes(v, p)'
    BY <2>1 DEF Owes
  <2> QED BY <2>1, <2>2 DEF Ahead
<1> QED
  BY <1>1, <1>2, <1>3, <1>4, <1>5, <1>6, <1>7, <1>8 DEF Next

\* While a request is inside and stays there, nobody passes the mutex: who waits
\* goes on waiting, with the same request.
LEMMA WaitersStay ==
    ASSUME Types, OneInside, [Next]_vars,
           NEW u \in Users, Inside(u), Inside(u)', NEW w \in Users, pc[w] = "lock"
    PROVE  pc'[w] = "lock" /\ req'[w] = req[w]
<1> USE DEF Return, Goto, Inside
<1>0. pc \in [Users -> {"idle", "change", "lock", "add", "diff", "commit"}]
      /\ req \in [Users -> {None} \cup Requests] /\ mu /\ boot = "up"
  BY DEF Types, TypeOK, Asked, OneInside
<1>1. CASE Stat \/ GitInit \/ AddAll \/ InitialCommit \/ Restart
  BY <1>0, <1>1 DEF Stat, GitInit, AddAll, InitialCommit, Restart
<1>2. ASSUME NEW v \in Users,
             \/ Call(v) \/ Change(v) \/ Lock(v) \/ Add(v) \/ Diff(v) \/ GitCommit(v)
             \/ ChangeFails(v) \/ ChangeBreaks(v) \/ AddRefused(v)
             \/ NothingToCommit(v) \/ CommandFails(v)
      PROVE  pc'[w] = "lock" /\ req'[w] = req[w]
  BY <1>0, <1>2 DEF Call, Change, Lock, Add, Diff, GitCommit, ChangeFails,
                    ChangeBreaks, AddRefused, NothingToCommit, CommandFails, GiveUp
<1>3. CASE UNCHANGED vars
  BY <1>3 DEF vars
<1> QED
  BY <1>1, <1>2, <1>3 DEF Next

\* A request that has added came from there by its own add, or has just
\* looked; or it was there and others took a step outside.
LEMMA InsideSteps ==
    ASSUME Types, OneInside, [Next]_vars, NEW u \in Users,
           pc'[u] \in {"diff", "commit"}
    PROVE  \/ Add(u)
           \/ /\ pc[u] \in {"diff", "commit"} /\ req'[u] = req[u]
              /\ UNCHANGED index
              /\ \/ UNCHANGED tree
                 \/ \E v \in Users : Change(v) \/ ChangeBreaks(v)
<1> USE DEF Return, Goto, files
<1>0. pc \in [Users -> {"idle", "change", "lock", "add", "diff", "commit"}]
      /\ req \in [Users -> {None} \cup Requests]
  BY DEF Types, TypeOK
<1>1. CASE Stat \/ GitInit \/ AddAll \/ InitialCommit \/ Restart
  BY <1>0, <1>1 DEF Stat, GitInit, AddAll, InitialCommit, Restart, Types, Asked
<1>2. ASSUME NEW v \in Users,
             \/ Call(v) \/ Change(v) \/ Lock(v) \/ Diff(v) \/ ChangeFails(v)
             \/ ChangeBreaks(v)
      PROVE  /\ pc[u] \in {"diff", "commit"} /\ req'[u] = req[u]
             /\ UNCHANGED index
             /\ UNCHANGED tree \/ Change(v) \/ ChangeBreaks(v)
  BY <1>0, <1>2 DEF Call, Change, Lock, Diff, ChangeFails, ChangeBreaks
<1>3. ASSUME NEW v \in Users,
             \/ Add(v) \/ GitCommit(v) \/ AddRefused(v) \/ NothingToCommit(v)
             \/ CommandFails(v)
      PROVE  Add(u)
  <2>1. Inside(v)
    BY <1>3 DEF Add, GitCommit, AddRefused, NothingToCommit, CommandFails, Inside
  <2>2. CASE v = u
    BY <1>0, <1>3, <2>2 DEF Add, GitCommit, AddRefused, NothingToCommit,
                            CommandFails, GiveUp
  <2>3. CASE v # u
    <3>1. pc'[u] = pc[u]
      BY <1>0, <1>3, <2>3 DEF Add, GitCommit, AddRefused, NothingToCommit,
                              CommandFails, GiveUp
    <3> QED BY <2>1, <2>3, <3>1 DEF OneInside, Inside
  <2> QED BY <2>2, <2>3
<1>4. CASE UNCHANGED vars
  BY <1>4 DEF vars
<1> QED
  BY <1>1, <1>2, <1>3, <1>4 DEF Next

LEMMA AddedNext ==
    ASSUME Types, OneInside, Added, [Next]_vars
    PROVE  Added'
<1> SUFFICES ASSUME NEW u \in Users, pc'[u] \in {"diff", "commit"},
                    NEW p \in PathsOf(req'[u])
             PROVE  \/ tree'[p].left \/ index'[p].text = tree'[p].text
                    \/ \E w \in Users : Waits(w, p)' /\ tree'[p].by = w
  BY DEF Added
<1>0. pc \in [Users -> {"idle", "change", "lock", "add", "diff", "commit"}]
      /\ req \in [Users -> {None} \cup Requests]
  BY DEF Types, TypeOK
<1>1. CASE Add(u)
  <2>1. req[u] \in Requests /\ req' = req
    BY <1>1 DEF Add, Types, Asked
  <2>2. p \in Notes
    BY <2>1, Paths
  <2> QED BY <1>1, <2>1, <2>2 DEF Add
<1>2. CASE /\ pc[u] \in {"diff", "commit"} /\ req'[u] = req[u]
           /\ UNCHANGED index
  <2>0. req[u] \in Requests
    BY <1>2 DEF Types, Asked
  <2>1. p \in Notes /\ p \in PathsOf(req[u])
    BY <1>2, <2>0, Paths
  <2>2. ASSUME NEW w \in Users, Waits(w, p) PROVE Waits(w, p)'
    BY <1>2, <2>2, WaitersStay DEF Waits, Inside
  <2>3. CASE tree'[p] = tree[p]
    BY <1>2, <2>1, <2>2, <2>3 DEF Added
  <2>4. ASSUME NEW v \in Users, Change(v), p \in PathsOf(req[v])
        PROVE  \E w \in Users : Waits(w, p)' /\ tree'[p].by = w
    <3>1. /\ tree' = Changed(v) /\ req' = req /\ pc[v] = "change"
          /\ pc' = [pc EXCEPT ![v] = "lock"]
      BY <2>4 DEF Change, Goto
    <3>2. tree'[p].by = v /\ pc'[v] = "lock" /\ p \in PathsOf(req'[v])
      BY <1>0, <2>1, <2>4, <3>1, ChangedSigned
    <3> QED BY <3>2 DEF Waits
  <2>5. ASSUME NEW v \in Users, Change(v), p \notin PathsOf(req[v])
        PROVE  tree'[p] = tree[p]
    BY <2>1, <2>5, ChangedSigned DEF Change
  <2>6. ASSUME NEW v \in Users, ChangeBreaks(v)
        PROVE  tree'[p].left \/ tree'[p] = tree[p]
    BY <2>1, <2>6, BrokenLeft
  <2> QED BY <1>2, <2>3, <2>4, <2>5, <2>6, InsideSteps DEF Add
<1> QED
  BY <1>1, <1>2, InsideSteps

LEMMA AuthorsNext ==
    ASSUME Types, OneInside, Bootstrap, Ahead, Authors, [Next]_vars
    PROVE  Authors'
<1> USE DEF files, Return, Goto
<1> DEFINE Signed(p) ==
      \/ index[p].left
      \/ \E w \in Users : Owes(w, p) /\ index[p].by = w
      \/ boot = "commit" /\ index[p].by = System
<1> SUFFICES ASSUME NEW p \in Notes, Differs(p)' PROVE Signed(p)'
  BY DEF Authors
<1>0. /\ pc \in [Users -> {"idle", "change", "lock", "add", "diff", "commit"}]
      /\ req \in [Users -> {None} \cup Requests]
      /\ tree \in [Notes -> Versions] /\ index \in [Notes -> Versions]
  BY DEF Types, TypeOK
<1>a. Differs(p) => Signed(p)
  BY DEF Authors
<1>1. CASE Stat \/ GitInit
  <2>1. UNCHANGED <<index, head, pc, req>> /\ boot # "commit"
    BY <1>1 DEF Stat, GitInit
  <2>2. Differs(p) /\ \A v \in Users : Owes(v, p)' = Owes(v, p)
    BY <2>1 DEF Differs, Owes
  <2> QED BY <1>a, <2>1, <2>2
<1>2. CASE AddAll
  BY <1>2 DEF AddAll, Bootstrap, Early
<1>3. ASSUME InitialCommit \/ \E u \in Users : GitCommit(u) PROVE FALSE
  BY <1>3 DEF InitialCommit, GitCommit, Commit, Differs
<1>4. CASE Restart
  <2>1. index' = LeftBehind(index, Users) /\ head' = head
    BY <1>4 DEF Restart
  <2>2. index'[p].text = index[p].text
    BY <1>0, <2>1, LeftBehindIs
  <2>3. Differs(p)
    BY <2>1, <2>2 DEF Differs
  <2> QED BY <1>0, <1>a, <2>1, <2>3, LeftBehindIs
<1>5. ASSUME NEW u \in Users,
             \/ Call(u) \/ Change(u) \/ Lock(u) \/ Diff(u) \/ ChangeFails(u)
             \/ ChangeBreaks(u)
      PROVE  Signed(p)'
  <2>1. /\ boot = "up" /\ UNCHANGED <<index, head>>
        /\ \A v \in Users : Owes(v, p) => Owes(v, p)'
    BY <1>5, OutsideSteps
  <2>2. Differs(p)
    BY <2>1 DEF Differs
  <2> QED BY <1>a, <2>1, <2>2
<1>6. ASSUME NEW u \in Users, Add(u) PROVE Signed(p)'
  <2>1. /\ boot = "up" /\ UNCHANGED <<tree, head, req>>
        /\ index'[p] \in {tree[p], index[p]}
    BY <1>6 DEF Add, Types, Asked
  <2>2. \A v \in Users : Owes(v, p) => Owes(v, p)'
    BY <1>0, <1>6 DEF Add, Owes
  <2>3. CASE index'[p] = index[p]
    <3>1. Differs(p)
      BY <2>1, <2>3 DEF Differs
    <3> QED BY <1>a, <2>1, <2>2, <2>3, <3>1
  <2>4. CASE index'[p] = tree[p]
    <3>1. tree[p].text # head[p].text
      BY <2>1, <2>4 DEF Differs
    <3>2. tree[p].left \/ \E v \in Users : Owes(v, p) /\ tree[p].by = v
      BY <2>1, <3>1 DEF Ahead
    <3> QED BY <2>2, <2>4, <3>2
  <2> QED BY <2>1, <2>3, <2>4
<1>7. ASSUME NEW u \in Users, NothingToCommit(u) PROVE Signed(p)'
  <2>1. /\ boot = "up" /\ UNCHANGED <<index, head>>
        /\ pc' = [pc EXCEPT ![u] = "idle"] /\ req' = [req EXCEPT ![u] = None]
    BY <1>7 DEF NothingToCommit, Types, Asked
  <2>2. Differs(p)
    BY <2>1 DEF Differs
  <2>3. ~Owes(u, p)
    BY <1>7, <2>2 DEF NothingToCommit, Dirty, Owes
  <2>4. \A v \in Users \ {u} : Owes(v, p) => Owes(v, p)'
    BY <1>0, <2>1 DEF Owes
  <2> QED BY <1>a, <2>1, <2>2, <2>3, <2>4
<1>8. ASSUME NEW u \in Users, AddRefused(u) \/ CommandFails(u) PROVE Signed(p)'
  <2>1. GiveUp(u) /\ Inside(u)
    BY <1>8 DEF AddRefused, CommandFails, Inside
  <2>2. head' = head /\ index'[p].text = index[p].text
    BY <2>1, GivesUp
  <2>3. Differs(p)
    BY <2>2 DEF Differs
  <2> QED BY <1>a, <2>1, <2>3, GivesUp
<1>9. CASE UNCHANGED vars
  <2>1. UNCHANGED <<boot, index, head, pc, req>>
    BY <1>9 DEF vars
  <2>2. Differs(p) /\ \A v \in Users : Owes(v, p)' = Owes(v, p)
    BY <2>1 DEF Differs, Owes
  <2> QED BY <1>a, <2>1, <2>2
<1> QED
  BY <1>1, <1>2, <1>3, <1>4, <1>5, <1>6, <1>7, <1>8, <1>9 DEF Next

LEMMA WrongAuthorsNext ==
    ASSUME Types, OneInside, Authors, WrongAuthorsWereWaiting, [Next]_vars
    PROVE  WrongAuthorsWereWaiting'
<1> DEFINE Excused(c) == c.by \subseteq {c.author} \cup c.waiting
<1> SUFFICES ASSUME NEW i \in DOMAIN commits' PROVE Excused(commits'[i])
  BY DEF WrongAuthorsWereWaiting
<1>1. ASSUME i \in DOMAIN commits, commits'[i] = commits[i]
      PROVE  Excused(commits'[i])
  BY <1>1 DEF WrongAuthorsWereWaiting
<1>2. CASE UNCHANGED commits
  BY <1>1, <1>2
<1>3. CASE boot = "commit" /\ commits' = Append(commits, Made(System, Notes))
  <2>1. \/ i \in DOMAIN commits /\ commits'[i] = commits[i]
        \/ commits'[i] = Made(System, Notes)
    BY <1>3, CommitType DEF Types
  <2>2. \A p \in Notes : Differs(p) /\ ~index[p].left => index[p].by = System
    BY <1>3 DEF Authors, Owes, Types, Asked
  <2>3. Excused(Made(System, Notes))
    BY <2>2 DEF Made
  <2> QED BY <1>1, <2>1, <2>3
<1>4. ASSUME NEW u \in Users, pc[u] = "commit",
             commits' = Append(commits, Made(u, PathsOf(req[u])))
      PROVE  Excused(commits'[i])
  <2>0. PathsOf(req[u]) \in SUBSET Notes
    BY <1>4, Paths DEF Types, Asked
  <2>1. \/ i \in DOMAIN commits /\ commits'[i] = commits[i]
        \/ commits'[i] = Made(u, PathsOf(req[u]))
    BY <1>4, <2>0, CommitType DEF Types
  <2>2. ASSUME NEW w \in Users, NEW p \in Notes, Owes(w, p)
        PROVE  w = u \/ pc[w] = "lock"
    BY <1>4, <2>2 DEF Owes, OneInside, Inside
  <2>3. boot = "up"
    BY <1>4 DEF Types, Asked
  <2>4. \A p \in Notes : Differs(p) /\ ~index[p].left =>
          \/ index[p].by = u
          \/ \E w \in Users : pc[w] = "lock" /\ index[p].by = w
    BY <2>2, <2>3 DEF Authors
  <2>5. Excused(Made(u, PathsOf(req[u])))
    BY <2>4 DEF Made
  <2> QED BY <1>1, <2>1, <2>5
<1> QED
  BY <1>2, <1>3, <1>4, NewCommit

LEMMA HistoryInvariance == Spec => [](HistoryInv /\ WrongAuthorsWereWaiting)
<1>1. Init => HistoryInv /\ WrongAuthorsWereWaiting
  BY Initially, HistoryInitially
     DEF HistoryInv, WrongAuthorsWereWaiting, Init
<1>2. HistoryInv /\ WrongAuthorsWereWaiting /\ [Next]_vars
        => (HistoryInv /\ WrongAuthorsWereWaiting)'
  BY TypesNext, OneInsideNext, StagedNext, SeenNext, OnlyOwnPathsNext,
     NoEmptyCommitsNext, BootstrapNext, AheadNext, AddedNext, AuthorsNext,
     WrongAuthorsNext
     DEF HistoryInv, IInv
<1> QED
  BY <1>1, <1>2, PTL DEF Spec

\* HEAD has every change that no request on the note has still to commit, unless
\* the request that made it ended before its commit (git.go:1-5); failing
\* changes, refused adds, failing commands and restarts included.
THEOREM NothingStaysUncommitted == Spec => []CommittedUnlessPending
<1>1. HistoryInv => CommittedUnlessPending
  BY DEF HistoryInv, Ahead, CommittedUnlessPending
<1> QED
  BY HistoryInvariance, <1>1, PTL

\* A commit under one name holds another's change only if that user's own
\* request waited for the mutex at that moment, or had ended before its commit
\* (git.go:29-32, 191-193).
THEOREM AuthorsWaited == Spec => []WrongAuthorsWereWaiting
BY HistoryInvariance, PTL
=============================================================================
