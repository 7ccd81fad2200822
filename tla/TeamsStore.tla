----------------------------- MODULE TeamsStore -----------------------------
(***************************************************************************)
(* internal/teams/teams.go: FileStore, the map from LDAP groups to team    *)
(* names that administrators replace as a whole (PUT /api/group-teams).    *)
(* Set writes the JSON to <path>.tmp, renames it to <path>, and only then  *)
(* takes the lock to replace the map in memory; Get reads that map.        *)
(*                                                                         *)
(* Nothing keeps two Sets apart before that lock, and the temporary file   *)
(* has one name: Sets that overlap can tear the file, or leave on the disk *)
(* another map than in memory. What the store promises, it promises until  *)
(* Sets overlap and again once a Set ran alone to its end.                 *)
(*                                                                         *)
(* A map is a sequence of blocks of JSON text, so that two writes to one   *)
(* file can leave the end of the longer behind.                            *)
(***************************************************************************)
EXTENDS Naturals, Sequences, FiniteSets

CONSTANTS
    Admins,      \* the requests (goroutines) that call Set
    Maps,        \* maps, as texts
    NoMap,       \* the empty map of a store without a file
    Absent, None,
    MaxSets      \* bound on the number of Set calls

Block == UNION {{m[i] : i \in DOMAIN m} : m \in Maps}

ASSUME TeamsAssumption ==
    /\ MaxSets \in Nat /\ Absent \notin Nat
    /\ Maps \subseteq Seq(Block) /\ <<>> \notin Maps
    /\ NoMap \notin Maps /\ None \notin Maps \cup {NoMap} \cup Admins

VARIABLES
    tmp, path,   \* inodes the two names stand for, or Absent
    inodes,      \* text of every inode
    data,        \* s.data, or None while the process starts
    pc, arg, fd, \* what each Set does, its map, the inode it has open
    acked,       \* history: map of the Set that returned last, and maps of
    maybe,       \* later Sets that a crash cut off after their rename
    alone,       \* history: the Set that has run alone since it began, or None
    overlapped,  \* history: Sets have overlapped, and none ran alone since
    sets

disk == <<tmp, path, inodes>>
company == <<alone, overlapped>>
vars == <<disk, data, pc, arg, fd, acked, maybe, company, sets>>

Init ==
    /\ tmp = Absent /\ path = Absent /\ inodes = <<>>
    /\ data = None
    /\ pc = [a \in Admins |-> "idle"]
    /\ arg = [a \in Admins |-> None]
    /\ fd = [a \in Admins |-> None]
    /\ acked = NoMap /\ maybe = {}
    /\ alone = None /\ overlapped = FALSE /\ sets = 0

Goto(a, label) == pc' = [pc EXCEPT ![a] = label]

\* No Set is running.
Idle == \A a \in Admins : pc[a] = "idle"

\* A Set has ended.
Leaves(a) == alone' = IF alone = a THEN None ELSE alone

-----------------------------------------------------------------------------
(* Set *)

Begin(a) ==
    /\ data # None /\ pc[a] = "idle" /\ sets < MaxSets
    /\ \E m \in Maps : arg' = [arg EXCEPT ![a] = m]
    /\ Goto(a, "open") /\ sets' = sets + 1
    /\ IF Idle THEN alone' = a /\ UNCHANGED overlapped
               ELSE alone' = None /\ overlapped' = TRUE
    /\ UNCHANGED <<disk, data, fd, acked, maybe>>

\* Variant: the open file is the one the name stood for before the call.
OpenStale(a) ==
    /\ pc[a] = "open"
    /\ IF tmp = Absent
         THEN inodes' = Append(inodes, <<>>) /\ tmp' = Len(inodes')
         ELSE inodes' = [inodes EXCEPT ![tmp] = <<>>] /\ UNCHANGED tmp
    /\ fd' = [fd EXCEPT ![a] = tmp]
    /\ Goto(a, "write")
    /\ UNCHANGED <<path, data, arg, acked, maybe, company, sets>>

\* os.WriteFile(tmp): open with O_TRUNC, ...
Open(a) ==
    /\ pc[a] = "open"
    /\ IF tmp = Absent
         THEN inodes' = Append(inodes, <<>>) /\ tmp' = Len(inodes')
         ELSE inodes' = [inodes EXCEPT ![tmp] = <<>>] /\ UNCHANGED tmp
    /\ fd' = [fd EXCEPT ![a] = tmp']
    /\ Goto(a, "write")
    /\ UNCHANGED <<path, data, arg, acked, maybe, company, sets>>

Overwrite(old, new) == new \o SubSeq(old, Len(new) + 1, Len(old))

\* ... write, close.
Write(a) ==
    /\ pc[a] = "write"
    /\ inodes' = [inodes EXCEPT ![fd[a]] = Overwrite(@, arg[a])]
    /\ fd' = [fd EXCEPT ![a] = None]
    /\ Goto(a, "rename")
    /\ UNCHANGED <<tmp, path, data, arg, acked, maybe, company, sets>>

Rename(a) ==
    /\ pc[a] = "rename" /\ tmp # Absent
    /\ path' = tmp /\ tmp' = Absent
    /\ Goto(a, "publish")
    /\ UNCHANGED <<inodes, data, arg, fd, acked, maybe, company, sets>>

Publish(a) ==
    /\ pc[a] = "publish"
    /\ data' = arg[a] /\ acked' = arg[a] /\ maybe' = {}
    /\ arg' = [arg EXCEPT ![a] = None] /\ Goto(a, "idle")
    /\ Leaves(a) /\ overlapped' = (overlapped /\ alone # a)
    /\ UNCHANGED <<disk, fd, sets>>

\* A system call fails (the rename also when another Set has taken the file),
\* and Set returns the error.  A temporary file stays.
Fail(a) ==
    /\ pc[a] \in {"open", "write", "rename"}
    /\ arg' = [arg EXCEPT ![a] = None] /\ fd' = [fd EXCEPT ![a] = None]
    /\ Goto(a, "idle") /\ Leaves(a)
    /\ UNCHANGED <<disk, data, acked, maybe, overlapped, sets>>

-----------------------------------------------------------------------------
(* Restart *)

Crash ==
    /\ data' = None
    /\ maybe' = maybe \cup {arg[a] : a \in {b \in Admins : pc[b] = "publish"}}
    /\ pc' = [a \in Admins |-> "idle"]
    /\ arg' = [a \in Admins |-> None]
    /\ fd' = [a \in Admins |-> None]
    /\ alone' = None
    /\ UNCHANGED <<disk, acked, overlapped, sets>>

\* What loadFile makes of the file, None where json.Unmarshal refuses it.
Loaded == IF path = Absent THEN NoMap
          ELSE IF inodes[path] = <<>> THEN NoMap
          ELSE IF inodes[path] \in Maps THEN inodes[path]
          ELSE None

\* Variant: the temporary file of a crashed Set is taken up.
LoadTmp ==
    /\ data = None
    /\ data' = IF tmp # Absent /\ inodes[tmp] \in Maps THEN inodes[tmp] ELSE Loaded
    /\ UNCHANGED <<disk, pc, arg, fd, acked, maybe, company, sets>>

\* NewFileStore; the server does not start if it fails.
Load ==
    /\ data = None /\ Loaded # None
    /\ data' = Loaded
    /\ UNCHANGED <<disk, pc, arg, fd, acked, maybe, company, sets>>

Next ==
    \/ Load \/ Crash
    \/ \E a \in Admins : \/ Begin(a) \/ Open(a) \/ Write(a) \/ Rename(a)
                         \/ Publish(a) \/ Fail(a)

Spec == Init /\ [][Next]_vars

-----------------------------------------------------------------------------
(* Properties *)

TypeOK ==
    /\ inodes \in Seq(Seq(Block))
    /\ tmp \in {Absent} \cup DOMAIN inodes
    /\ path \in {Absent} \cup DOMAIN inodes
    /\ data \in {None, NoMap} \cup Maps /\ acked \in {NoMap} \cup Maps
    /\ pc \in [Admins -> {"idle", "open", "write", "rename", "publish"}]
    /\ arg \in [Admins -> {None} \cup Maps]
    /\ fd \in [Admins -> {None} \cup DOMAIN inodes]
    /\ maybe \subseteq Maps /\ sets \in 0 .. MaxSets
    /\ alone \in {None} \cup Admins /\ overlapped \in BOOLEAN

\* Until Sets overlap, and again once one has run alone to its end: whenever the
\* process may stop, the file holds one whole map (teams.go:52-54).
FileIsWhole == ~overlapped /\ path # Absent => inodes[path] \in Maps

\* ... a Set that has returned survives every restart, and one that a crash cut
\* off took effect as a whole or not at all (teams.go:51-55).
SetsAreDurable == ~overlapped /\ data # None => data \in {acked} \cup maybe

\* ... and readers see what is on the disk, or a Set is between its rename and
\* the change in memory (teams.go:106-112).
CacheIsFile ==
    ~overlapped /\ data # None =>
        data = Loaded \/ \E a \in Admins : pc[a] = "publish"
=============================================================================
