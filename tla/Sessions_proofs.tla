--------------------------- MODULE Sessions_proofs ---------------------------
(* Theorems about TeamsStore: its types, and what it promises while no Sets *)
(* have overlapped, or since one ran alone after the last that did. Then    *)
(* Sessions: it uses the store as TeamsStore says, so those theorems carry  *)
(* over, and what its tokens are good for.                                  *)
EXTENDS Sessions, SequenceTheorems, TLAPS

\* A Set that has the file open works on the file that is there.
Opened ==
    /\ \A a \in Admins : pc[a] = "write" => fd[a] \in DOMAIN inodes
    /\ \A a \in Admins : pc[a] # "idle" => arg[a] \in Maps

Types == TypeOK /\ Opened

\* The two names never stand for one file.
Apart == tmp # Absent => tmp # path

\* Who runs: the Set that is alone, or Sets that overlap.
Company ==
    /\ \A a \in Admins : pc[a] # "idle" => data # None
    /\ alone # None =>
          pc[alone] # "idle" /\ \A a \in Admins : a # alone => pc[a] = "idle"
    /\ ~overlapped => \A a \in Admins : pc[a] # "idle" => a = alone

\* Where a Set stands that is alone.
Writing == alone # None =>
    /\ pc[alone] = "write" => tmp # Absent /\ fd[alone] = tmp /\ inodes[tmp] = <<>>
    /\ pc[alone] = "rename" => tmp # Absent /\ inodes[tmp] = arg[alone]
    /\ pc[alone] = "publish" => path # Absent /\ inodes[path] = arg[alone]

\* The map on the disk is the last that was acknowledged, or one of a Set that
\* got as far as its rename.
OnDisk == ~overlapped =>
    Loaded \in {acked} \cup maybe \cup {arg[a] : a \in {b \in Admins : pc[b] = "publish"}}

Rest == /\ Apart /\ Company /\ Writing /\ OnDisk
        /\ FileIsWhole /\ SetsAreDurable /\ CacheIsFile

IInv == Types /\ Rest

-----------------------------------------------------------------------------

LEMMA OverwriteType ==
    ASSUME NEW old \in Seq(Block), NEW new \in Seq(Block)
    PROVE  Overwrite(old, new) \in Seq(Block)
<1>1. SubSeq(old, Len(new) + 1, Len(old)) \in Seq(Block)
  BY SubSeqProperties, LenProperties
<1> QED
  BY <1>1, ConcatProperties DEF Overwrite

LEMMA OverwriteEmpty ==
    ASSUME NEW new \in Seq(Block) PROVE Overwrite(<<>>, new) = new
<1>1. SubSeq(<<>>, Len(new) + 1, Len(<<>>)) = <<>>
  BY LenProperties, EmptySeq, SubSeqProperties
<1> QED
  BY <1>1, EmptySeq, ConcatEmptySeq DEF Overwrite

LEMMA Initially == Init => IInv
<1> SUFFICES ASSUME Init PROVE IInv
  OBVIOUS
<1> USE TeamsAssumption DEF Init
<1>1. inodes \in Seq(Seq(Block))
  BY EmptySeq
<1>2. TypeOK
  <2>1. overlapped \in BOOLEAN
    OBVIOUS
  <2> QED BY <1>1, <2>1 DEF TypeOK
<1>3. Opened /\ Apart /\ Company /\ Writing
  BY DEF Opened, Apart, Company, Writing
<1>4. Loaded = NoMap
  BY DEF Loaded
<1>5. OnDisk
  BY <1>4 DEF OnDisk
<1>6. FileIsWhole /\ SetsAreDurable /\ CacheIsFile
  BY DEF FileIsWhole, SetsAreDurable, CacheIsFile
<1> QED
  BY <1>2, <1>3, <1>5, <1>6 DEF IInv, Rest, Types

\* What Open leaves: an empty file with the temporary name.
LEMMA Opens ==
    ASSUME Types, NEW a \in Admins, Open(a)
    PROVE  /\ inodes' \in Seq(Seq(Block)) /\ DOMAIN inodes \subseteq DOMAIN inodes'
           /\ tmp' \in DOMAIN inodes' /\ inodes'[tmp'] = <<>>
           /\ tmp = Absent => tmp' \notin DOMAIN inodes
           /\ tmp # Absent => tmp' = tmp
           /\ \A i \in DOMAIN inodes : i # tmp' => inodes'[i] = inodes[i]
<1>0. /\ inodes \in Seq(Seq(Block)) /\ <<>> \in Seq(Block)
      /\ DOMAIN inodes = 1 .. Len(inodes) /\ Len(inodes) \in Nat
  BY EmptySeq, LenProperties DEF Types, TypeOK
<1>1. CASE tmp = Absent
  <2>1. inodes' = Append(inodes, <<>>) /\ tmp' = Len(inodes')
    BY <1>1 DEF Open
  <2>2. /\ Append(inodes, <<>>) \in Seq(Seq(Block))
        /\ Len(Append(inodes, <<>>)) = Len(inodes) + 1
        /\ Append(inodes, <<>>)[Len(inodes) + 1] = <<>>
        /\ \A i \in 1 .. Len(inodes) : Append(inodes, <<>>)[i] = inodes[i]
    BY <1>0, AppendProperties
  <2>3. DOMAIN inodes' = 1 .. Len(inodes) + 1 /\ tmp' = Len(inodes) + 1
    BY <2>1, <2>2, LenProperties
  <2> QED BY <1>0, <1>1, <2>1, <2>2, <2>3
<1>2. CASE tmp # Absent
  <2>1. tmp \in DOMAIN inodes /\ inodes' = [inodes EXCEPT ![tmp] = <<>>] /\ tmp' = tmp
    BY <1>2 DEF Open, Types, TypeOK
  <2>2. inodes' \in Seq(Seq(Block)) /\ DOMAIN inodes' = DOMAIN inodes
    BY <1>0, <2>1, ExceptSeq
  <2> QED BY <1>0, <1>2, <2>1, <2>2
<1> QED
  BY <1>1, <1>2

\* What Write leaves: the map laid over what the file held.
LEMMA Writes ==
    ASSUME Types, NEW a \in Admins, Write(a)
    PROVE  /\ inodes' \in Seq(Seq(Block)) /\ DOMAIN inodes' = DOMAIN inodes
           /\ fd[a] \in DOMAIN inodes
           /\ inodes'[fd[a]] = Overwrite(inodes[fd[a]], arg[a])
           /\ \A i \in DOMAIN inodes : i # fd[a] => inodes'[i] = inodes[i]
<1>0. /\ inodes \in Seq(Seq(Block)) /\ fd[a] \in DOMAIN inodes
      /\ arg[a] \in Seq(Block)
  BY TeamsAssumption DEF Types, TypeOK, Opened, Write
<1>1. Overwrite(inodes[fd[a]], arg[a]) \in Seq(Block)
  BY <1>0, OverwriteType, ElementOfSeq, LenProperties
<1>2. inodes' = [inodes EXCEPT ![fd[a]] = Overwrite(inodes[fd[a]], arg[a])]
  BY DEF Write
<1> QED
  BY <1>0, <1>1, <1>2, ExceptSeq

LEMMA LoadedType == ASSUME TypeOK PROVE Loaded \in {None, NoMap} \cup Maps
BY DEF Loaded

LEMMA TypesNext ==
    ASSUME Types, [Next]_vars PROVE Types'
<1> USE TeamsAssumption DEF Types, TypeOK, Opened, Goto, Leaves, disk, company
<1>1. CASE Load
  BY <1>1, LoadedType DEF Load
<1>2. CASE Crash
  BY <1>2 DEF Crash
<1>3. ASSUME NEW a \in Admins, Begin(a) PROVE Types'
  <2>1. (overlapped \in BOOLEAN)'
    BY <1>3 DEF Begin
  <2>2. (alone \in {None} \cup Admins)'
    BY <1>3 DEF Begin
  <2> QED BY <1>3, <2>1, <2>2 DEF Begin
<1>4. ASSUME NEW a \in Admins, Open(a) PROVE Types'
  <2>1. /\ pc' = [pc EXCEPT ![a] = "write"] /\ fd' = [fd EXCEPT ![a] = tmp']
        /\ pc[a] = "open" /\ UNCHANGED <<path, data, arg, acked, maybe, company, sets>>
    BY <1>4 DEF Open
  <2>2. /\ inodes' \in Seq(Seq(Block)) /\ DOMAIN inodes \subseteq DOMAIN inodes'
        /\ tmp' \in DOMAIN inodes'
    BY <1>4, Opens
  <2> QED BY <2>1, <2>2
<1>5. ASSUME NEW a \in Admins, Write(a) PROVE Types'
  <2>1. /\ pc' = [pc EXCEPT ![a] = "rename"] /\ fd' = [fd EXCEPT ![a] = None]
        /\ pc[a] = "write" /\ UNCHANGED <<tmp, path, data, arg, acked, maybe, company, sets>>
    BY <1>5 DEF Write
  <2>2. inodes' \in Seq(Seq(Block)) /\ DOMAIN inodes' = DOMAIN inodes
    BY <1>5, Writes
  <2> QED BY <2>1, <2>2
<1>6. ASSUME NEW a \in Admins, Rename(a) PROVE Types'
  BY <1>6 DEF Rename
<1>7. ASSUME NEW a \in Admins, Publish(a) PROVE Types'
  BY <1>7 DEF Publish
<1>8. ASSUME NEW a \in Admins, Fail(a) PROVE Types'
  BY <1>8 DEF Fail
<1>9. CASE UNCHANGED vars
  BY <1>9 DEF vars
<1> QED
  BY <1>1, <1>2, <1>3, <1>4, <1>5, <1>6, <1>7, <1>8, <1>9 DEF Next

-----------------------------------------------------------------------------
(* The rest of the invariant *)

\* A step that leaves the published file alone leaves what Load would find.
LEMMA LoadedKept ==
    ASSUME path' = path, path # Absent => inodes'[path] = inodes[path]
    PROVE  Loaded' = Loaded
BY DEF Loaded

\* Whoever runs and is not alone, is one of Sets that overlap.
LEMMA Crowded ==
    ASSUME Types, Company, NEW a \in Admins, pc[a] # "idle", a # alone
    PROVE  alone = None /\ overlapped
BY DEF Types, TypeOK, Company

\* Among Sets that overlap only the names matter.
LEMMA CrowdedStep ==
    ASSUME Types, Company, NEW a \in Admins, pc[a] # "idle", a # alone, Apart',
           NEW label \in {"open", "write", "rename", "publish", "idle"},
           pc' = [pc EXCEPT ![a] = label], data # None => data' # None,
           alone' = alone, overlapped' = overlapped
    PROVE  Rest'
<1>1. alone' = None /\ overlapped'
  BY Crowded
<1>2. Company'
  BY <1>1 DEF Company, Types, TypeOK
<1> QED
  BY <1>1, <1>2 DEF Rest, Writing, OnDisk, FileIsWhole, SetsAreDurable, CacheIsFile

\* In a Set that is alone, the disk and what is acknowledged stay as they are.
LEMMA QuietSet ==
    ASSUME Types, Rest, NEW a \in Admins, pc[a] # "publish",
           \A b \in Admins : b # a => pc[b] = "idle",
           NEW label \in {"open", "write", "rename", "publish", "idle"},
           pc' = [pc EXCEPT ![a] = label], label # "publish",
           UNCHANGED <<data, acked, maybe, overlapped>>, Loaded' = Loaded
    PROVE  OnDisk' /\ SetsAreDurable' /\ CacheIsFile'
<1>1. \A b \in Admins : pc[b] # "publish" /\ pc'[b] # "publish"
  BY DEF Types, TypeOK
<1>2. OnDisk'
  BY <1>1 DEF Rest, OnDisk
<1>3. SetsAreDurable' /\ CacheIsFile'
  BY <1>1 DEF Rest, SetsAreDurable, CacheIsFile
<1> QED
  BY <1>2, <1>3

\* The two names stay apart, whoever runs.
LEMMA ApartNext ==
    ASSUME Types, Apart, [Next]_vars PROVE Apart'
<1>1. ASSUME NEW a \in Admins, Open(a) PROVE Apart'
  <2>1. path' = path /\ (path # Absent => path \in DOMAIN inodes)
    BY <1>1 DEF Open, Types, TypeOK
  <2> QED BY <1>1, <2>1, Opens, TeamsAssumption, LenProperties DEF Apart, Types, TypeOK
<1>2. ASSUME NEW a \in Admins, Rename(a) PROVE Apart'
  BY <1>2 DEF Rename, Apart
<1>3. CASE Load
  BY <1>3 DEF Load, Apart, disk
<1>4. CASE Crash
  BY <1>4 DEF Crash, Apart, disk
<1>5. ASSUME NEW a \in Admins, Begin(a) \/ Write(a) \/ Publish(a) \/ Fail(a)
      PROVE  Apart'
  BY <1>5 DEF Begin, Write, Publish, Fail, Apart, disk
<1>6. CASE UNCHANGED vars
  BY <1>6 DEF vars, disk, Apart
<1> QED
  BY <1>1, <1>2, <1>3, <1>4, <1>5, <1>6 DEF Next

LEMMA RestNext ==
    ASSUME Types, Rest, [Next]_vars PROVE Rest'
<1> USE DEF Goto
<1>0. /\ pc \in [Admins -> {"idle", "open", "write", "rename", "publish"}]
      /\ arg \in [Admins -> {None} \cup Maps]
      /\ fd \in [Admins -> {None} \cup DOMAIN inodes]
      /\ alone \in {None} \cup Admins /\ overlapped \in BOOLEAN /\ None \notin Admins
  BY TeamsAssumption DEF Types, TypeOK
<1>a. Apart'
  BY ApartNext DEF Rest
<1>b. ASSUME NEW a \in Admins, a = alone
      PROVE  \A b \in Admins : b # a => pc[b] = "idle"
  BY <1>0, <1>b DEF Rest, Company
<1>1. CASE Load
  <2>1. UNCHANGED <<disk, pc, arg, fd, acked, maybe, alone, overlapped>>
        /\ data = None /\ data' = Loaded /\ data' # None /\ Loaded' = Loaded
    BY <1>1 DEF Load, Loaded, disk, company
  <2>2. \A a \in Admins : pc[a] = "idle"
    BY <2>1 DEF Rest, Company
  <2>3. FileIsWhole' /\ OnDisk'
    BY <2>1 DEF Rest, FileIsWhole, OnDisk, disk
  <2>4. Company' /\ Writing'
    BY <1>0, <2>1, <2>2 DEF Rest, Company, Writing
  <2>5. ~overlapped => Loaded \in {acked} \cup maybe
    BY <2>2 DEF Rest, OnDisk
  <2> QED BY <1>a, <2>1, <2>3, <2>4, <2>5 DEF Rest, SetsAreDurable, CacheIsFile
<1>2. CASE Crash
  <2>1. UNCHANGED <<disk, acked, overlapped>> /\ data' = None /\ alone' = None
        /\ maybe' = maybe \cup {arg[a] : a \in {b \in Admins : pc[b] = "publish"}}
        /\ pc' = [a \in Admins |-> "idle"]
    BY <1>2 DEF Crash
  <2>2. Loaded' = Loaded
    BY <2>1 DEF Loaded, disk
  <2>3. FileIsWhole'
    BY <2>1 DEF Rest, FileIsWhole, disk
  <2>4. Company' /\ Writing'
    BY <2>1 DEF Company, Writing
  <2>5. OnDisk'
    BY <2>1, <2>2 DEF Rest, OnDisk
  <2> QED BY <1>a, <2>1, <2>3, <2>4, <2>5 DEF Rest, SetsAreDurable, CacheIsFile
<1>3. ASSUME NEW a \in Admins, Begin(a) PROVE Rest'
  <2>1. /\ UNCHANGED <<disk, data, fd, acked, maybe>> /\ data # None
        /\ pc[a] = "idle" /\ pc' = [pc EXCEPT ![a] = "open"]
    BY <1>3 DEF Begin
  <2>2. Loaded' = Loaded
    BY <2>1 DEF Loaded, disk
  <2>3. CASE Idle
    <3>1. alone' = a /\ overlapped' = overlapped
      BY <1>3, <2>3 DEF Begin
    <3>2. \A b \in Admins : pc[b] = "idle"
      BY <2>3 DEF Idle
    <3>3. Company' /\ Writing'
      BY <1>0, <2>1, <3>1, <3>2 DEF Company, Writing
    <3>4. FileIsWhole'
      BY <2>1, <3>1 DEF Rest, FileIsWhole, disk
    <3> QED BY <1>a, <2>1, <2>2, <3>1, <3>2, <3>3, <3>4, QuietSet DEF Rest
  <2>4. CASE ~Idle
    <3>1. alone' = None /\ overlapped'
      BY <1>3, <2>4 DEF Begin
    <3>2. Company' /\ Writing'
      BY <1>0, <2>1, <3>1 DEF Company, Writing
    <3> QED
      BY <1>a, <3>1, <3>2 DEF Rest, OnDisk, FileIsWhole, SetsAreDurable, CacheIsFile
  <2> QED BY <2>3, <2>4
<1>4. ASSUME NEW a \in Admins, Open(a) PROVE Rest'
  <2>1. /\ UNCHANGED <<path, data, arg, acked, maybe, alone, overlapped>>
        /\ pc[a] = "open"
        /\ pc' = [pc EXCEPT ![a] = "write"] /\ fd' = [fd EXCEPT ![a] = tmp']
    BY <1>4 DEF Open, company
  <2>2. CASE a # alone
    BY <1>a, <2>1, <2>2, CrowdedStep DEF Rest
  <2>3. CASE a = alone
    <3>1. /\ inodes' \in Seq(Seq(Block)) /\ tmp' \in DOMAIN inodes' /\ inodes'[tmp'] = <<>>
          /\ \A i \in DOMAIN inodes : i # tmp' => inodes'[i] = inodes[i]
      BY <1>4, Opens
    <3>2. tmp' # Absent
      BY <3>1, TeamsAssumption, LenProperties
    <3>3. path # Absent => path \in DOMAIN inodes /\ path # tmp'
      BY <1>a, <2>1, <3>2 DEF Apart, Types, TypeOK
    <3>4. path # Absent => inodes'[path] = inodes[path]
      BY <3>1, <3>3
    <3>5. FileIsWhole'
      BY <2>1, <3>4 DEF Rest, FileIsWhole
    <3>6. Company' /\ Writing'
      BY <1>0, <2>1, <2>3, <3>1, <3>2 DEF Rest, Company, Writing
    <3>7. Loaded' = Loaded
      BY <2>1, <3>4, LoadedKept
    <3> QED BY <1>a, <1>b, <2>1, <2>3, <3>5, <3>6, <3>7, QuietSet DEF Rest
  <2> QED BY <2>2, <2>3
<1>5. ASSUME NEW a \in Admins, Write(a) PROVE Rest'
  <2>1. /\ UNCHANGED <<tmp, path, data, arg, acked, maybe, alone, overlapped>>
        /\ pc[a] = "write" /\ pc' = [pc EXCEPT ![a] = "rename"]
    BY <1>5 DEF Write, company
  <2>2. CASE a # alone
    BY <1>a, <2>1, <2>2, CrowdedStep DEF Rest
  <2>3. CASE a = alone
    <3>1. tmp # Absent /\ fd[a] = tmp /\ inodes[tmp] = <<>>
      BY <1>0, <2>1, <2>3 DEF Rest, Writing
    <3>2. arg[a] \in Seq(Block)
      BY <2>1, TeamsAssumption DEF Types, Opened
    <3>3. inodes'[tmp] = arg[a]
      BY <1>5, <3>1, <3>2, Writes, OverwriteEmpty
    <3>4. path # Absent => inodes'[path] = inodes[path]
      BY <1>5, <3>1, Writes DEF Rest, Apart, Types, TypeOK
    <3>5. FileIsWhole'
      BY <2>1, <3>4 DEF Rest, FileIsWhole
    <3>6. Company' /\ Writing'
      BY <1>0, <2>1, <2>3, <3>1, <3>3 DEF Rest, Company, Writing
    <3>7. Loaded' = Loaded
      BY <2>1, <3>4, LoadedKept
    <3> QED BY <1>a, <1>b, <2>1, <2>3, <3>5, <3>6, <3>7, QuietSet DEF Rest
  <2> QED BY <2>2, <2>3
<1>6. ASSUME NEW a \in Admins, Rename(a) PROVE Rest'
  <2>1. /\ UNCHANGED <<inodes, data, arg, acked, maybe, alone, overlapped>>
        /\ pc[a] = "rename" /\ pc' = [pc EXCEPT ![a] = "publish"]
        /\ path' = tmp /\ tmp' = Absent
    BY <1>6 DEF Rename, company
  <2>2. CASE a # alone
    BY <1>a, <2>1, <2>2, CrowdedStep DEF Rest
  <2>3. CASE a = alone
    <3>1. tmp # Absent /\ inodes[tmp] = arg[a] /\ arg[a] \in Maps
      BY <1>0, <2>1, <2>3 DEF Rest, Writing, Types, Opened
    <3>2. FileIsWhole'
      BY <2>1, <3>1 DEF FileIsWhole
    <3>3. Company' /\ Writing'
      BY <1>0, <2>1, <2>3, <3>1 DEF Rest, Company, Writing
    <3>4. Loaded' = arg[a]
      BY <2>1, <3>1, TeamsAssumption DEF Loaded
    <3>5. pc'[a] = "publish" /\ arg'[a] = arg[a]
      BY <1>0, <2>1
    <3>6. OnDisk'
      BY <3>4, <3>5 DEF OnDisk
    <3>7. SetsAreDurable' /\ CacheIsFile'
      BY <2>1, <3>5 DEF Rest, SetsAreDurable, CacheIsFile
    <3> QED BY <1>a, <3>2, <3>3, <3>6, <3>7 DEF Rest
  <2> QED BY <2>2, <2>3
<1>7. ASSUME NEW a \in Admins, Publish(a) PROVE Rest'
  <2>1. /\ UNCHANGED <<disk, fd>> /\ pc[a] = "publish" /\ maybe' = {}
        /\ pc' = [pc EXCEPT ![a] = "idle"] /\ data' = arg[a] /\ acked' = arg[a]
        /\ alone' = (IF alone = a THEN None ELSE alone)
        /\ overlapped' = (overlapped /\ alone # a)
        /\ arg[a] \in Maps /\ arg[a] # None
    BY <1>7, TeamsAssumption DEF Publish, Leaves, Types, Opened
  <2>2. CASE a # alone
    <3>1. alone' = alone /\ overlapped' = overlapped
      BY <2>1, <2>2, Crowded DEF Rest
    <3> QED BY <1>a, <2>1, <2>2, <3>1, CrowdedStep DEF Rest
  <2>3. CASE a = alone
    <3>1. /\ path # Absent /\ inodes[path] = arg[a]
          /\ alone' = None /\ \A b \in Admins : pc'[b] = "idle"
      BY <1>0, <1>b, <2>1, <2>3 DEF Rest, Writing
    <3>2. FileIsWhole'
      BY <2>1, <3>1 DEF FileIsWhole, disk
    <3>3. Company' /\ Writing'
      BY <3>1 DEF Company, Writing
    <3>4. Loaded' = arg[a]
      BY <2>1, <3>1, TeamsAssumption DEF Loaded, disk
    <3> QED
      BY <1>a, <2>1, <3>2, <3>3, <3>4 DEF Rest, OnDisk, SetsAreDurable, CacheIsFile
  <2> QED BY <2>2, <2>3
<1>8. ASSUME NEW a \in Admins, Fail(a) PROVE Rest'
  <2>1. /\ UNCHANGED <<disk, data, acked, maybe, overlapped>>
        /\ pc[a] \in {"open", "write", "rename"}
        /\ pc' = [pc EXCEPT ![a] = "idle"]
        /\ alone' = (IF alone = a THEN None ELSE alone)
    BY <1>8 DEF Fail, Leaves
  <2>2. CASE a # alone
    BY <1>a, <2>1, <2>2, CrowdedStep DEF Rest
  <2>3. CASE a = alone
    <3>1. FileIsWhole'
      BY <2>1 DEF Rest, FileIsWhole, disk
    <3>2. alone' = None /\ \A b \in Admins : pc'[b] = "idle"
      BY <1>0, <1>b, <2>1, <2>3
    <3>3. Company' /\ Writing'
      BY <3>2 DEF Company, Writing
    <3>4. Loaded' = Loaded
      BY <2>1 DEF Loaded, disk
    <3> QED BY <1>a, <1>b, <2>1, <2>3, <3>1, <3>3, <3>4, QuietSet DEF Rest
  <2> QED BY <2>2, <2>3
<1>9. CASE UNCHANGED vars
  BY <1>a, <1>9 DEF vars, disk, company, Rest, Company, Writing, OnDisk, FileIsWhole,
              SetsAreDurable, CacheIsFile, Loaded
<1> QED
  BY <1>1, <1>2, <1>3, <1>4, <1>5, <1>6, <1>7, <1>8, <1>9 DEF Next

LEMMA Invariance == Spec => []IInv
<1>1. IInv /\ [Next]_vars => IInv'
  BY TypesNext, RestNext DEF IInv
<1>2. Init => IInv
  BY Initially
<1> QED
  BY <1>1, <1>2, PTL DEF Spec

-----------------------------------------------------------------------------
(* The theorems *)

\* The variables of the store keep their types, whoever calls Set.
THEOREM TypeCorrect == Spec => []TypeOK
<1>1. Init => Types
  BY Initially DEF IInv
<1>2. Types => TypeOK
  BY DEF Types
<1> QED
  BY <1>1, <1>2, TypesNext, PTL DEF Spec

\* For any requests that set the teams, any maps, any number of failures and
\* restarts: until Sets overlap, and again once one has run alone, the published
\* file is never a part of a map (teams.go:52-54).
THEOREM AlwaysWhole == Spec => []FileIsWhole
<1>1. IInv => FileIsWhole
  BY DEF IInv, Rest
<1> QED
  BY Invariance, <1>1, PTL

\* ... a Set that has returned is there after every restart (teams.go:51-55),
THEOREM Durable == Spec => []SetsAreDurable
<1>1. IInv => SetsAreDurable
  BY DEF IInv, Rest
<1> QED
  BY Invariance, <1>1, PTL

\* ... and what Get answers is what the file says, unless a Set has renamed
\* its file and not yet published its map (teams.go:106-112).
THEOREM CacheFollows == Spec => []CacheIsFile
<1>1. IInv => CacheIsFile
  BY DEF IInv, Rest
<1> QED
  BY Invariance, <1>1, PTL

-----------------------------------------------------------------------------
(* Sessions *)

\* Every step of the sessions is a step of the store or leaves it alone.
LEMMA StoreStep == SNext => [Next]_vars
<1> SUFFICES ASSUME SNext PROVE [Next]_vars
  OBVIOUS
<1>1. CASE Start
  BY <1>1 DEF Start, Next
<1>2. CASE Stop
  BY <1>2 DEF Stop, Next
<1>3. CASE Tick
  BY <1>3 DEF Tick
<1>4. ASSUME NEW a \in Admins, SetStep(a) \/ \E b \in Browsers : Put(b, a) PROVE Next
  BY <1>4 DEF Put, SetStep, Next
<1>5. ASSUME NEW b \in Browsers,
             \/ LookUp(b) \/ EndLogin(b) \/ FailLogin(b)
             \/ OpenStream(b) \/ CloseStream(b)
      PROVE  UNCHANGED vars
  BY <1>5 DEF LookUp, EndLogin, FailLogin, OpenStream, CloseStream
<1> QED
  BY <1>1, <1>2, <1>3, <1>4, <1>5 DEF SNext

\* The server with its sessions implements the store's specification: logins,
\* requests, the clock and restarts add nothing to what the store may do.
THEOREM SessionsUseTheStore == SSpec => Spec
<1>1. SInit => Init
  BY DEF SInit
<1>2. [SNext]_svars => [Next]_vars
  BY StoreStep DEF svars
<1> QED
  BY <1>1, <1>2, PTL DEF SSpec, Spec

\* What a token holds, as far as the properties depend on it.
Sound(t) ==
    /\ t.expires = t.sec + TTL
    /\ t.role = ResolveRole(t.groups)

\* A stream's token was an administrator's, checked by this process.
StreamInv ==
    \A b \in Browsers : stream[b] # None =>
        /\ Up /\ stream[b].secret = secret
        /\ stream[b].role = "adm" /\ Sound(stream[b])

SInv ==
    /\ SessionsTypeOK /\ Types
    /\ \A b \in Browsers : token[b] # None => Sound(token[b])
    /\ StreamInv

LEMMA RoleOf ==
    ASSUME NEW groups, ResolveRole(groups) # None
    PROVE  /\ ResolveRole(groups) \in Roles
           /\ ResolveRole(groups) \in Granted(groups)
           /\ \A route \in DOMAIN Check :
                 ResolveRole(groups) \in Allowed[Check[route]]
                 <=> Allowed[Check[route]] \cap Granted(groups) # {}
<1>1. /\ ResolveRole(groups) \in Roles
      /\ ResolveRole(groups) \in Granted(groups)
  BY SessionsAssumption DEF ResolveRole, Roles
<1>2. ASSUME NEW route \in DOMAIN Check
      PROVE  Allowed[Check[route]] \in {Roles, {"adm", "dev"}, {"adm"}}
  BY <1>2 DEF Check, Allowed
<1>3. Granted(groups) \subseteq Roles
  BY DEF Granted, GroupRoleMap, Roles
<1>4. ASSUME NEW S \in {Roles, {"adm", "dev"}, {"adm"}}
      PROVE  ResolveRole(groups) \in S <=> S \cap Granted(groups) # {}
  BY <1>1, <1>3, <1>4 DEF ResolveRole, Roles
<1> QED
  BY <1>1, <1>2, <1>4

LEMMA DepartmentType ==
    ASSUME SessionsTypeOK, Up, NEW u \in Users, NEW groups \in SUBSET Groups
    PROVE  Departments(u, groups) \subseteq Name
<1>1. data \in Maps \cup {NoMap}
  BY DEF SessionsTypeOK, TypeOK, Up
<1> QED
  BY <1>1, SessionsAssumption DEF Departments, Name

LEMMA SessionsInitially == SInit => SInv
<1> SUFFICES ASSUME SInit PROVE SInv
  OBVIOUS
<1>1. Types /\ TypeOK
  BY Initially DEF SInit, IInv, Types
<1> QED
  BY <1>1, SessionsAssumption DEF SInit, SInv, SessionsTypeOK, StreamInv

LEMMA SessionsNext == SInv /\ [SNext]_svars => SInv'
<1> SUFFICES ASSUME SInv, [SNext]_svars PROVE SInv'
  OBVIOUS
<1>0. Types' /\ TypeOK'
  <2>1. [Next]_vars
    BY StoreStep DEF svars
  <2> QED BY <2>1, TypesNext DEF SInv, Types
<1> USE SessionsAssumption DEF SInv, SessionsTypeOK, StreamInv, Sound, Up, session
<1>1. CASE Start
  BY <1>0, <1>1 DEF Start, Load
<1>2. CASE Stop
  BY <1>0, <1>2 DEF Stop
<1>3. CASE Tick
  <2>1. now' \in 0 .. MaxTime /\ part' \in 0 .. Parts - 1
    BY <1>3 DEF Tick
  <2> QED BY <1>0, <1>3, <2>1 DEF Tick, vars, disk
<1>4. ASSUME NEW a \in Admins, SetStep(a) \/ \E b \in Browsers : Put(b, a) PROVE SInv'
  <2>1. UNCHANGED session
    BY <1>4 DEF Put, SetStep
  <2>2. data' = data \/ data' # None
    <3>1. CASE Publish(a)
      BY <3>1, TeamsAssumption DEF Types, Opened, Publish
    <3> QED
      BY <1>4, <3>1 DEF Put, SetStep, Begin, Open, Write, Rename, Fail
  <2> QED BY <1>0, <2>1, <2>2
<1>5. ASSUME NEW b \in Browsers, LookUp(b) PROVE SInv'
  BY <1>0, <1>5 DEF LookUp, Login, vars, disk
<1>6. ASSUME NEW b \in Browsers, EndLogin(b) PROVE SInv'
  <2>1. login[b] \in Login
    BY <1>6 DEF EndLogin
  <2>2. PICK d \in Departments(login[b].user, login[b].groups) :
           token' = [token EXCEPT ![b] = NewToken(login[b], d)]
    BY <1>6 DEF EndLogin
  <2>3. d \in Name
    BY <1>6, <2>1, <2>2, DepartmentType DEF Login, EndLogin
  <2>4. NewToken(login[b], d) \in Token
    BY <1>6, <2>1, <2>3, RoleOf DEF NewToken, Login, Token, EndLogin
  <2>5. Sound(NewToken(login[b], d))
    BY DEF NewToken
  <2> QED BY <1>0, <1>6, <2>2, <2>4, <2>5 DEF EndLogin, vars, disk
<1>7. ASSUME NEW b \in Browsers, FailLogin(b) PROVE SInv'
  BY <1>0, <1>7 DEF FailLogin, vars, disk
<1>8. ASSUME NEW b \in Browsers, OpenStream(b) PROVE SInv'
  <2>1. token[b] # None /\ token[b].secret = secret /\ token[b].role = "adm"
    BY <1>8 DEF OpenStream, Admits, Verify, Allowed, Check
  <2> QED BY <1>0, <1>8, <2>1 DEF OpenStream, vars, disk
<1>9. ASSUME NEW b \in Browsers, CloseStream(b) PROVE SInv'
  BY <1>0, <1>9 DEF CloseStream, vars, disk
<1>10. CASE UNCHANGED svars
  BY <1>0, <1>10 DEF svars, vars, disk
<1> QED
  BY <1>1, <1>2, <1>3, <1>4, <1>5, <1>6, <1>7, <1>8, <1>9, <1>10 DEF SNext

LEMMA SessionsInvariance == SSpec => []SInv
BY SessionsInitially, SessionsNext, PTL DEF SSpec

\* Tokens, logins and streams keep their types, for any directory, any maps
\* and any number of restarts.
THEOREM SessionTypes == SSpec => []SessionsTypeOK
<1>1. SInv => SessionsTypeOK
  BY DEF SInv
<1> QED
  BY <1>1, SessionsInvariance, PTL

\* A session lasts exactly as long as configured, the cut of its expiry down to
\* seconds included (session.go:43, 90).
THEOREM SessionsLast == SSpec => []SessionIsHonoured
<1>1. SInv => SessionIsHonoured
  <2> SUFFICES ASSUME SInv, NEW b \in Browsers, token[b] # None
               PROVE  /\ /\ token[b].secret = secret /\ Len(token[b].department) = 1
                         /\ ~Older(token[b], TTL)
                         => Verify(token[b])
                      /\ Verify(token[b]) =>
                            token[b].secret = secret /\ ~Older(token[b], TTL + 1)
    BY DEF SessionIsHonoured
  <2>1. /\ token[b].expires = token[b].sec + TTL /\ token[b].sec \in Nat
        /\ now \in Nat
    BY DEF SInv, Sound, SessionsTypeOK, Token
  <2>2. token[b].department \in Name /\ Len(token[b].department) \in Nat
    BY LenProperties DEF SInv, SessionsTypeOK, Token, Name
  <2>3. ASSUME token[b].secret = secret, Len(token[b].department) = 1,
               ~Older(token[b], TTL)
        PROVE  Verify(token[b])
    BY <2>1, <2>3, SessionsAssumption DEF Verify, FieldsOf, Older
  <2>4. ASSUME Verify(token[b])
        PROVE  token[b].secret = secret /\ ~Older(token[b], TTL + 1)
    <3>1. now <= token[b].expires /\ token[b].secret = secret
      BY <2>4 DEF Verify
    <3> QED BY <2>1, <3>1, SessionsAssumption DEF Older
  <2> QED
    BY <2>3, <2>4
<1> QED
  BY <1>1, SessionsInvariance, PTL

\* No request runs, and no stream is read, by a role that the directory did not
\* grant, and none is refused that it did (role.go:40-56, middleware.go:27-29).
THEOREM RolesAreGranted == SSpec => []ActsWithinAGrant
<1>1. SInv => ActsWithinAGrant
  <2> SUFFICES ASSUME SInv, NEW b \in Browsers
               PROVE  /\ \A route \in DOMAIN Check :
                            /\ Admits(token[b], route) => ~Older(token[b], TTL + 1)
                            /\ Verify(token[b]) =>
                                  (Admits(token[b], route)
                                   <=> Allowed[Check[route]] \cap Granted(token[b].groups) # {})
                      /\ stream[b] # None =>
                            /\ Up /\ stream[b].secret = secret
                            /\ "adm" \in Granted(stream[b].groups)
    BY DEF ActsWithinAGrant
  <2>1. ASSUME Verify(token[b]) PROVE ~Older(token[b], TTL + 1)
    <3>1. /\ token[b].expires = token[b].sec + TTL /\ token[b].sec \in Nat
          /\ now \in Nat /\ now <= token[b].expires
      BY <2>1 DEF SInv, Sound, SessionsTypeOK, Token, Verify
    <3> QED BY <3>1, SessionsAssumption DEF Older
  <2>2. ASSUME Verify(token[b]), NEW route \in DOMAIN Check
        PROVE  Admits(token[b], route)
               <=> Allowed[Check[route]] \cap Granted(token[b].groups) # {}
    <3>1. token[b].role = ResolveRole(token[b].groups) /\ token[b].role \in Roles
      BY <2>2 DEF SInv, Sound, SessionsTypeOK, Token, Verify
    <3>2. ResolveRole(token[b].groups) # None
      BY <3>1, SessionsAssumption
    <3> QED BY <2>2, <3>1, <3>2, RoleOf DEF Admits
  <2>3. ASSUME stream[b] # None
        PROVE  /\ Up /\ stream[b].secret = secret
               /\ "adm" \in Granted(stream[b].groups)
    <3>1. /\ Up /\ stream[b].secret = secret
          /\ ResolveRole(stream[b].groups) = "adm"
      BY <2>3 DEF SInv, StreamInv, Sound
    <3>2. ResolveRole(stream[b].groups) # None
      BY <3>1, SessionsAssumption DEF Roles
    <3> QED BY <3>1, <3>2, RoleOf
  <2> QED
    BY <2>1, <2>2, <2>3 DEF Admits
<1> QED
  BY <1>1, SessionsInvariance, PTL
=============================================================================
