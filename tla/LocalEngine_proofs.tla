------------------------- MODULE LocalEngine_proofs -------------------------
(* Theorems about LocalEngine. *)
EXTENDS LocalEngine, SequenceTheorems, TLAPS

\* A request under way is one its client may make, and a file is open exactly
\* for the saves between their open and their write.
Types ==
    /\ TypeOK
    /\ \A c \in Clients :
         /\ pc[c] # "idle" => req[c] \in Requests[c]
         /\ pc[c] = "write" => req[c].op = "save" /\ fd[c] \in DOMAIN inodes

\* EmptyOnlyDuringSaves of every file, named or not: which name a file has
\* may change while a save has it open.
EmptyFiles ==
    \A i \in DOMAIN inodes : inodes[i] = Empty =>
        \/ \E c \in Clients : pc[c] = "write" /\ fd[c] = i
        \/ i \in cut

IInv == Types /\ OneNamePerFile /\ EmptyFiles

-----------------------------------------------------------------------------
(* Requests and texts *)

LEMMA Asked ==
    ASSUME Types, NEW c \in Clients, pc[c] # "idle"
    PROVE  /\ req[c].op = "save" => req[c].path \in Notes /\ req[c].content \in Contents
           /\ req[c].op = "delete" => req[c].path \in Notes \cup Dirs
           /\ req[c].op = "rename" => req[c].path \in Notes /\ req[c].from \in Notes
           /\ req[c].op = "namespace" => req[c].path \in Dirs
<1>1. req[c] \in Requests[c]
  BY DEF Types
<1>2. req[c] \in [op : {"save"}, path : Notes, content : Contents]
         \cup [op : {"delete"}, path : Notes \cup Dirs]
         \cup [op : {"rename"}, from : Notes, path : Notes]
         \cup [op : {"namespace"}, path : Dirs]
  BY <1>1, LocalAssumption
<1> QED
  BY <1>2

\* What a save writes over a file is a text, and not an empty one.
LEMMA Overwritten ==
    ASSUME NEW old \in Seq(Block), NEW new \in Contents
    PROVE  Overwrite(old, new) \in Seq(Block) /\ Overwrite(old, new) # Empty
<1>1. new \in Seq(Block) /\ new # <<>>
  BY LocalAssumption
<1>2. Len(new) \in Nat /\ Len(new) > 0
  BY <1>1, LenProperties, EmptySeq
<1>3. Len(old) \in Nat
  BY LenProperties
<1> DEFINE rest == SubSeq(old, Len(new) + 1, Len(old))
<1>4. rest \in Seq(Block)
  <2>1. \A i \in Len(new) + 1 .. Len(old) : old[i] \in Block
    BY <1>2, ElementOfSeq
  <2> QED
    BY <2>1, <1>2, <1>3, SubSeqProperties
<1>5. rest \in Seq(Block) /\ Len(rest) \in Nat
  BY <1>4, LenProperties
<1> HIDE DEF rest
<1>6. new \o rest \in Seq(Block) /\ Len(new \o rest) = Len(new) + Len(rest)
  BY <1>1, <1>5, ConcatProperties
<1>7. Len(new \o rest) > 0
  BY <1>6, <1>2, <1>5
<1>8. new \o rest # <<>>
  BY <1>7, EmptySeq
<1> QED
  BY <1>6, <1>8 DEF Overwrite, rest, Empty

-----------------------------------------------------------------------------
(* Types *)

LEMMA Initially == Init => IInv
<1> SUFFICES ASSUME Init PROVE IInv
  OBVIOUS
<1>1. inodes \in Seq(Seq(Block))
  BY EmptySeq DEF Init
<1>2. TypeOK
  BY <1>1, LocalAssumption DEF Init, TypeOK
<1>3. Types
  BY <1>2 DEF Types, Init
<1>4. OneNamePerFile /\ EmptyFiles
  BY EmptySeq DEF OneNamePerFile, EmptyFiles, Init
<1> QED
  BY <1>3, <1>4 DEF IInv

\* What a step leaves of the names' and descriptors' types when files are only
\* added or written.
LEMMA TypesNext == Types /\ [Next]_vars => Types'
<1> SUFFICES ASSUME Types, [Next]_vars PROVE Types'
  OBVIOUS
<1> USE DEF Types, TypeOK
<1>1. CASE UNCHANGED vars
  BY <1>1 DEF vars, tree
<1>2. ASSUME NEW c \in Clients, Call(c) PROVE Types'
  <2>1. PICK r \in Requests[c] : req' = [req EXCEPT ![c] = r]
    BY <1>2 DEF Call
  <2>2. /\ pc[c] = "idle" /\ pc' = [pc EXCEPT ![c] = "asked"]
        /\ calls < MaxCalls /\ calls' = calls + 1
        /\ UNCHANGED <<names, dirs, inodes, cut, action, fd>>
    BY <1>2 DEF Call, tree
  <2>3. \A d \in Clients : req'[d] \in {None} \cup Requests[d]
    BY <2>1 DEF Call
  <2>4. calls' \in 0 .. MaxCalls
    BY <2>2, LocalAssumption
  <2>5. TypeOK'
    <3>1. req' \in [Clients -> {None} \cup UNION {Requests[d] : d \in Clients}]
      BY <2>1
    <3> QED
      BY <2>2, <2>3, <2>4, <3>1
  <2>6. \A d \in Clients : pc'[d] # "idle" => req'[d] \in Requests[d]
    <3>1. /\ req'[c] = r
          /\ \A d \in Clients : d # c => req'[d] = req[d] /\ pc'[d] = pc[d]
      BY <2>1, <2>2
    <3> QED
      BY <3>1
  <2>7. \A d \in Clients : pc'[d] = "write" =>
          req'[d].op = "save" /\ fd'[d] \in DOMAIN inodes'
    BY <2>1, <2>2
  <2> QED
    BY <2>5, <2>6, <2>7
<1>3. ASSUME NEW c \in Clients,
             StatToSave(c) \/ StatOld(c) \/ StatNew(c) \/ StatNamespace(c)
      PROVE  Types'
  <2>1. /\ UNCHANGED <<names, dirs, inodes, cut, req, fd, calls>>
        /\ \E l \in {"mkdir", "statnew", "rename"} : pc' = [pc EXCEPT ![c] = l]
        /\ pc[c] # "idle"
        /\ action' \in [Clients -> {None, "create", "update", "delete", "rename"}]
    BY <1>3 DEF StatToSave, StatOld, StatNew, StatNamespace, At, Goto, tree
  <2>2. TypeOK'
    BY <2>1
  <2>3. \A d \in Clients : pc'[d] # "idle" => req'[d] \in Requests[d]
    BY <2>1
  <2>4. \A d \in Clients : pc'[d] = "write" =>
          req'[d].op = "save" /\ fd'[d] \in DOMAIN inodes'
    BY <2>1
  <2> QED
    BY <2>2, <2>3, <2>4
<1>4. ASSUME NEW c \in Clients,
             MkdirAll(c) \/ Delete(c) \/ Rename(c) \/ CreateNamespace(c)
      PROVE  Types'
  <2>1. /\ UNCHANGED <<inodes, cut, req, fd, calls>>
        /\ \E l \in {"open", "record"} : pc' = [pc EXCEPT ![c] = l]
        /\ pc[c] # "idle"
        /\ action' \in [Clients -> {None, "create", "update", "delete", "rename"}]
    BY <1>4 DEF MkdirAll, Delete, Rename, CreateNamespace, At, Goto
  <2>2. dirs' \in SUBSET Dirs
    BY <1>4, <2>1, Asked, LocalAssumption
       DEF MkdirAll, Delete, Rename, CreateNamespace, At
  <2>3. names' \in [Notes -> {Absent} \cup DOMAIN inodes]
    <3>1. CASE MkdirAll(c) \/ CreateNamespace(c)
      BY <3>1 DEF MkdirAll, CreateNamespace
    <3>2. CASE Delete(c)
      BY <3>2 DEF Delete
    <3>3. CASE Rename(c)
      <4>1. req[c].op = "rename" /\ Exists(req[c].from)
        BY <3>3 DEF Rename, At
      <4>2. names[req[c].from] \in DOMAIN inodes
        BY <2>1, <4>1, Asked DEF Exists, IsNote
      <4> QED
        BY <3>3, <4>2 DEF Rename
    <3> QED
      BY <1>4, <3>1, <3>2, <3>3
  <2> QED
    BY <2>1, <2>2, <2>3, ZenonT(60)
<1>5. ASSUME NEW c \in Clients, Open(c) PROVE Types'
  <2> DEFINE path == req[c].path
  <2>1. /\ UNCHANGED <<dirs, cut, req, action, calls>>
        /\ pc[c] = "open" /\ req[c].op = "save"
        /\ pc' = [pc EXCEPT ![c] = "write"]
        /\ fd' = [fd EXCEPT ![c] = names'[path]]
    BY <1>5 DEF Open, At, Goto
  <2>2. path \in Notes /\ req[c] \in Requests[c]
    BY <2>1, Asked
  <2>3. /\ inodes' \in Seq(Seq(Block))
        /\ DOMAIN inodes \subseteq DOMAIN inodes'
        /\ names' \in [Notes -> {Absent} \cup DOMAIN inodes']
        /\ names'[path] \in DOMAIN inodes'
    <3>0. Empty \in Seq(Block)
      BY EmptySeq DEF Empty
    <3>1. CASE names[path] = Absent
      <4>1. /\ inodes' = Append(inodes, Empty)
            /\ names' = [names EXCEPT ![path] = Len(inodes')]
        BY <1>5, <3>1 DEF Open
      <4>2. /\ inodes' \in Seq(Seq(Block))
            /\ Len(inodes') = Len(inodes) + 1 /\ Len(inodes) \in Nat
            /\ DOMAIN inodes = 1 .. Len(inodes)
            /\ DOMAIN inodes' = 1 .. Len(inodes')
        BY <4>1, <3>0, AppendProperties, LenProperties
      <4>3. DOMAIN inodes \subseteq DOMAIN inodes' /\ Len(inodes') \in DOMAIN inodes'
        BY <4>2
      <4> QED
        BY <4>1, <4>2, <4>3, <2>2
    <3>2. CASE names[path] # Absent
      <4>1. /\ inodes' = [inodes EXCEPT ![names[path]] = Empty]
            /\ names' = names /\ names[path] \in DOMAIN inodes
        BY <1>5, <3>2, <2>2 DEF Open
      <4>2. inodes' \in Seq(Seq(Block)) /\ DOMAIN inodes' = DOMAIN inodes
        BY <4>1, <3>0, ExceptSeq
      <4> QED
        BY <4>1, <4>2
    <3> QED
      BY <3>1, <3>2
  <2>4. fd' \in [Clients -> {None} \cup DOMAIN inodes'] /\ cut' \subseteq DOMAIN inodes'
    BY <2>1, <2>3
  <2>5. TypeOK'
    BY <2>1, <2>3, <2>4
  <2> HIDE DEF path
  <2>6. \A d \in Clients :
          /\ pc'[d] # "idle" => req'[d] \in Requests[d]
          /\ pc'[d] = "write" => req'[d].op = "save" /\ fd'[d] \in DOMAIN inodes'
    BY <2>1, <2>2, <2>3
  <2> QED
    BY <2>5, <2>6
<1>6. ASSUME NEW c \in Clients, Write(c) PROVE Types'
  <2>1. /\ UNCHANGED <<names, dirs, cut, req, action, calls>>
        /\ pc[c] = "write" /\ fd[c] \in DOMAIN inodes /\ req[c].op = "save"
        /\ pc' = [pc EXCEPT ![c] = "record"]
        /\ fd' = [fd EXCEPT ![c] = None]
        /\ inodes' = [inodes EXCEPT ![fd[c]] =
                         Overwrite(inodes[fd[c]], req[c].content)]
    BY <1>6 DEF Write, At, Goto
  <2>2. req[c].content \in Contents
    BY <2>1, Asked
  <2>3. inodes[fd[c]] \in Seq(Block)
    BY <2>1, ElementOfSeq, LenProperties
  <2>4. inodes' \in Seq(Seq(Block)) /\ DOMAIN inodes' = DOMAIN inodes
    BY <2>1, <2>2, <2>3, Overwritten, ExceptSeq, SMTT(30)
  <2> QED
    BY <2>1, <2>4
<1>7. ASSUME NEW c \in Clients, Record(c) \/ Abort(c) PROVE Types'
  <2>1. /\ UNCHANGED <<names, dirs, inodes, calls>>
        /\ pc' = [pc EXCEPT ![c] = "idle"] /\ req' = [req EXCEPT ![c] = None]
        /\ action' = [action EXCEPT ![c] = None] /\ fd' = [fd EXCEPT ![c] = None]
    BY <1>7 DEF Record, Abort, Finish, tree
  <2>2. cut' \subseteq DOMAIN inodes
    BY <1>7 DEF Record, Abort
  <2>3. \A d \in Clients : req'[d] \in {None} \cup Requests[d]
    BY <2>1
  <2> QED
    BY <2>1, <2>2, <2>3
<1> QED
  BY <1>1, <1>2, <1>3, <1>4, <1>5, <1>6, <1>7 DEF Next

-----------------------------------------------------------------------------
(* One name per file *)

LEMMA OneNamePerFileNext ==
    Types /\ OneNamePerFile /\ [Next]_vars => OneNamePerFile'
<1> SUFFICES ASSUME Types, OneNamePerFile, [Next]_vars PROVE OneNamePerFile'
  OBVIOUS
<1>0. /\ names \in [Notes -> {Absent} \cup DOMAIN inodes]
      /\ inodes \in Seq(Seq(Block))
  BY DEF Types, TypeOK
<1>1. CASE UNCHANGED names
  BY <1>1 DEF OneNamePerFile
<1>2. ASSUME NEW c \in Clients, Open(c), names' # names PROVE OneNamePerFile'
  <2>1. /\ req[c].op = "save" /\ pc[c] = "open"
        /\ inodes' = Append(inodes, Empty)
        /\ names' = [names EXCEPT ![req[c].path] = Len(inodes')]
    BY <1>2 DEF Open, At
  <2>2. Len(inodes') = Len(inodes) + 1 /\ Len(inodes) \in Nat
        /\ DOMAIN inodes = 1 .. Len(inodes)
    <3>1. Empty \in Seq(Block)
      BY EmptySeq DEF Empty
    <3> QED
      BY <2>1, <3>1, <1>0, AppendProperties, LenProperties
  <2>3. Len(inodes') \notin DOMAIN inodes /\ Len(inodes') # Absent
    BY <2>2, LocalAssumption
  <2>4. \A p \in Notes : names[p] # Len(inodes')
    BY <2>3, <1>0
  <2> QED
    BY <1>0, <2>1, <2>4 DEF OneNamePerFile
<1>3. ASSUME NEW c \in Clients, Delete(c) PROVE OneNamePerFile'
  <2>1. \/ UNCHANGED names
        \/ names' = [names EXCEPT ![req[c].path] = Absent]
    BY <1>3 DEF Delete
  <2> QED
    BY <2>1, <1>0 DEF OneNamePerFile
<1>4. ASSUME NEW c \in Clients, Rename(c) PROVE OneNamePerFile'
  <2>1. /\ req[c].op = "rename" /\ pc[c] = "rename"
        /\ names' = [names EXCEPT ![req[c].from] = Absent,
                                  ![req[c].path] = names[req[c].from]]
    BY <1>4 DEF Rename, At
  <2>2. req[c].path \in Notes /\ req[c].from \in Notes
    BY <2>1, Asked
  <2> QED
    BY <1>0, <2>1, <2>2 DEF OneNamePerFile
<1>5. ASSUME NEW c \in Clients,
             \/ Call(c) \/ StatToSave(c) \/ MkdirAll(c) \/ Write(c)
             \/ StatOld(c) \/ StatNew(c) \/ StatNamespace(c)
             \/ CreateNamespace(c) \/ Record(c) \/ Abort(c)
      PROVE  UNCHANGED names
  BY <1>5 DEF Call, StatToSave, MkdirAll, Write, StatOld, StatNew, StatNamespace,
              CreateNamespace, Record, Abort, Finish, tree
<1>6. UNCHANGED vars => UNCHANGED names
  BY DEF vars, tree
<1> QED
  BY <1>1, <1>2, <1>3, <1>4, <1>5, <1>6 DEF Next

-----------------------------------------------------------------------------
(* Empty files *)

LEMMA EmptyFilesNext == Types /\ EmptyFiles /\ [Next]_vars => EmptyFiles'
<1> SUFFICES ASSUME Types, EmptyFiles, [Next]_vars PROVE EmptyFiles'
  OBVIOUS
<1>0. /\ inodes \in Seq(Seq(Block)) /\ Empty \in Seq(Block)
      /\ pc \in [Clients -> {"idle", "asked", "mkdir", "open", "write",
                             "statnew", "rename", "record"}]
      /\ fd \in [Clients -> {None} \cup DOMAIN inodes]
  BY EmptySeq DEF Types, TypeOK, Empty
\* A step of c that neither opens nor closes a file.
<1>1. ASSUME NEW c \in Clients, pc[c] # "write", fd' = fd, inodes' = inodes,
             cut' = cut, NEW l, pc' = [pc EXCEPT ![c] = l]
      PROVE  EmptyFiles'
  BY <1>0, <1>1 DEF EmptyFiles
<1>2. ASSUME NEW c \in Clients,
             \/ Call(c) \/ StatToSave(c) \/ MkdirAll(c) \/ Delete(c)
             \/ StatOld(c) \/ StatNew(c) \/ Rename(c) \/ StatNamespace(c)
             \/ CreateNamespace(c)
      PROVE  EmptyFiles'
  <2>1. /\ UNCHANGED <<fd, inodes, cut>> /\ pc[c] # "write"
        /\ \E l \in {"asked", "mkdir", "open", "statnew", "rename", "record"} :
             pc' = [pc EXCEPT ![c] = l]
    BY <1>2 DEF Call, StatToSave, MkdirAll, Delete, StatOld, StatNew, Rename,
                StatNamespace, CreateNamespace, At, Goto, tree
  <2> QED
    BY <2>1, <1>1
<1>3. ASSUME NEW c \in Clients, Open(c) PROVE EmptyFiles'
  <2> DEFINE path == req[c].path
  <2>1. /\ pc[c] = "open" /\ req[c].op = "save" /\ cut' = cut
        /\ pc' = [pc EXCEPT ![c] = "write"]
        /\ fd' = [fd EXCEPT ![c] = names'[path]]
    BY <1>3 DEF Open, At, Goto
  <2>2. path \in Notes /\ names \in [Notes -> {Absent} \cup DOMAIN inodes]
    BY <2>1, Asked DEF Types, TypeOK
  <2>3. \A i \in DOMAIN inodes' : i # names'[path] =>
          i \in DOMAIN inodes /\ inodes'[i] = inodes[i]
    <3>1. CASE names[path] = Absent
      <4>1. inodes' = Append(inodes, Empty) /\ names'[path] = Len(inodes')
        BY <1>3, <3>1, <2>2 DEF Open
      <4> QED
        BY <4>1, <1>0, AppendProperties, LenProperties
    <3>2. CASE names[path] # Absent
      <4>1. /\ inodes' = [inodes EXCEPT ![names[path]] = Empty]
            /\ names' = names /\ names[path] \in DOMAIN inodes
        BY <1>3, <3>2, <2>2 DEF Open
      <4> QED
        BY <4>1, <1>0
    <3> QED
      BY <3>1, <3>2
  <2>4. fd'[c] = names'[path] /\ pc'[c] = "write"
        /\ \A d \in Clients : d # c => fd'[d] = fd[d] /\ pc'[d] = pc[d]
    BY <2>1, <1>0
  <2> HIDE DEF path
  <2> SUFFICES ASSUME NEW i \in DOMAIN inodes', inodes'[i] = Empty
               PROVE  (\E d \in Clients : pc'[d] = "write" /\ fd'[d] = i) \/ i \in cut'
    BY DEF EmptyFiles, Empty
  <2>5. CASE i = names'[path]
    BY <2>5, <2>4
  <2>6. CASE i # names'[path]
    <3>1. (\E d \in Clients : pc[d] = "write" /\ fd[d] = i) \/ i \in cut
      BY <2>6, <2>3 DEF EmptyFiles
    <3> QED
      BY <3>1, <2>1, <2>4
  <2> QED
    BY <2>5, <2>6
<1>4. ASSUME NEW c \in Clients, Write(c) PROVE EmptyFiles'
  <2>1. /\ pc[c] = "write" /\ fd[c] \in DOMAIN inodes /\ req[c].op = "save"
        /\ pc' = [pc EXCEPT ![c] = "record"] /\ cut' = cut
        /\ fd' = [fd EXCEPT ![c] = None]
        /\ inodes' = [inodes EXCEPT ![fd[c]] =
                         Overwrite(inodes[fd[c]], req[c].content)]
    BY <1>4 DEF Write, At, Goto, Types
  <2>2. req[c].content \in Contents /\ inodes[fd[c]] \in Seq(Block)
    BY <2>1, <1>0, Asked, ElementOfSeq, LenProperties
  <2>3. inodes'[fd[c]] # Empty
        /\ \A i \in DOMAIN inodes' : i # fd[c] =>
             i \in DOMAIN inodes /\ inodes'[i] = inodes[i]
    <3>1. Overwrite(inodes[fd[c]], req[c].content) # Empty
      BY <2>2, Overwritten
    <3> QED
      BY <3>1, <2>1, <1>0
  <2>4. \A d \in Clients : d # c => fd'[d] = fd[d] /\ pc'[d] = pc[d]
    BY <2>1, <1>0
  <2> SUFFICES ASSUME NEW i \in DOMAIN inodes', inodes'[i] = Empty
               PROVE  (\E d \in Clients : pc'[d] = "write" /\ fd'[d] = i) \/ i \in cut'
    BY DEF EmptyFiles, Empty
  <2>5. i # fd[c] /\ i \in DOMAIN inodes /\ inodes[i] = Empty
    BY <2>3
  <2> QED
    BY <2>5, <2>4, <2>1 DEF EmptyFiles
<1>5. ASSUME NEW c \in Clients, Record(c) \/ Abort(c) PROVE EmptyFiles'
  <2>1. /\ inodes' = inodes
        /\ cut' = IF pc[c] = "write" THEN cut \cup {fd[c]} ELSE cut
        /\ \A d \in Clients : d # c => fd'[d] = fd[d] /\ pc'[d] = pc[d]
    BY <1>5, <1>0 DEF Record, Abort, Finish, tree
  <2> SUFFICES ASSUME NEW i \in DOMAIN inodes, inodes[i] = Empty
               PROVE  (\E d \in Clients : pc'[d] = "write" /\ fd'[d] = i) \/ i \in cut'
    BY <2>1 DEF EmptyFiles, Empty
  <2>2. (\E d \in Clients : pc[d] = "write" /\ fd[d] = i) \/ i \in cut
    BY DEF EmptyFiles
  <2> QED
    BY <2>1, <2>2
<1>6. CASE UNCHANGED vars
  BY <1>6 DEF vars, tree, EmptyFiles
<1> QED
  BY <1>2, <1>3, <1>4, <1>5, <1>6 DEF Next

-----------------------------------------------------------------------------
(* Clients with notes of their own *)

Step(c) ==
    \/ Call(c) \/ StatToSave(c) \/ MkdirAll(c) \/ Open(c) \/ Write(c)
    \/ Delete(c) \/ StatOld(c) \/ StatNew(c) \/ Rename(c)
    \/ StatNamespace(c) \/ CreateNamespace(c) \/ Record(c) \/ Abort(c)

\* What the checks of a request have found is still so: nobody else touches
\* its notes.  In particular the action it has chosen is the right one, and
\* the file it has open is the one its path names.
Steady(c) ==
    LET path == req[c].path IN
    /\ pc[c] = "idle" => req[c] = None
    /\ pc[c] \in {"mkdir", "open"} /\ req[c].op = "save" =>
         action[c] = IF names[path] = Absent THEN "create" ELSE "update"
    /\ pc[c] = "write" =>
         /\ names[path] # Absent /\ fd[c] = names[path]
         /\ inodes[names[path]] = Empty
    /\ pc[c] = "statnew" => names[req[c].from] # Absent /\ req[c].op = "rename"
    /\ pc[c] = "rename" =>
         /\ names[req[c].from] # Absent /\ names[path] = Absent
         /\ req[c].op = "rename"
    /\ pc[c] = "record" /\ req[c].op = "save" =>
         names[path] # Absent /\ inodes[names[path]] # Empty
    /\ pc[c] \in {"write", "record"} =>
         action[c] \in {"create", "update", "delete", "rename"}

Calm == IInv /\ \A c \in Clients : Steady(c)

\* What a step of c does not touch.
LEMMA OthersStay ==
    ASSUME Types, NEW c \in Clients, Step(c), NEW d \in Clients, d # c
    PROVE  /\ pc'[d] = pc[d] /\ req'[d] = req[d]
           /\ action'[d] = action[d] /\ fd'[d] = fd[d]
<1> USE DEF Types, TypeOK
<1>1. /\ \E x : pc' = [pc EXCEPT ![c] = x]
      /\ req' = req \/ \E x : req' = [req EXCEPT ![c] = x]
      /\ action' = action \/ \E x : action' = [action EXCEPT ![c] = x]
      /\ fd' = fd \/ \E x : fd' = [fd EXCEPT ![c] = x]
  <2>1. CASE Call(c) \/ StatToSave(c) \/ MkdirAll(c) \/ Open(c) \/ Write(c)
    BY <2>1 DEF Call, StatToSave, MkdirAll, Open, Write, Goto
  <2>2. CASE Delete(c) \/ StatOld(c) \/ StatNew(c) \/ Rename(c)
             \/ StatNamespace(c) \/ CreateNamespace(c)
    BY <2>2 DEF Delete, StatOld, StatNew, Rename, StatNamespace,
                CreateNamespace, Goto
  <2>3. CASE Record(c) \/ Abort(c)
    BY <2>3 DEF Record, Abort, Finish
  <2> QED BY <2>1, <2>2, <2>3 DEF Step
<1>2. pc'[d] = pc[d]
  BY <1>1
<1>3. req'[d] = req[d]
  BY <1>1
<1>4. action'[d] = action[d]
  BY <1>1
<1>5. fd'[d] = fd[d]
  BY <1>1
<1> QED BY <1>2, <1>3, <1>4, <1>5

LEMMA NotesStay ==
    ASSUME Calm, NEW c \in Clients, Step(c),
           NEW p \in Notes, pc[c] = "idle" \/ p \notin Named(req[c])
    PROVE  /\ names'[p] = names[p]
           /\ names[p] # Absent => inodes'[names[p]] = inodes[names[p]]
<1>0. /\ Types /\ OneNamePerFile /\ Steady(c)
      /\ inodes \in Seq(Seq(Block)) /\ DOMAIN inodes = 1 .. Len(inodes)
      /\ Len(inodes) \in Nat
      /\ names \in [Notes -> {Absent} \cup DOMAIN inodes]
  BY LenProperties DEF Calm, IInv, Types, TypeOK
<1>1. CASE UNCHANGED <<names, inodes>>
  BY <1>1
<1>2. CASE Open(c)
  <2>1. pc[c] = "open" /\ req[c].op = "save" /\ req[c].path \in Notes
    BY <1>2, <1>0, Asked DEF Open, At
  <2>2. p # req[c].path
    BY <2>1 DEF Named
  <2>3. CASE names[req[c].path] = Absent
    <3>1. /\ inodes' = Append(inodes, Empty)
          /\ names' = [names EXCEPT ![req[c].path] = Len(inodes')]
      BY <1>2, <2>3 DEF Open
    <3>2. Empty \in Seq(Block)
      BY EmptySeq DEF Empty
    <3>3. \A i \in DOMAIN inodes : inodes'[i] = inodes[i]
      BY <1>0, <3>1, <3>2, AppendProperties
    <3> QED BY <1>0, <2>1, <2>2, <3>1, <3>3
  <2>4. CASE names[req[c].path] # Absent
    <3>1. /\ inodes' = [inodes EXCEPT ![names[req[c].path]] = Empty]
          /\ names' = names
      BY <1>2, <2>4 DEF Open
    <3>2. names[p] # names[req[c].path]
      BY <1>0, <2>1, <2>2, <2>4 DEF OneNamePerFile
    <3> QED BY <1>0, <3>1, <3>2
  <2> QED BY <2>3, <2>4
<1>3. CASE Write(c)
  <2>1. pc[c] = "write" /\ req[c].op = "save" /\ req[c].path \in Notes
    BY <1>3, <1>0, Asked DEF Write, At
  <2>2. p # req[c].path /\ fd[c] = names[req[c].path] /\ names[req[c].path] # Absent
    BY <1>0, <2>1 DEF Named, Steady
  <2>3. names[p] # fd[c]
    BY <1>0, <2>1, <2>2 DEF OneNamePerFile
  <2>4. /\ names' = names
        /\ inodes' = [inodes EXCEPT ![fd[c]] =
                        Overwrite(inodes[fd[c]], req[c].content)]
    BY <1>3 DEF Write
  <2> QED BY <1>0, <2>3, <2>4
<1>4. CASE Delete(c)
  <2>1. pc[c] # "idle" /\ req[c].op = "delete" /\ inodes' = inodes
    BY <1>4 DEF Delete, At
  <2>2. names' = names \/ names' = [names EXCEPT ![req[c].path] = Absent]
    BY <1>4 DEF Delete
  <2>3. p # req[c].path
    BY <2>1 DEF Named
  <2> QED BY <1>0, <2>1, <2>2, <2>3
<1>5. CASE Rename(c)
  <2>1. pc[c] # "idle" /\ req[c].op = "rename" /\ inodes' = inodes
        /\ names' = [names EXCEPT ![req[c].from] = Absent,
                                  ![req[c].path] = names[req[c].from]]
    BY <1>5 DEF Rename, At
  <2>2. p # req[c].path /\ p # req[c].from
    BY <2>1 DEF Named
  <2> QED BY <1>0, <2>1, <2>2
<1>6. CASE \/ Call(c) \/ StatToSave(c) \/ MkdirAll(c) \/ StatOld(c)
           \/ StatNew(c) \/ StatNamespace(c) \/ CreateNamespace(c)
           \/ Record(c) \/ Abort(c)
  BY <1>1, <1>6 DEF Call, StatToSave, MkdirAll, StatOld, StatNew,
     StatNamespace, CreateNamespace, Record, Abort, Finish, tree
<1> QED
  BY <1>2, <1>3, <1>4, <1>5, <1>6 DEF Step

\* Another client's step leaves what a request has found as it is.
LEMMA SteadyForOthers ==
    ASSUME Apart, Calm, NEW c \in Clients, Step(c), NEW d \in Clients, d # c
    PROVE  Steady(d)'
<1>0. Types /\ Steady(d)
  BY DEF Calm, IInv
<1>1. /\ pc'[d] = pc[d] /\ req'[d] = req[d]
      /\ action'[d] = action[d] /\ fd'[d] = fd[d]
  BY <1>0, OthersStay
<1>2. ASSUME NEW p \in Named(req[d]) \cap Notes, pc[d] # "idle"
      PROVE  /\ names'[p] = names[p]
             /\ names[p] # Absent => inodes'[names[p]] = inodes[names[p]]
  <2>1. ASSUME pc[c] # "idle" PROVE p \notin Named(req[c])
    <3>1. req[c] \in Requests[c] /\ req[d] \in Requests[d]
      BY <1>0, <1>2, <2>1 DEF Types
    <3>2. Named(req[d]) \cap Named(req[c]) = {}
      BY <3>1 DEF Apart
    <3> QED BY <3>2, <1>2
  <2> QED BY <2>1, NotesStay
<1>3. CASE pc[d] = "idle"
  BY <1>0, <1>1, <1>3 DEF Steady
<1>4. ASSUME pc[d] # "idle", req[d].op = "save" PROVE Steady(d)'
  <2>1. req[d].path \in Named(req[d]) \cap Notes
    BY <1>0, <1>4, Asked DEF Named
  <2>2. /\ names'[req[d].path] = names[req[d].path]
        /\ names[req[d].path] # Absent =>
             inodes'[names[req[d].path]] = inodes[names[req[d].path]]
    BY <1>2, <1>4, <2>1
  <2> QED BY <1>0, <1>1, <1>4, <2>2 DEF Steady, Types
<1>5. ASSUME pc[d] # "idle", req[d].op = "rename" PROVE Steady(d)'
  <2>1. {req[d].path, req[d].from} \subseteq Named(req[d]) \cap Notes
    BY <1>0, <1>5, Asked DEF Named
  <2>2. /\ names'[req[d].path] = names[req[d].path]
        /\ names'[req[d].from] = names[req[d].from]
    BY <1>2, <1>5, <2>1
  <2>3. pc[d] # "write"
    BY <1>0, <1>5 DEF Types
  <2> QED BY <1>0, <1>1, <1>5, <2>2, <2>3 DEF Steady
<1>6. ASSUME pc[d] # "idle", req[d].op \notin {"save", "rename"} PROVE Steady(d)'
  <2>1. pc[d] \notin {"write", "statnew", "rename"}
    BY <1>0, <1>6 DEF Types, Steady
  <2> QED BY <1>0, <1>1, <1>6, <2>1 DEF Steady
<1> QED BY <1>3, <1>4, <1>5, <1>6

\* The note a save opens is there, and empty.
LEMMA Opened ==
    ASSUME Types, NEW c \in Clients, Open(c)
    PROVE  /\ names'[req[c].path] # Absent
           /\ inodes'[names'[req[c].path]] = Empty
<1>0. /\ inodes \in Seq(Seq(Block)) /\ DOMAIN inodes = 1 .. Len(inodes)
      /\ Len(inodes) \in Nat
      /\ names \in [Notes -> {Absent} \cup DOMAIN inodes]
  BY LenProperties DEF Types, TypeOK
<1>1. pc[c] = "open" /\ req[c].op = "save" /\ req[c].path \in Notes
  BY Asked DEF Open, At
<1>2. CASE names[req[c].path] = Absent
  <2>1. /\ inodes' = Append(inodes, Empty)
        /\ names' = [names EXCEPT ![req[c].path] = Len(inodes')]
    BY <1>2 DEF Open
  <2>2. Empty \in Seq(Block)
    BY EmptySeq DEF Empty
  <2>3. Len(inodes') = Len(inodes) + 1 /\ inodes'[Len(inodes')] = Empty
    BY <1>0, <2>1, <2>2, AppendProperties
  <2>4. names'[req[c].path] = Len(inodes') /\ Len(inodes') \in Nat
    BY <1>0, <1>1, <2>1, <2>3
  <2> QED BY <2>3, <2>4, LocalAssumption
<1>3. CASE names[req[c].path] # Absent
  <2>1. /\ inodes' = [inodes EXCEPT ![names[req[c].path]] = Empty]
        /\ names' = names
    BY <1>3 DEF Open
  <2> QED BY <1>0, <1>1, <1>3, <2>1
<1> QED BY <1>2, <1>3

\* Its own step leaves it so, too.
LEMMA SteadyForOneself ==
    ASSUME Calm, NEW c \in Clients, Step(c) PROVE Steady(c)'
<1>0. /\ Types /\ Steady(c)
      /\ inodes \in Seq(Seq(Block)) /\ DOMAIN inodes = 1 .. Len(inodes)
      /\ names \in [Notes -> {Absent} \cup DOMAIN inodes]
  BY LenProperties DEF Calm, IInv, Types, TypeOK
<1>1. /\ pc \in [Clients -> {"idle", "asked", "mkdir", "open", "write",
                             "statnew", "rename", "record"}]
      /\ DOMAIN req = Clients /\ DOMAIN action = Clients /\ DOMAIN fd = Clients
  BY <1>0 DEF Types, TypeOK
<1>2. CASE Call(c)
  <2>1. pc'[c] = "asked"
    BY <1>1, <1>2 DEF Call
  <2> QED BY <2>1 DEF Steady
<1>3. CASE StatToSave(c)
  <2>1. /\ pc'[c] = "mkdir" /\ req' = req /\ names' = names /\ req[c].op = "save"
        /\ action'[c] = IF Exists(req[c].path) THEN "update" ELSE "create"
        /\ pc[c] # "idle"
    BY <1>1, <1>3 DEF StatToSave, Goto, At, tree
  <2>2. req[c].path \in Notes
    BY <1>0, <2>1, Asked
  <2>3. action'[c] = IF names[req[c].path] = Absent THEN "create" ELSE "update"
    BY <2>1, <2>2 DEF Exists, IsNote
  <2> QED BY <2>1, <2>3 DEF Steady
<1>4. CASE MkdirAll(c)
  <2>1. /\ pc[c] = "mkdir" /\ pc'[c] = "open"
        /\ req' = req /\ names' = names /\ action' = action
    BY <1>1, <1>4 DEF MkdirAll, Goto, At
  <2> QED BY <1>0, <2>1 DEF Steady
<1>5. CASE Open(c)
  <2>1. /\ pc[c] = "open" /\ pc'[c] = "write" /\ req[c].op = "save"
        /\ req' = req /\ action' = action /\ fd'[c] = names'[req[c].path]
    BY <1>1, <1>5 DEF Open, Goto, At
  <2>2. req[c].path \in Notes
    BY <1>0, <2>1, Asked
  <2>3. action[c] \in {"create", "update", "delete", "rename"}
    BY <1>0, <2>1 DEF Steady
  <2>4. names'[req[c].path] # Absent /\ inodes'[names'[req[c].path]] = Empty
    BY <1>0, <1>5, <2>2, Opened
  <2> QED BY <2>1, <2>3, <2>4 DEF Steady
<1>6. CASE Write(c)
  <2>1. /\ pc[c] = "write" /\ pc'[c] = "record" /\ req[c].op = "save"
        /\ UNCHANGED <<req, names, action>> /\ fd[c] = names[req[c].path]
        /\ fd[c] # Absent
        /\ inodes' = [inodes EXCEPT ![fd[c]] =
                        Overwrite(inodes[fd[c]], req[c].content)]
    BY <1>0, <1>1, <1>6 DEF Write, Goto, At, Steady
  <2>2. req[c].path \in Notes /\ req[c].content \in Contents
    BY <1>0, <2>1, Asked
  <2>3. fd[c] \in DOMAIN inodes /\ inodes[fd[c]] \in Seq(Block)
    BY <1>0, <2>1, <2>2, ElementOfSeq
  <2>4. inodes'[names[req[c].path]] # Empty
    BY <2>1, <2>2, <2>3, Overwritten
  <2>5. action[c] \in {"create", "update", "delete", "rename"}
    BY <1>0, <2>1 DEF Steady
  <2> QED BY <2>1, <2>4, <2>5 DEF Steady
<1>7. CASE Delete(c)
  <2>1. /\ pc'[c] = "record" /\ req' = req /\ req[c].op = "delete"
        /\ action'[c] = "delete"
    BY <1>1, <1>7 DEF Delete, Goto, At
  <2> QED BY <2>1 DEF Steady
<1>8. CASE StatOld(c)
  <2>1. /\ pc'[c] = "statnew" /\ UNCHANGED <<req, names>> /\ req[c].op = "rename"
        /\ Exists(req[c].from) /\ pc[c] # "idle"
    BY <1>1, <1>8 DEF StatOld, Goto, At, tree
  <2>2. names[req[c].from] # Absent
    BY <1>0, <2>1, Asked DEF Exists, IsNote
  <2> QED BY <2>1, <2>2 DEF Steady
<1>9. CASE StatNew(c)
  <2>1. /\ pc'[c] = "rename" /\ UNCHANGED <<req, names>> /\ req[c].op = "rename"
        /\ ~Exists(req[c].path) /\ pc[c] = "statnew"
    BY <1>1, <1>9 DEF StatNew, Goto, At, tree
  <2>2. names[req[c].path] = Absent
    BY <1>0, <2>1, Asked DEF Exists, IsNote
  <2> QED BY <1>0, <2>1, <2>2 DEF Steady
<1>10. CASE Rename(c)
  <2>1. /\ pc'[c] = "record" /\ req' = req /\ req[c].op = "rename"
        /\ action'[c] = "rename"
    BY <1>1, <1>10 DEF Rename, Goto, At
  <2> QED BY <2>1 DEF Steady
<1>11. CASE StatNamespace(c)
  <2>1. /\ pc'[c] = "mkdir" /\ req' = req /\ req[c].op = "namespace"
    BY <1>1, <1>11 DEF StatNamespace, Goto, At
  <2> QED BY <2>1 DEF Steady
<1>12. CASE CreateNamespace(c)
  <2>1. /\ pc'[c] = "record" /\ req' = req /\ req[c].op = "namespace"
        /\ action'[c] = "create"
    BY <1>1, <1>12 DEF CreateNamespace, Goto, At
  <2> QED BY <2>1 DEF Steady
<1>13. CASE Record(c) \/ Abort(c)
  <2>1. pc'[c] = "idle" /\ req'[c] = None
    BY <1>1, <1>13 DEF Record, Abort, Finish
  <2> QED BY <2>1 DEF Steady
<1> QED
  BY <1>2, <1>3, <1>4, <1>5, <1>6, <1>7, <1>8, <1>9, <1>10, <1>11, <1>12,
     <1>13 DEF Step

LEMMA CalmNext == ASSUME Apart, Calm, [Next]_vars PROVE Calm'
<1>1. IInv'
  BY TypesNext, OneNamePerFileNext, EmptyFilesNext DEF Calm, IInv
<1>2. ASSUME NEW c \in Clients, Step(c), NEW d \in Clients PROVE Steady(d)'
  BY <1>2, SteadyForOthers, SteadyForOneself
<1>3. ASSUME UNCHANGED vars, NEW d \in Clients PROVE Steady(d)'
  <2>1. Steady(d) /\ UNCHANGED <<names, inodes, pc, req, action, fd>>
    BY <1>3 DEF Calm, vars, tree
  <2> QED BY <2>1 DEF Steady
<1>4. Next => \E c \in Clients : Step(c)
  BY DEF Next, Step
<1> QED BY <1>1, <1>2, <1>3, <1>4 DEF Calm

LEMMA CalmAtFirst == Init => Calm
<1> SUFFICES ASSUME Init PROVE Calm
  OBVIOUS
<1>1. \A c \in Clients : pc[c] = "idle" /\ req[c] = None
  BY DEF Init
<1> QED BY <1>1, Initially DEF Calm, Steady

-----------------------------------------------------------------------------
(* The contract *)

\* The variables of the contract, as V substitutes them.
Stored == [p \in Notes |-> IF names[p] = Absent THEN Absent ELSE inodes[names[p]]]
Reqs == [c \in Clients |-> NoteRequest(req[c])]
Effects == [c \in Clients |-> IF Changed(c) THEN EntryOf(c) ELSE None]

LEMMA NothingOverEmpty == ASSUME NEW new \in Contents PROVE Overwrite(Empty, new) = new
<1>1. new \in Seq(Block) /\ Len(new) \in Nat
  BY LocalAssumption, LenProperties
<1>2. SubSeq(Empty, Len(new) + 1, Len(Empty)) = <<>>
  BY <1>1 DEF Empty
<1>3. new \o <<>> = new
  BY <1>1
<1> QED BY <1>2, <1>3 DEF Overwrite

\* What the contract sees of a request.
LEMMA Requested ==
    ASSUME Types, NEW c \in Clients, pc[c] # "idle"
    PROVE  /\ Reqs[c] # None /\ Reqs[c].op = req[c].op /\ Reqs[c].path = req[c].path
           /\ req[c].op = "save" => Reqs[c].content = req[c].content
           /\ req[c].op = "rename" => Reqs[c].from = req[c].from
           /\ req[c].op = "delete" => Reqs[c].gone = {req[c].path} \cap Notes
<1>1. req[c] \in Requests[c] /\ req[c] # None
  BY LocalAssumption DEF Types
<1>2. CASE req[c].op = "delete"
  <2>1. req[c].path \in Notes \cup Dirs
    BY <1>2, Asked
  <2>2. Reqs[c] = [op |-> "delete", path |-> req[c].path,
                   gone |-> {req[c].path} \cap Notes]
    BY <1>1, <1>2 DEF Reqs, NoteRequest
  <2>3. Reqs[c] # None
    BY <2>1, <2>2, LocalAssumption
  <2> QED BY <1>2, <2>2, <2>3
<1>3. CASE req[c].op # "delete"
  BY <1>1, <1>3 DEF Reqs, NoteRequest
<1> QED BY <1>2, <1>3

LEMMA EntryIsSomething ==
    ASSUME Calm, NEW c \in Clients, pc[c] \in {"write", "record"}
    PROVE  EntryOf(c) # None /\ Effects[c] = EntryOf(c)
<1>1. Types /\ action[c] \in {"create", "update", "delete", "rename"}
  BY DEF Calm, IInv, Steady
<1>2. req[c] \in Requests[c]
  BY <1>1 DEF Types
<1>3. req[c].path \in Notes \cup Dirs /\ (req[c].op = "rename" => req[c].from \in Notes)
  <2>1. req[c] \in [op : {"save"}, path : Notes, content : Contents]
         \cup [op : {"delete"}, path : Notes \cup Dirs]
         \cup [op : {"rename"}, from : Notes, path : Notes]
         \cup [op : {"namespace"}, path : Dirs]
    BY <1>2, LocalAssumption
  <2> QED BY <2>1
<1>4. EntryOf(c) \in [action : {"create", "update", "delete", "rename"},
                      path : Notes \cup Dirs, prev : {None} \cup Notes]
  BY <1>1, <1>3 DEF EntryOf, Entry
<1> QED BY <1>4, LocalAssumption DEF Effects, Changed

\* What a step of c changes in the contract's variables.
LEMMA Mapped ==
    ASSUME Types, NEW c \in Clients, Step(c)
    PROVE  /\ Reqs' = [Reqs EXCEPT ![c] = NoteRequest(req'[c])]
           /\ Effects' = [Effects EXCEPT ![c] =
                IF pc'[c] \in {"write", "record"} THEN EntryOf(c)' ELSE None]
<1>1. \A d \in Clients : d # c => /\ pc'[d] = pc[d] /\ req'[d] = req[d]
                                  /\ action'[d] = action[d]
  BY OthersStay
<1>2. \A d \in Clients : d # c => EntryOf(d)' = EntryOf(d)
  BY <1>1 DEF EntryOf
<1>3. Reqs' = [Reqs EXCEPT ![c] = NoteRequest(req'[c])]
  <2>1. Reqs' = [d \in Clients |-> NoteRequest(req'[d])]
    BY DEF Reqs, NoteRequest
  <2> QED BY <1>1, <2>1 DEF Reqs
<1>4. Effects' = [Effects EXCEPT ![c] =
                    IF pc'[c] \in {"write", "record"} THEN EntryOf(c)' ELSE None]
  BY <1>1, <1>2 DEF Effects, Changed
<1> QED BY <1>3, <1>4

LEMMA StoredStays ==
    ASSUME Calm, NEW c \in Clients, Step(c),
           NEW p \in Notes, pc[c] = "idle" \/ p \notin Named(req[c])
    PROVE  Stored'[p] = Stored[p]
<1>1. /\ names'[p] = names[p]
      /\ names[p] # Absent => inodes'[names[p]] = inodes[names[p]]
  BY NotesStay
<1> QED BY <1>1 DEF Stored

LEMMA StoredIsText ==
    ASSUME Types, NEW p \in Notes
    PROVE  /\ Stored[p] = IF names[p] = Absent THEN Absent ELSE inodes[names[p]]
           /\ Stored[p] = Absent <=> names[p] = Absent
           /\ Absent # Empty
<1>1. /\ inodes \in Seq(Seq(Block)) /\ DOMAIN inodes = 1 .. Len(inodes)
      /\ names \in [Notes -> {Absent} \cup DOMAIN inodes]
  BY LenProperties DEF Types, TypeOK
<1>2. ASSUME names[p] # Absent PROVE inodes[names[p]] # Absent
  <2>1. names[p] \in 1 .. Len(inodes)
    BY <1>1, <1>2
  <2>2. inodes[names[p]] \in Seq(Block)
    BY <1>1, <2>1, ElementOfSeq
  <2> QED BY <2>2, LocalAssumption
<1>3. Empty \in Seq(Block)
  BY EmptySeq DEF Empty
<1>4. Absent # Empty
  BY <1>3, LocalAssumption
<1>5. Stored[p] = IF names[p] = Absent THEN Absent ELSE inodes[names[p]]
  BY DEF Stored
<1> QED BY <1>2, <1>4, <1>5

\* The changes of the store, one system call after another.
LEMMA OpenBegins ==
    ASSUME Calm, NEW c \in Clients, Open(c)
    PROVE  /\ req[c].path \in Notes
           /\ Stored' = [Stored EXCEPT ![req[c].path] = Empty]
           /\ action[c] = IF Stored[req[c].path] = Absent THEN "create" ELSE "update"
<1>1. Types /\ Steady(c) /\ pc[c] = "open" /\ req[c].op = "save" /\ Step(c)
  BY DEF Calm, IInv, Open, At, Step
<1>2. req[c].path \in Notes
  BY <1>1, Asked
<1>3. Stored'[req[c].path] = Empty
  <2>1. /\ names'[req[c].path] # Absent
        /\ inodes'[names'[req[c].path]] = Empty
    BY <1>1, Opened
  <2> QED BY <2>1, <1>2 DEF Stored
<1>4. ASSUME NEW p \in Notes, p # req[c].path PROVE Stored'[p] = Stored[p]
  <2>1. p \notin Named(req[c])
    BY <1>1, <1>4 DEF Named
  <2> QED BY <1>1, <2>1, StoredStays
<1>5. Stored' = [Stored EXCEPT ![req[c].path] = Empty]
  BY <1>2, <1>3, <1>4 DEF Stored
<1>6. action[c] = IF Stored[req[c].path] = Absent THEN "create" ELSE "update"
  <2>1. action[c] = IF names[req[c].path] = Absent THEN "create" ELSE "update"
    BY <1>1 DEF Steady
  <2>2. Stored[req[c].path] = Absent <=> names[req[c].path] = Absent
    BY <1>1, <1>2, StoredIsText
  <2> QED BY <2>1, <2>2
<1> QED BY <1>2, <1>5, <1>6

LEMMA WriteEnds ==
    ASSUME Calm, NEW c \in Clients, Write(c)
    PROVE  /\ req[c].path \in Notes
           /\ Stored[req[c].path] = Empty
           /\ Stored' = [Stored EXCEPT ![req[c].path] = req[c].content]
<1>1. Types /\ Steady(c) /\ pc[c] = "write" /\ req[c].op = "save" /\ Step(c)
  BY DEF Calm, IInv, Write, At, Step
<1>2. req[c].path \in Notes /\ req[c].content \in Contents
  BY <1>1, Asked
<1>3. /\ names[req[c].path] # Absent /\ fd[c] = names[req[c].path]
      /\ inodes[fd[c]] = Empty /\ fd[c] \in DOMAIN inodes
  BY <1>1 DEF Steady, Types
<1>4. Stored[req[c].path] = Empty
  BY <1>2, <1>3 DEF Stored
<1>5. Stored'[req[c].path] = req[c].content
  <2>1. /\ names' = names
        /\ inodes' = [inodes EXCEPT ![fd[c]] =
                        Overwrite(inodes[fd[c]], req[c].content)]
    BY DEF Write
  <2>2. inodes'[fd[c]] = req[c].content
    BY <1>2, <1>3, <2>1, NothingOverEmpty
  <2> QED BY <1>2, <1>3, <2>1, <2>2 DEF Stored
<1>6. ASSUME NEW p \in Notes, p # req[c].path PROVE Stored'[p] = Stored[p]
  <2>1. p \notin Named(req[c])
    BY <1>1, <1>6 DEF Named
  <2> QED BY <1>1, <2>1, StoredStays
<1>7. Stored' = [Stored EXCEPT ![req[c].path] = req[c].content]
  BY <1>2, <1>5, <1>6 DEF Stored
<1> QED BY <1>2, <1>4, <1>7

LEMMA DeleteRemoves ==
    ASSUME Calm, NEW c \in Clients, Delete(c)
    PROVE  /\ req[c].path \in Notes => Stored[req[c].path] # Absent
           /\ Stored' = [p \in Notes |-> IF p \in {req[c].path} \cap Notes
                                           THEN Absent ELSE Stored[p]]
<1>1. Types /\ pc[c] = "asked" /\ req[c].op = "delete" /\ Step(c)
  BY DEF Calm, IInv, Delete, At, Step
<1>2. ASSUME req[c].path \in Notes
      PROVE  Stored[req[c].path] # Absent /\ Stored'[req[c].path] = Absent
  <2>1. names[req[c].path] # Absent
        /\ names' = [names EXCEPT ![req[c].path] = Absent]
    BY <1>2 DEF Delete, Exists, IsNote
  <2>2. names'[req[c].path] = Absent
    BY <2>1, <1>1, <1>2 DEF Types, TypeOK
  <2> QED BY <1>1, <1>2, <2>1, <2>2, StoredIsText DEF Stored
<1>3. ASSUME NEW p \in Notes, p # req[c].path PROVE Stored'[p] = Stored[p]
  <2>1. p \notin Named(req[c])
    BY <1>1, <1>3 DEF Named
  <2> QED BY <1>1, <2>1, StoredStays
<1>4. Stored' = [p \in Notes |-> Stored'[p]]
  BY DEF Stored
<1> QED BY <1>2, <1>3, <1>4

LEMMA RenameMoves ==
    ASSUME Calm, NEW c \in Clients, Rename(c)
    PROVE  /\ req[c].path \in Notes /\ req[c].from \in Notes
           /\ Stored[req[c].from] # Absent /\ Stored[req[c].path] = Absent
           /\ Stored' = [Stored EXCEPT ![req[c].path] = Stored[req[c].from],
                                       ![req[c].from] = Absent]
<1>1. Types /\ Steady(c) /\ pc[c] = "rename" /\ req[c].op = "rename" /\ Step(c)
  BY DEF Calm, IInv, Rename, At, Step
<1>2. req[c].path \in Notes /\ req[c].from \in Notes
  BY <1>1, Asked
<1>3. names[req[c].from] # Absent /\ names[req[c].path] = Absent
  BY <1>1 DEF Steady
<1>4. /\ inodes' = inodes /\ names \in [Notes -> {Absent} \cup DOMAIN inodes]
      /\ names' = [names EXCEPT ![req[c].from] = Absent,
                                ![req[c].path] = names[req[c].from]]
  BY <1>1 DEF Rename, Types, TypeOK
<1>5. names'[req[c].path] = names[req[c].from] /\ names'[req[c].from] = Absent
  BY <1>2, <1>3, <1>4
<1>6. Stored'[req[c].path] = Stored[req[c].from] /\ Stored'[req[c].from] = Absent
  BY <1>2, <1>4, <1>5 DEF Stored
<1>7. ASSUME NEW p \in Notes, p # req[c].path, p # req[c].from
      PROVE  Stored'[p] = Stored[p]
  <2>1. p \notin Named(req[c])
    BY <1>1, <1>7 DEF Named
  <2> QED BY <1>1, <2>1, StoredStays
<1>8. req[c].path # req[c].from
  BY <1>3
<1>9. Stored' = [Stored EXCEPT ![req[c].path] = Stored[req[c].from],
                               ![req[c].from] = Absent]
  BY <1>2, <1>6, <1>7, <1>8 DEF Stored
<1>10. Stored[req[c].from] # Absent /\ Stored[req[c].path] = Absent
  BY <1>1, <1>2, <1>3, StoredIsText
<1> QED BY <1>2, <1>9, <1>10

LEMMA StoreStays ==
    ASSUME Calm, NEW c \in Clients, Step(c), UNCHANGED <<names, inodes>>
    PROVE  Stored' = Stored
BY DEF Stored

\* Every system call is a step of the contract, or changes nothing it speaks
\* of.
LEMMA StepIsOfVault ==
    ASSUME Calm, Calm', NEW c \in Clients, Step(c)
    PROVE  \/ UNCHANGED V!vars
           \/ V!Call(c) \/ V!BeginSave(c) \/ V!EndSave(c) \/ V!Delete(c)
           \/ V!Rename(c) \/ V!CreateNamespace(c) \/ V!Reject(c)
           \/ V!Record(c) \/ V!Lose(c)
<1>0. Types /\ Steady(c)
  BY DEF Calm, IInv
<1>1. /\ pc \in [Clients -> {"idle", "asked", "mkdir", "open", "write",
                             "statnew", "rename", "record"}]
      /\ DOMAIN req = Clients /\ DOMAIN action = Clients
  BY <1>0 DEF Types, TypeOK
<1>2. /\ Reqs' = [Reqs EXCEPT ![c] = NoteRequest(req'[c])]
      /\ Effects' = [Effects EXCEPT ![c] =
           IF pc'[c] \in {"write", "record"} THEN EntryOf(c)' ELSE None]
  BY <1>0, Mapped
<1>3. pc[c] \notin {"write", "record"} => Effects[c] = None
  BY DEF Effects, Changed
<1>4. ASSUME req'[c] = req[c] PROVE Reqs' = Reqs
  <2>1. Reqs[c] = NoteRequest(req'[c])
    BY <1>4 DEF Reqs
  <2> QED BY <1>2, <2>1 DEF Reqs
<1>5. CASE Call(c)
  <2>1. PICK r \in Requests[c] : req' = [req EXCEPT ![c] = r]
    BY <1>5 DEF Call
  <2>2. /\ pc[c] = "idle" /\ pc'[c] = "asked"
        /\ calls < MaxCalls /\ calls' = calls + 1
        /\ UNCHANGED <<names, inodes, log, lost>>
    BY <1>1, <1>5 DEF Call, tree
  <2>3. req'[c] = r /\ req[c] = None
    BY <1>0, <1>1, <2>1, <2>2 DEF Steady
  <2>4. Effects' = Effects
    BY <1>2, <1>3, <2>2 DEF Effects
  <2>5. Reqs[c] = None
    BY <2>3 DEF Reqs, NoteRequest
  <2>6. Stored' = Stored
    BY <2>2, StoreStays
  <2>7. \E x \in {NoteRequest(q) : q \in UNION {Requests[d] : d \in Clients}} :
          Reqs' = [Reqs EXCEPT ![c] = x]
    BY <1>2, <2>3
  <2>8. V!Call(c)
    BY <2>2, <2>4, <2>5, <2>6, <2>7 DEF V!Call, Stored, Reqs, Effects
  <2> QED BY <2>8
<1>6. CASE StatToSave(c) \/ MkdirAll(c) \/ StatOld(c) \/ StatNew(c) \/ StatNamespace(c)
  <2>1. /\ pc'[c] \notin {"write", "record"} /\ pc[c] \notin {"write", "record"}
        /\ UNCHANGED <<names, inodes, req, log, lost, calls>>
    BY <1>1, <1>6 DEF StatToSave, MkdirAll, StatOld, StatNew, StatNamespace,
                      At, Goto, tree
  <2>2. Effects' = Effects
    BY <1>2, <1>3, <2>1 DEF Effects
  <2>3. Reqs' = Reqs /\ Stored' = Stored
    BY <1>4, <2>1, StoreStays
  <2>4. UNCHANGED V!vars
    BY <2>1, <2>2, <2>3 DEF V!vars, Stored, Reqs, Effects
  <2> QED BY <2>4
<1>7. CASE Open(c)
  <2>1. /\ pc[c] = "open" /\ req[c].op = "save" /\ pc'[c] = "write"
        /\ UNCHANGED <<req, action, log, lost, calls>>
    BY <1>1, <1>7 DEF Open, At, Goto
  <2>2. /\ req[c].path \in Notes
        /\ Stored' = [Stored EXCEPT ![req[c].path] = Empty]
        /\ action[c] = IF Stored[req[c].path] = Absent THEN "create" ELSE "update"
    BY <1>7, OpenBegins
  <2>3. Reqs' = Reqs /\ Effects[c] = None
    BY <1>3, <1>4, <2>1
  <2>4. Effects' = [Effects EXCEPT ![c] = EntryOf(c)]
    <3>1. EntryOf(c)' = EntryOf(c)
      BY <2>1 DEF EntryOf
    <3> QED BY <1>2, <2>1, <3>1
  <2>5. Reqs[c] # None /\ Reqs[c].op = "save" /\ Reqs[c].path = req[c].path
    BY <1>0, <2>1, Requested
  <2>6. Effects' = [Effects EXCEPT ![c] = V!Entry(
          IF Stored[Reqs[c].path] = Absent THEN "create" ELSE "update",
          Reqs[c].path, None)]
    BY <2>1, <2>2, <2>4, <2>5 DEF EntryOf, Entry, V!Entry
  <2>7. Stored' = [Stored EXCEPT ![Reqs[c].path] = Empty]
    BY <2>2, <2>5
  <2>8. V!BeginSave(c)
    BY <2>1, <2>3, <2>5, <2>6, <2>7 DEF V!BeginSave, V!Asked, Stored, Reqs, Effects
  <2> QED BY <2>8
<1>8. CASE Write(c)
  <2>1. /\ pc[c] = "write" /\ req[c].op = "save" /\ pc'[c] = "record"
        /\ UNCHANGED <<req, action, log, lost, calls>>
    BY <1>1, <1>8 DEF Write, At, Goto
  <2>2. /\ Stored[req[c].path] = Empty
        /\ Stored' = [Stored EXCEPT ![req[c].path] = req[c].content]
    BY <1>8, WriteEnds
  <2>3. Reqs' = Reqs /\ Effects[c] = EntryOf(c) /\ Effects[c] # None
    BY <1>4, <2>1, EntryIsSomething
  <2>4. Effects' = Effects
    <3>1. EntryOf(c)' = EntryOf(c)
      BY <2>1 DEF EntryOf
    <3> QED BY <1>2, <2>1, <2>3, <3>1 DEF Effects
  <2>5. /\ Reqs[c].op = "save" /\ Reqs[c].path = req[c].path
        /\ Reqs[c].content = req[c].content
    BY <1>0, <2>1, Requested
  <2>6. V!EndSave(c)
    BY <2>1, <2>2, <2>3, <2>4, <2>5 DEF V!EndSave, Stored, Reqs, Effects
  <2> QED BY <2>6
<1>9. CASE Delete(c)
  <2>1. /\ pc[c] = "asked" /\ req[c].op = "delete" /\ pc'[c] = "record"
        /\ action'[c] = "delete" /\ UNCHANGED <<req, log, lost, calls>>
    BY <1>1, <1>9 DEF Delete, At, Goto
  <2>2. Reqs' = Reqs /\ Effects[c] = None
    BY <1>3, <1>4, <2>1
  <2>3. /\ Reqs[c] # None /\ Reqs[c].op = "delete" /\ Reqs[c].path = req[c].path
        /\ Reqs[c].gone = {req[c].path} \cap Notes
    BY <1>0, <2>1, Requested
  <2>4. /\ Reqs[c].path \in Notes => Stored[Reqs[c].path] # Absent
        /\ Stored' = [p \in Notes |-> IF p \in Reqs[c].gone
                                        THEN Absent ELSE Stored[p]]
    BY <1>9, <2>3, DeleteRemoves
  <2>5. Effects' = [Effects EXCEPT ![c] = V!Entry("delete", Reqs[c].path, None)]
    <3>1. EntryOf(c)' = V!Entry("delete", Reqs[c].path, None)
      BY <2>1, <2>3 DEF EntryOf, Entry, V!Entry
    <3> QED BY <1>2, <2>1, <3>1
  <2>6. V!Delete(c)
    BY <2>1, <2>2, <2>3, <2>4, <2>5 DEF V!Delete, V!Asked, Stored, Reqs, Effects
  <2> QED BY <2>6
<1>10. CASE Rename(c)
  <2>1. /\ pc[c] = "rename" /\ req[c].op = "rename" /\ pc'[c] = "record"
        /\ action'[c] = "rename" /\ UNCHANGED <<req, log, lost, calls>>
    BY <1>1, <1>10 DEF Rename, At, Goto
  <2>2. Reqs' = Reqs /\ Effects[c] = None
    BY <1>3, <1>4, <2>1
  <2>3. /\ Reqs[c] # None /\ Reqs[c].op = "rename" /\ Reqs[c].path = req[c].path
        /\ Reqs[c].from = req[c].from
    BY <1>0, <2>1, Requested
  <2>4. /\ Stored[Reqs[c].from] # Absent /\ Stored[Reqs[c].path] = Absent
        /\ Stored' = [Stored EXCEPT ![Reqs[c].path] = Stored[Reqs[c].from],
                                    ![Reqs[c].from] = Absent]
    BY <1>10, <2>3, RenameMoves
  <2>5. Effects' = [Effects EXCEPT ![c] =
                      V!Entry("rename", Reqs[c].path, Reqs[c].from)]
    <3>1. EntryOf(c)' = V!Entry("rename", Reqs[c].path, Reqs[c].from)
      BY <2>1, <2>3 DEF EntryOf, Entry, V!Entry
    <3> QED BY <1>2, <2>1, <3>1
  <2>6. V!Rename(c)
    BY <2>1, <2>2, <2>3, <2>4, <2>5 DEF V!Rename, V!Asked, Stored, Reqs, Effects
  <2> QED BY <2>6
<1>11. CASE CreateNamespace(c)
  <2>1. /\ pc[c] = "mkdir" /\ req[c].op = "namespace" /\ pc'[c] = "record"
        /\ action'[c] = "create"
        /\ UNCHANGED <<names, inodes, req, log, lost, calls>>
    BY <1>1, <1>11 DEF CreateNamespace, At, Goto
  <2>2. Reqs' = Reqs /\ Effects[c] = None /\ Stored' = Stored
    BY <1>3, <1>4, <2>1, StoreStays
  <2>3. Reqs[c] # None /\ Reqs[c].op = "namespace" /\ Reqs[c].path = req[c].path
    BY <1>0, <2>1, Requested
  <2>4. Effects' = [Effects EXCEPT ![c] = V!Entry("create", Reqs[c].path, None)]
    <3>1. EntryOf(c)' = V!Entry("create", Reqs[c].path, None)
      BY <2>1, <2>3 DEF EntryOf, Entry, V!Entry
    <3> QED BY <1>2, <2>1, <3>1
  <2>5. V!CreateNamespace(c)
    BY <2>1, <2>2, <2>3, <2>4 DEF V!CreateNamespace, V!Asked, Stored, Reqs, Effects
  <2> QED BY <2>5
<1>12. ASSUME Record(c) \/ Abort(c)
       PROVE  /\ Reqs' = [Reqs EXCEPT ![c] = None]
              /\ Effects' = [Effects EXCEPT ![c] = None]
              /\ Stored' = Stored /\ calls' = calls /\ Reqs[c] # None
  <2>1. /\ pc'[c] = "idle" /\ req'[c] = None /\ pc[c] # "idle"
        /\ UNCHANGED <<names, inodes, calls>>
    BY <1>1, <1>12 DEF Record, Abort, Finish, tree
  <2>2. Stored' = Stored /\ Reqs[c] # None
    BY <1>0, <2>1, StoreStays, Requested
  <2> QED BY <1>2, <2>1, <2>2 DEF NoteRequest
<1>13. CASE Record(c)
  <2>1. /\ pc[c] = "record" /\ log' = Append(log, EntryOf(c)) /\ lost' = lost
    BY <1>13 DEF Record
  <2>2. Effects[c] = EntryOf(c) /\ Effects[c] # None
    BY <2>1, EntryIsSomething
  <2>3. Reqs[c].op = req[c].op /\ Reqs[c].path = req[c].path
    BY <1>0, <2>1, Requested
  <2>4. ASSUME Reqs[c].op = "save" PROVE Stored[Reqs[c].path] # Empty
    <3>1. names[req[c].path] # Absent /\ inodes[names[req[c].path]] # Empty
      BY <1>0, <2>1, <2>3, <2>4 DEF Steady
    <3>2. req[c].path \in Notes
      BY <1>0, <2>1, <2>3, <2>4, Asked
    <3> QED BY <2>3, <3>1, <3>2 DEF Stored
  <2>5. V!Record(c)
    BY <1>12, <1>13, <2>1, <2>2, <2>4 DEF V!Record, Stored, Reqs, Effects
  <2> QED BY <2>5
<1>14. CASE Abort(c)
  <2>1. CASE pc[c] \in {"write", "record"}
    <3>1. lost' = Append(lost, EntryOf(c)) /\ log' = log
      BY <1>14, <2>1 DEF Abort
    <3>2. Effects[c] = EntryOf(c) /\ Effects[c] # None
      BY <2>1, EntryIsSomething
    <3>3. V!Lose(c)
      BY <1>12, <1>14, <3>1, <3>2 DEF V!Lose, Stored, Reqs, Effects
    <3> QED BY <3>3
  <2>2. CASE pc[c] \notin {"write", "record"}
    <3>1. lost' = lost /\ log' = log
      BY <1>14, <2>2 DEF Abort
    <3>2. Effects[c] = None
      BY <1>3, <2>2
    <3>3. Effects' = Effects
      BY <1>12, <1>14, <3>2 DEF Effects
    <3>4. V!Reject(c)
      BY <1>12, <1>14, <3>1, <3>2, <3>3 DEF V!Reject, Stored, Reqs, Effects
    <3> QED BY <3>4
  <2> QED BY <2>1, <2>2
<1> QED
  BY <1>5, <1>6, <1>7, <1>8, <1>9, <1>10, <1>11, <1>13, <1>14 DEF Step

LEMMA Simulation == Calm /\ Calm' /\ [Next]_vars => [V!Next]_(V!vars)
<1> SUFFICES ASSUME Calm, Calm', [Next]_vars PROVE [V!Next]_(V!vars)
  OBVIOUS
<1>1. CASE Next
  <2>1. PICK c \in Clients : Step(c)
    BY <1>1 DEF Next, Step
  <2> QED BY <2>1, StepIsOfVault DEF V!Next
<1>2. CASE UNCHANGED vars
  <2>1. UNCHANGED <<names, inodes, pc, req, action, log, lost, calls>>
    BY <1>2 DEF vars, tree
  <2>2. Stored' = Stored /\ Reqs' = Reqs /\ Effects' = Effects
    BY <2>1 DEF Stored, Reqs, Effects, Changed, EntryOf
  <2> QED BY <2>1, <2>2 DEF V!vars, Stored, Reqs, Effects
<1> QED BY <1>1, <1>2

LEMMA InitialVault == Init => V!Init
<1> SUFFICES ASSUME Init PROVE V!Init
  OBVIOUS
<1>1. Stored = [p \in Notes |-> Absent]
  BY DEF Init, Stored
<1>2. Reqs = [c \in Clients |-> None] /\ Effects = [c \in Clients |-> None]
  BY DEF Init, Reqs, Effects, NoteRequest, Changed
<1> QED
  BY <1>1, <1>2 DEF Init, V!Init, Stored, Reqs, Effects

-----------------------------------------------------------------------------
(* The theorems *)

LEMMA Invariance == Spec => []IInv
<1>1. IInv /\ [Next]_vars => IInv'
  BY TypesNext, OneNamePerFileNext, EmptyFilesNext DEF IInv
<1> QED
  BY Initially, <1>1, PTL DEF Spec

\* The variables of the engine keep their types, for any clients, notes and
\* requests.
THEOREM TypeCorrect == Spec => []TypeOK
<1>1. IInv => TypeOK
  BY DEF IInv, Types
<1> QED
  BY Invariance, <1>1, PTL

\* However the system calls of concurrent requests interleave, no two paths
\* name one file (local.go:154).
THEOREM NamesAreApart == Spec => []OneNamePerFile
<1>1. IInv => OneNamePerFile
  BY DEF IInv
<1> QED
  BY Invariance, <1>1, PTL

\* An empty note is one that a save has open, or that a save was cut off from
\* writing, under whatever name it has since (local.go:108-110).
THEOREM EmptyMeansCut == Spec => []EmptyOnlyDuringSaves
<1>1. ASSUME IInv PROVE EmptyOnlyDuringSaves
  <2> SUFFICES ASSUME NEW p \in Notes, names[p] # Absent, inodes[names[p]] = Empty
               PROVE  \/ \E c \in Clients : pc[c] = "write" /\ fd[c] = names[p]
                      \/ names[p] \in cut
    BY DEF EmptyOnlyDuringSaves
  <2>1. names[p] \in DOMAIN inodes
    BY <1>1 DEF IInv, Types, TypeOK
  <2> QED
    BY <1>1, <2>1 DEF IInv, EmptyFiles
<1> QED
  BY Invariance, <1>1, PTL

\* Clients with notes of their own get what the contract promises, whatever
\* system calls of the others fall between theirs: a save that readers may see
\* half done, a delete and a rename at once, each recorded as what it was
\* (engine.go:10-31, local.go:96-170).
THEOREM Refinement == ASSUME Apart PROVE Spec => ImplementsVault
<1>1. Calm /\ [Next]_vars => Calm'
  BY CalmNext, Apart
<1>2. Spec => V!Spec
  BY CalmAtFirst, <1>1, Simulation, InitialVault, PTL DEF Spec, V!Spec
<1> QED
  BY <1>2 DEF ImplementsVault
=============================================================================
