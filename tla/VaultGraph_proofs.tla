-------------------------- MODULE VaultGraph_proofs --------------------------
(***************************************************************************)
(* Theorems about VaultGraph, for any directories, names, contents and     *)
(* query, and any number of changes while a scan runs.                     *)
(***************************************************************************)
EXTENDS VaultGraph, WellFoundedInduction, TLAPS

Items == {Item(d, None) : d \in Dirs \cup {Root}} \cup {Item(None, p) : p \in Path}
Walks == [kind : {"graph", "search"}, status : Statuses,
          todo : SUBSET Items, notes : SUBSET (Path \X Contents)]

Types ==
    /\ dirs \subseteq Dirs /\ files \in [Path -> Contents \cup {Absent}]
    /\ \A p \in Path : files[p] # Absent => p.dir \in dirs \cup {Root}
    /\ walk = None \/ walk \in Walks
    /\ touched \subseteq Path /\ vanished \subseteq Dirs /\ edits \in 0 .. MaxEdits
    /\ errors \subseteq Items

\* A directory is listed once: what was found in it is not found again, and
\* the root comes before everything else.
ListedOnce ==
    walk # None =>
      /\ Item(Root, None) \in walk.todo =>
           walk.todo = {Item(Root, None)} /\ walk.notes = {}
      /\ \A n \in walk.notes : /\ Item(None, n[1]) \notin walk.todo
                               /\ Item(n[1].dir, None) \notin walk.todo
      /\ \A p \in Path : Item(None, p) \in walk.todo => Item(p.dir, None) \notin walk.todo

\* What was read was there, and still is if its path is untouched; a directory
\* still to list is there, unless it went away since it was found.
Witnessed ==
    walk # None =>
      /\ There(files) \subseteq seen /\ walk.notes \subseteq seen
      /\ \A m, n \in walk.notes : m[1] = n[1] => m = n
      /\ \A n \in walk.notes : n[1] \notin touched => files[n[1]] = n[2]
      /\ \A d \in Dirs : Item(d, None) \in walk.todo => d \in dirs \cup vanished
      /\ walk.status = "failed" => vanished # {} \/ \E i \in errors : i.dir # None

\* A directory that could not be listed ended the scan; a scan that panicked
\* did so on a note it has read.
Ended ==
    walk # None =>
      /\ walk.status # "failed" => \A i \in errors : i.path # None
      /\ walk.status = "panicked" =>
           walk.kind = "search" /\ \E n \in walk.notes : Panics(n[2].text)

\* The scan has an untouched file that can be read, or will still come to it:
\* the file is to be read, or its directory to be listed, or the root its
\* directory is in.
Covered ==
    walk # None =>
      /\ walk.status = "done" => walk.todo = {}
      /\ \A p \in Path : Stable(p) /\ Include(walk.kind, p.name) =>
           \/ <<p, files[p]>> \in walk.notes \/ Item(None, p) \in errors
           \/ Item(None, p) \in walk.todo \/ Item(p.dir, None) \in walk.todo
           \/ Item(Root, None) \in walk.todo

IInv == Types /\ ListedOnce /\ Witnessed /\ Covered /\ Ended

-----------------------------------------------------------------------------
(* What the steps do *)

LEMMA ItemsApart ==
    /\ \A d, e : Item(d, None) = Item(e, None) => d = e
    /\ \A p, q : Item(None, p) = Item(None, q) => p = q
    /\ \A d \in Dirs \cup {Root} : \A p : Item(d, None) # Item(None, p)
    /\ \A d, p : Item(d, p).dir = d /\ Item(d, p).path = p
BY VaultAssumption DEF Item

LEMMA ListedIs ==
    ASSUME Types, NEW kind, NEW d
    PROVE  /\ \A q \in Path : Item(None, q) \in Listed(kind, d) <=>
                q.dir = d /\ files[q] # Absent /\ Include(kind, q.name)
           /\ \A e \in Dirs \cup {Root} :
                Item(e, None) \in Listed(kind, d) <=> d = Root /\ e \in dirs
           /\ Listed(kind, d) \subseteq Items
<1> DEFINE fs == {Item(None, p) : p \in {p \in In(d) : Include(kind, p.name)}}
           ds == IF d = Root THEN {Item(e, None) : e \in dirs} ELSE {}
<1>1. Listed(kind, d) = fs \cup ds
  BY DEF Listed
<1>2. ASSUME NEW q \in Path PROVE Item(None, q) \notin ds
  BY ItemsApart DEF Types
<1>3. ASSUME NEW q \in Path
      PROVE  Item(None, q) \in fs <=>
               q.dir = d /\ files[q] # Absent /\ Include(kind, q.name)
  BY ItemsApart DEF In
<1>4. ASSUME NEW e \in Dirs \cup {Root}
      PROVE  Item(e, None) \notin fs /\ (Item(e, None) \in ds <=> d = Root /\ e \in dirs)
  BY ItemsApart DEF Types
<1>5. fs \cup ds \subseteq Items
  BY DEF Types, Items, In
<1> HIDE DEF fs, ds
<1>6. ASSUME NEW q \in Path
      PROVE  Item(None, q) \in Listed(kind, d) <=>
               q.dir = d /\ files[q] # Absent /\ Include(kind, q.name)
  BY <1>1, <1>2, <1>3
<1>7. ASSUME NEW e \in Dirs \cup {Root}
      PROVE  Item(e, None) \in Listed(kind, d) <=> d = Root /\ e \in dirs
  BY <1>1, <1>4
<1>8. Listed(kind, d) \subseteq Items
  BY <1>1, <1>5
<1> QED BY <1>6, <1>7, <1>8

\* List takes a directory that is there.
LEMMA ListStep ==
    ASSUME Types, List
    PROVE  \E d \in dirs \cup {Root} :
             /\ walk \in Walks /\ walk' \in Walks /\ walk.status = "walking"
             /\ Item(d, None) \in walk.todo
             /\ walk'.todo = (walk.todo \ {Item(d, None)}) \cup Listed(walk.kind, d)
             /\ walk'.notes = walk.notes /\ walk'.kind = walk.kind
             /\ walk'.status = walk.status
             /\ UNCHANGED <<files, dirs, touched, seen, vanished, errors, edits>>
<1>1. walk \in Walks /\ walk.status = "walking"
  BY DEF Types, List
<1>2. PICK i \in walk.todo :
        /\ i.dir \in dirs \cup {Root}
        /\ walk' = [walk EXCEPT !.todo = (walk.todo \ {i}) \cup Listed(walk.kind, i.dir)]
  BY DEF List
<1>3. i = Item(i.dir, None)
  <2>1. i \in Items
    BY <1>1, <1>2 DEF Walks
  <2>2. ASSUME NEW p \in Path, i = Item(None, p) PROVE FALSE
    <3>1. i.dir = None
      BY <2>2, ItemsApart
    <3> QED BY <3>1, <1>2, VaultAssumption DEF Types
  <2> QED BY <2>1, <2>2, ItemsApart DEF Items
<1>4. Listed(walk.kind, i.dir) \subseteq Items
  BY ListedIs
<1>5. walk' \in Walks /\ walk'.todo = (walk.todo \ {i}) \cup Listed(walk.kind, i.dir)
      /\ walk'.notes = walk.notes /\ walk'.kind = walk.kind
      /\ walk'.status = walk.status
  BY <1>1, <1>2, <1>4 DEF Walks
<1> QED BY <1>1, <1>2, <1>3, <1>5 DEF List

\* Read takes a file that is still to be read, and has it, or counts it among
\* those that cannot be read.
ReadsIt(p) ==
    /\ walk'.notes = walk.notes \cup ({<<p, files[p]>>} \ {<<p, Absent>>})
    /\ \/ walk'.status = "walking"
       \/ /\ walk'.status = "panicked" /\ walk.kind = "search"
          /\ \E n \in walk'.notes : Panics(n[2].text)
    /\ errors' = errors

CannotRead(p) ==
    /\ walk'.notes = walk.notes /\ walk'.status = "walking"
    /\ errors' = errors \cup {Item(None, p)}

LEMMA ReadStep ==
    ASSUME Types, Read
    PROVE  \E p \in Path :
             /\ walk \in Walks /\ walk' \in Walks /\ walk.status = "walking"
             /\ Item(None, p) \in walk.todo
             /\ walk'.todo = walk.todo \ {Item(None, p)}
             /\ walk'.kind = walk.kind
             /\ ReadsIt(p) \/ CannotRead(p)
             /\ UNCHANGED <<files, dirs, touched, seen, vanished, edits>>
<1>1. walk \in Walks /\ walk.status = "walking"
  BY DEF Types, Read
<1> DEFINE new(i) == {<<i.path, files[i.path]>>} \ {<<i.path, Absent>>}
           panics(i) == walk.kind = "search" /\ \E n \in new(i) : Panics(n[2].text)
           status(i) == IF panics(i) THEN "panicked" ELSE walk.status
<1>2. PICK i \in walk.todo :
        /\ i.path # None
        /\ \/ /\ walk' = [walk EXCEPT !.todo = walk.todo \ {i},
                                      !.notes = walk.notes \cup new(i),
                                      !.status = status(i)]
              /\ errors' = errors
           \/ /\ errors' = errors \cup {i}
              /\ walk' = [walk EXCEPT !.todo = walk.todo \ {i}]
  BY DEF Read, Error
<1>3. i.path \in Path /\ i = Item(None, i.path)
  <2>1. i \in Items
    BY <1>1, <1>2 DEF Walks
  <2>2. ASSUME NEW d, i = Item(d, None) PROVE FALSE
    BY <1>2, <2>2, ItemsApart
  <2> QED BY <2>1, <2>2, ItemsApart DEF Items
<1>4. new(i) \subseteq Path \X Contents
  <2>1. files[i.path] \in Contents \cup {Absent}
    BY <1>3 DEF Types
  <2> QED BY <1>3, <2>1
<1>5. /\ status(i) \in Statuses
      /\ status(i) = "walking" \/ (status(i) = "panicked" /\ panics(i))
  BY <1>1 DEF Statuses
<1>6. UNCHANGED <<files, dirs, touched, seen, vanished, edits>>
  BY DEF Read
<1> HIDE DEF new, status
<1>7. CASE /\ walk' = [walk EXCEPT !.todo = walk.todo \ {i},
                                   !.notes = walk.notes \cup new(i),
                                   !.status = status(i)]
           /\ errors' = errors
  <2>1. /\ walk' \in Walks /\ walk'.todo = walk.todo \ {i} /\ walk'.kind = walk.kind
        /\ walk'.notes = walk.notes \cup new(i) /\ walk'.status = status(i)
    BY <1>1, <1>2, <1>4, <1>5, <1>7 DEF Walks
  <2>2. walk'.notes = walk.notes \cup ({<<i.path, files[i.path]>>} \ {<<i.path, Absent>>})
    BY <2>1 DEF new
  <2>3. panics(i) => walk.kind = "search" /\ \E n \in walk'.notes : Panics(n[2].text)
    BY <2>1
  <2>4. ReadsIt(i.path)
    BY <1>5, <1>7, <2>1, <2>2, <2>3 DEF ReadsIt
  <2> QED BY <1>1, <1>2, <1>3, <1>6, <2>1, <2>4
<1>8. CASE /\ errors' = errors \cup {i}
           /\ walk' = [walk EXCEPT !.todo = walk.todo \ {i}]
  <2>1. /\ walk' \in Walks /\ walk'.todo = walk.todo \ {i} /\ walk'.kind = walk.kind
        /\ walk'.notes = walk.notes /\ walk'.status = walk.status
    BY <1>1, <1>2, <1>8 DEF Walks
  <2>2. CannotRead(i.path)
    BY <1>1, <1>3, <1>8, <2>1 DEF CannotRead
  <2> QED BY <1>1, <1>2, <1>3, <1>6, <2>1, <2>2
<1> QED BY <1>2, <1>7, <1>8

\* A scan that begins, and one that ends: only the status changes.
LEMMA BeginStep ==
    ASSUME NEW kind \in {"graph", "search"}, Begin(kind)
    PROVE  /\ walk' \in Walks /\ walk'.kind = kind /\ walk'.status = "walking"
           /\ walk'.todo = {Item(Root, None)} /\ walk'.notes = {}
           /\ touched' = {} /\ seen' = There(files) /\ vanished' = {}
           /\ errors' = {}
           /\ UNCHANGED <<files, dirs, edits>>
<1>1. walk' = [kind |-> kind, status |-> "walking", todo |-> {Item(Root, None)},
               notes |-> {}]
  BY DEF Begin
<1>2. {Item(Root, None)} \subseteq Items
  BY DEF Items
<1> QED BY <1>1, <1>2 DEF Begin, Walks, Statuses

LEMMA EndStep ==
    ASSUME Types, ListFails \/ Finish
    PROVE  /\ walk \in Walks /\ walk' \in Walks /\ walk.status = "walking"
           /\ walk'.todo = walk.todo /\ walk'.notes = walk.notes
           /\ walk'.kind = walk.kind
           /\ \/ walk'.status = "done" /\ walk.todo = {} /\ errors' = errors
              \/ /\ walk'.status = "failed"
                 /\ \E d \in Dirs \cup {Root} :
                      /\ Item(d, None) \in walk.todo
                      /\ \/ d \in Dirs \ dirs /\ errors' = errors
                         \/ errors' = errors \cup {Item(d, None)}
           /\ UNCHANGED <<files, dirs, touched, seen, vanished, edits>>
<1>1. walk \in Walks /\ walk.status = "walking"
  BY DEF Types, ListFails, Finish
<1>2. CASE Finish
  BY <1>1, <1>2 DEF Finish, Walks, Statuses
<1>3. CASE ListFails
  <2>1. PICK i \in walk.todo : /\ i.dir \in Dirs \cup {Root}
                               /\ \/ i.dir \in Dirs \ dirs /\ errors' = errors
                                  \/ errors' = errors \cup {i}
    BY <1>3 DEF ListFails, Error, Types
  <2>2. i = Item(i.dir, None)
    <3>1. i \in Items
      BY <1>1, <2>1 DEF Walks
    <3>2. ASSUME NEW p \in Path, i = Item(None, p) PROVE FALSE
      <4>1. i.dir = None
        BY <3>2, ItemsApart
      <4> QED BY <4>1, <2>1, VaultAssumption
    <3> QED BY <3>1, <3>2, ItemsApart DEF Items
  <2>3. walk' = [walk EXCEPT !.status = "failed"]
        /\ UNCHANGED <<files, dirs, touched, seen, vanished, edits>>
    BY <1>3 DEF ListFails
  <2>4. /\ walk' \in Walks /\ walk'.todo = walk.todo /\ walk'.notes = walk.notes
        /\ walk'.kind = walk.kind /\ walk'.status = "failed"
    BY <1>1, <2>3 DEF Walks, Statuses
  <2>5. \E d \in Dirs \cup {Root} :
          /\ Item(d, None) \in walk.todo
          /\ \/ d \in Dirs \ dirs /\ errors' = errors
             \/ errors' = errors \cup {Item(d, None)}
    BY <2>1, <2>2
  <2> QED BY <1>1, <2>3, <2>4, <2>5
<1> QED BY <1>2, <1>3

\* Whatever the request, files and directories change together.
LEMMA EditStep ==
    ASSUME Types, Edit
    PROVE  \E f \in [Path -> Contents \cup {Absent}], ds \in SUBSET Dirs :
             /\ Changed(f, ds)
             /\ \A p \in Path : f[p] # Absent => p.dir \in ds \cup {Root}
<1>0. /\ dirs \subseteq Dirs /\ files \in [Path -> Contents \cup {Absent}]
      /\ \A p \in Path : files[p] # Absent => p.dir \in dirs \cup {Root}
  BY DEF Types
<1>1. ASSUME NEW p \in Path, DeleteFile(p)
      PROVE  \E f \in [Path -> Contents \cup {Absent}], ds \in SUBSET Dirs :
               /\ Changed(f, ds)
               /\ \A q \in Path : f[q] # Absent => q.dir \in ds \cup {Root}
  <2> DEFINE f == [files EXCEPT ![p] = Absent]
  <2>1. /\ f \in [Path -> Contents \cup {Absent}] /\ Changed(f, dirs)
        /\ \A q \in Path : f[q] # Absent => q.dir \in dirs \cup {Root}
    BY <1>0, <1>1 DEF DeleteFile
  <2> QED BY <1>0, <2>1
<1>2. ASSUME NEW p \in Path, NEW c \in Contents, Save(p, c)
      PROVE  \E f \in [Path -> Contents \cup {Absent}], ds \in SUBSET Dirs :
               /\ Changed(f, ds)
               /\ \A q \in Path : f[q] # Absent => q.dir \in ds \cup {Root}
  <2> DEFINE f == [files EXCEPT ![p] = c]
             ds == dirs \cup ({p.dir} \ {Root})
  <2>1. p.dir \in Dirs \cup {Root}
    BY DEF Path
  <2>2. /\ f \in [Path -> Contents \cup {Absent}] /\ ds \in SUBSET Dirs
        /\ Changed(f, ds)
        /\ \A q \in Path : f[q] # Absent => q.dir \in ds \cup {Root}
    BY <1>0, <1>2, <2>1 DEF Save
  <2> QED BY <2>2
<1>3. ASSUME NEW p \in Path, NEW q \in Path, RenameFile(p, q)
      PROVE  \E f \in [Path -> Contents \cup {Absent}], ds \in SUBSET Dirs :
               /\ Changed(f, ds)
               /\ \A r \in Path : f[r] # Absent => r.dir \in ds \cup {Root}
  <2> DEFINE f == [files EXCEPT ![q] = files[p], ![p] = Absent]
  <2>1. /\ f \in [Path -> Contents \cup {Absent}] /\ Changed(f, dirs)
        /\ \A r \in Path : f[r] # Absent => r.dir \in dirs \cup {Root}
    BY <1>0, <1>3 DEF RenameFile
  <2> QED BY <1>0, <2>1
<1>4. ASSUME NEW d \in Dirs, DeleteDir(d)
      PROVE  \E f \in [Path -> Contents \cup {Absent}], ds \in SUBSET Dirs :
               /\ Changed(f, ds)
               /\ \A q \in Path : f[q] # Absent => q.dir \in ds \cup {Root}
  <2>1. /\ dirs \ {d} \in SUBSET Dirs /\ Changed(files, dirs \ {d})
        /\ \A q \in Path : files[q] # Absent => q.dir \in (dirs \ {d}) \cup {Root}
    BY <1>0, <1>4 DEF DeleteDir, In
  <2> QED BY <1>0, <2>1
<1>5. ASSUME NEW d \in Dirs, CreateNamespace(d)
      PROVE  \E f \in [Path -> Contents \cup {Absent}], ds \in SUBSET Dirs :
               /\ Changed(f, ds)
               /\ \A q \in Path : f[q] # Absent => q.dir \in ds \cup {Root}
  <2>1. /\ dirs \cup {d} \in SUBSET Dirs /\ Changed(files, dirs \cup {d})
        /\ \A q \in Path : files[q] # Absent => q.dir \in (dirs \cup {d}) \cup {Root}
    BY <1>0, <1>5 DEF CreateNamespace
  <2> QED BY <1>0, <2>1
<1>6. ASSUME NEW d \in Dirs, NEW e \in Dirs, RenameDir(d, e)
      PROVE  \E f \in [Path -> Contents \cup {Absent}], ds \in SUBSET Dirs :
               /\ Changed(f, ds)
               /\ \A q \in Path : f[q] # Absent => q.dir \in ds \cup {Root}
  <2> DEFINE f == [p \in Path |-> IF p.dir = e THEN files[[p EXCEPT !.dir = d]]
                                  ELSE IF p.dir = d THEN Absent ELSE files[p]]
             ds == (dirs \ {d}) \cup {e}
  <2>1. \A p \in Path : [p EXCEPT !.dir = d] \in Path
    BY DEF Path
  <2>2. f \in [Path -> Contents \cup {Absent}] /\ ds \in SUBSET Dirs
    BY <1>0, <2>1
  <2>3. Changed(f, ds)
    BY <1>6 DEF RenameDir
  <2>4. \A q \in Path : f[q] # Absent => q.dir \in ds \cup {Root}
    BY <1>0
  <2> QED BY <2>2, <2>3, <2>4
<1> QED BY <1>1, <1>2, <1>3, <1>4, <1>5, <1>6 DEF Edit

\* What a change of the vault does to the history of the scan.
LEMMA EditSeen ==
    ASSUME Types, Edit
    PROVE  /\ walk' = walk /\ walk # None /\ errors' = errors
           /\ \A p \in Path : p \notin touched' => p \notin touched /\ files'[p] = files[p]
           /\ seen' = seen \cup There(files') /\ vanished' = vanished \cup (dirs \ dirs')
           /\ Types'
<1>0. walk # None
  BY DEF Edit
<1>1. PICK f \in [Path -> Contents \cup {Absent}], ds \in SUBSET Dirs :
        /\ Changed(f, ds)
        /\ \A p \in Path : f[p] # Absent => p.dir \in ds \cup {Root}
  BY EditStep
<1>2. /\ files' = f /\ dirs' = ds /\ walk' = walk /\ errors' = errors
      /\ edits < MaxEdits /\ edits' = edits + 1
      /\ touched' = touched \cup {p \in Path : f[p] # files[p]}
      /\ seen' = seen \cup There(f) /\ vanished' = vanished \cup (dirs \ ds)
  BY <1>1 DEF Changed
<1>3. edits' \in 0 .. MaxEdits
  BY <1>2, VaultAssumption DEF Types
<1>4. touched' \subseteq Path /\ vanished' \subseteq Dirs
  BY <1>2 DEF Types
<1>5. /\ files' \in [Path -> Contents \cup {Absent}] /\ dirs' \subseteq Dirs
      /\ \A p \in Path : files'[p] # Absent => p.dir \in dirs' \cup {Root}
  BY <1>1, <1>2
<1>6. walk' = None \/ walk' \in Walks
  BY <1>2 DEF Types
<1>7. Types'
  BY <1>2, <1>3, <1>4, <1>5, <1>6 DEF Types, Walks, Items
<1>8. ASSUME NEW p \in Path, p \notin touched'
      PROVE  p \notin touched /\ files'[p] = files[p]
  BY <1>2, <1>8
<1> QED BY <1>0, <1>2, <1>7, <1>8

LEMMA Initially == Init => IInv
<1> SUFFICES ASSUME Init PROVE IInv
  OBVIOUS
<1>1. 0 \in 0 .. MaxEdits
  BY VaultAssumption
<1>2. Types
  BY <1>1, VaultAssumption DEF Init, Types
<1>3. walk = None
  BY DEF Init
<1> QED BY <1>2, <1>3 DEF IInv, ListedOnce, Witnessed, Covered, Ended

LEMMA TypesNext == ASSUME Types, [Next]_vars PROVE Types'
<1>1. ASSUME NEW kind \in {"graph", "search"}, Begin(kind) PROVE Types'
  <2>1. /\ walk' \in Walks /\ touched' = {} /\ vanished' = {} /\ errors' = {}
        /\ UNCHANGED <<files, dirs, edits>>
    BY <1>1, BeginStep
  <2> QED BY <2>1 DEF Types, Walks, Items
<1>2. ASSUME walk' \in Walks, UNCHANGED <<files, dirs, touched, vanished, edits>>,
             errors' \subseteq Items
      PROVE  Types'
  BY <1>2 DEF Types, Walks, Items
<1>3. CASE List
  <2>1. errors' = errors /\ errors \subseteq Items
    BY <1>3, ListStep DEF Types
  <2> QED BY <1>2, <1>3, <2>1, ListStep
<1>4. CASE Read
  <2>1. PICK p \in Path : /\ walk' \in Walks /\ (ReadsIt(p) \/ CannotRead(p))
                          /\ UNCHANGED <<files, dirs, touched, vanished, edits>>
    BY <1>4, ReadStep
  <2>2. errors' \subseteq Items
    BY <2>1 DEF ReadsIt, CannotRead, Types, Items
  <2> QED BY <1>2, <2>1, <2>2
<1>5. CASE ListFails \/ Finish
  <2>1. errors' = errors \/ \E d \in Dirs \cup {Root} : errors' = errors \cup {Item(d, None)}
    BY <1>5, EndStep
  <2>2. errors' \subseteq Items
    BY <2>1 DEF Types, Items
  <2> QED BY <1>2, <1>5, <2>2, EndStep
<1>6. CASE Edit
  BY <1>6, EditSeen
<1>7. CASE UNCHANGED vars
  BY <1>7 DEF vars, Types, Walks, Items
<1> QED BY <1>1, <1>3, <1>4, <1>5, <1>6, <1>7 DEF Next

LEMMA ListedOnceNext ==
    ASSUME Types, ListedOnce, [Next]_vars PROVE ListedOnce'
<1>1. ASSUME NEW kind \in {"graph", "search"}, Begin(kind) PROVE ListedOnce'
  <2>1. walk'.todo = {Item(Root, None)} /\ walk'.notes = {}
    BY <1>1, BeginStep
  <2>2. \A p \in Path : Item(None, p) \notin walk'.todo
    BY <2>1, ItemsApart
  <2> QED BY <2>1, <2>2 DEF ListedOnce
<1>2. CASE List
  <2>1. PICK d \in dirs \cup {Root} :
             /\ walk \in Walks /\ walk' \in Walks
             /\ Item(d, None) \in walk.todo
             /\ walk'.todo = (walk.todo \ {Item(d, None)}) \cup Listed(walk.kind, d)
             /\ walk'.notes = walk.notes
    BY <1>2, ListStep
  <2>2. walk # None
    BY <1>2 DEF List
  <2>3. d \in Dirs \cup {Root}
    BY DEF Types
  \* A note that was read is in no directory still to list; so d has none.
  <2>4. \A n \in walk.notes : n[1] \in Path /\ n[1].dir # d
    BY <2>1, <2>2 DEF ListedOnce, Walks
  <2>5. Item(Root, None) \notin walk'.todo
    <3>1. Item(Root, None) \in walk.todo => d = Root
      BY <2>1, <2>2, ItemsApart DEF ListedOnce
    <3>2. Item(Root, None) \notin Listed(walk.kind, d)
      BY <2>3, ListedIs, VaultAssumption DEF Types
    <3> QED BY <2>1, <3>1, <3>2
  <2>6. ASSUME NEW n \in walk.notes
        PROVE  Item(None, n[1]) \notin walk'.todo /\ Item(n[1].dir, None) \notin walk'.todo
    <3>1. Item(None, n[1]) \notin walk.todo /\ Item(n[1].dir, None) \notin walk.todo
      BY <2>2 DEF ListedOnce
    <3>2. Item(None, n[1]) \notin Listed(walk.kind, d)
      BY <2>4, ListedIs
    <3>3. d # Root
      BY <2>1, <2>2 DEF ListedOnce
    <3>4. n[1].dir \in Dirs \cup {Root}
      BY <2>4 DEF Path
    <3>5. Item(n[1].dir, None) \notin Listed(walk.kind, d)
      BY <3>3, <3>4, ListedIs
    <3> QED BY <2>1, <3>1, <3>2, <3>5
  <2>7. ASSUME NEW p \in Path, Item(None, p) \in walk'.todo
        PROVE  Item(p.dir, None) \notin walk'.todo
    <3>0. p.dir \in Dirs \cup {Root}
      BY DEF Path
    <3>1. CASE d = Root
      <4>1. walk.todo = {Item(Root, None)}
        BY <2>1, <2>2, <3>1 DEF ListedOnce
      <4>2. walk'.todo = Listed(walk.kind, Root)
        BY <2>1, <3>1, <4>1
      <4>3. p.dir = Root
        BY <2>7, <4>2, ListedIs
      <4> QED BY <4>3, <2>5
    <3>2. CASE d # Root
      <4>1. Item(p.dir, None) \notin Listed(walk.kind, d)
        BY <3>0, <3>2, ListedIs
      <4>2. CASE Item(None, p) \in Listed(walk.kind, d)
        <5>1. p.dir = d
          BY <4>2, ListedIs
        <5> QED BY <2>1, <4>1, <5>1
      <4>3. CASE Item(None, p) \in walk.todo
        BY <2>1, <2>2, <4>1, <4>3 DEF ListedOnce
      <4> QED BY <2>1, <2>7, <4>2, <4>3
    <3> QED BY <3>1, <3>2
  <2> QED BY <2>1, <2>5, <2>6, <2>7 DEF ListedOnce
<1>3. CASE Read
  <2>1. PICK q \in Path :
             /\ walk \in Walks
             /\ Item(None, q) \in walk.todo
             /\ walk'.todo = walk.todo \ {Item(None, q)}
             /\ \A n \in walk'.notes : n \in walk.notes \/ n = <<q, files[q]>>
    BY <1>3, ReadStep DEF ReadsIt, CannotRead
  <2>2. walk # None
    BY <1>3 DEF Read
  <2>3. Item(q.dir, None) \notin walk.todo /\ Item(Root, None) \notin walk.todo
    <3>1. Item(Root, None) # Item(None, q)
      BY ItemsApart
    <3> QED BY <2>1, <2>2, <3>1 DEF ListedOnce
  <2>4. ASSUME NEW n \in walk'.notes
        PROVE  Item(None, n[1]) \notin walk'.todo /\ Item(n[1].dir, None) \notin walk'.todo
    <3>1. CASE n \in walk.notes
      BY <2>1, <2>2, <3>1 DEF ListedOnce
    <3>2. CASE n \notin walk.notes
      <4>1. n[1] = q
        BY <2>1, <3>2
      <4> QED BY <2>1, <2>3, <4>1
    <3> QED BY <3>1, <3>2
  <2>5. \A p \in Path : Item(None, p) \in walk'.todo => Item(p.dir, None) \notin walk'.todo
    BY <2>1, <2>2 DEF ListedOnce
  <2> QED BY <2>1, <2>3, <2>4, <2>5 DEF ListedOnce
<1>4. CASE ListFails \/ Finish
  <2>1. walk'.todo = walk.todo /\ walk'.notes = walk.notes
    BY <1>4, EndStep
  <2>2. walk # None
    BY <1>4 DEF ListFails, Finish
  <2> QED BY <2>1, <2>2 DEF ListedOnce
<1>5. CASE Edit \/ UNCHANGED vars
  <2>1. walk' = walk
    BY <1>5, EditSeen DEF vars
  <2> QED BY <2>1 DEF ListedOnce
<1> QED BY <1>1, <1>2, <1>3, <1>4, <1>5 DEF Next

LEMMA WitnessedNext ==
    ASSUME Types, ListedOnce, Witnessed, [Next]_vars PROVE Witnessed'
<1>1. ASSUME NEW kind \in {"graph", "search"}, Begin(kind) PROVE Witnessed'
  <2>1. /\ walk'.status = "walking" /\ walk'.todo = {Item(Root, None)}
        /\ walk'.notes = {} /\ seen' = There(files) /\ files' = files
    BY <1>1, BeginStep
  <2>2. There(files') = There(files)
    BY <2>1
  <2>3. \A d \in Dirs : Item(d, None) \notin walk'.todo
    BY <2>1, ItemsApart, VaultAssumption
  <2> QED BY <2>1, <2>2, <2>3 DEF Witnessed
<1>2. CASE List
  <2>1. PICK d \in dirs \cup {Root} :
             /\ walk.status = "walking"
             /\ walk'.todo = (walk.todo \ {Item(d, None)}) \cup Listed(walk.kind, d)
             /\ walk'.notes = walk.notes /\ walk'.status = walk.status
             /\ UNCHANGED <<files, dirs, touched, seen, vanished, errors, edits>>
    BY <1>2, ListStep
  <2>2. walk # None
    BY <1>2 DEF List
  <2>3. ASSUME NEW e \in Dirs, Item(e, None) \in walk'.todo PROVE e \in dirs \cup vanished
    <3>1. Item(e, None) \in Listed(walk.kind, d) => e \in dirs
      BY ListedIs
    <3> QED BY <2>1, <2>2, <2>3, <3>1 DEF Witnessed
  <2>4. There(files') = There(files)
    BY <2>1
  <2> QED BY <2>1, <2>2, <2>3, <2>4 DEF Witnessed
<1>3. CASE Read
  <2>1. PICK q \in Path :
             /\ walk.status = "walking" /\ walk \in Walks
             /\ Item(None, q) \in walk.todo
             /\ walk'.todo = walk.todo \ {Item(None, q)}
             /\ \A n \in walk'.notes :
                  n \in walk.notes \/ (n = <<q, files[q]>> /\ files[q] # Absent)
             /\ walk'.status # "failed"
             /\ UNCHANGED <<files, dirs, touched, seen, vanished, edits>>
    BY <1>3, ReadStep DEF ReadsIt, CannotRead
  <2>2. walk # None
    BY <1>3 DEF Read
  <2>3. There(files) \subseteq seen /\ walk.notes \subseteq seen
    BY <2>2 DEF Witnessed
  <2>4. ASSUME files[q] # Absent PROVE <<q, files[q]>> \in There(files)
    BY <2>4 DEF There
  <2>5. walk'.notes \subseteq seen
    BY <2>1, <2>3, <2>4
  \* q was still to be read, so no note of it was.
  <2>6. \A n \in walk.notes : n[1] # q
    BY <2>1, <2>2 DEF ListedOnce
  <2>7. ASSUME NEW m \in walk'.notes, NEW n \in walk'.notes, m[1] = n[1] PROVE m = n
    <3>1. ASSUME NEW k \in walk'.notes PROVE k \in walk.notes \/ k = <<q, files[q]>>
      BY <2>1
    <3>2. <<q, files[q]>>[1] = q
      OBVIOUS
    <3>3. CASE m \in walk.notes /\ n \in walk.notes
      BY <2>2, <2>7, <3>3 DEF Witnessed
    <3>4. CASE ~(m \in walk.notes /\ n \in walk.notes)
      BY <2>6, <2>7, <3>1, <3>2, <3>4
    <3> QED BY <3>3, <3>4
  <2>8. There(files') = There(files)
    BY <2>1
  <2>9. \A d \in Dirs : Item(d, None) \in walk'.todo => d \in dirs \cup vanished
    BY <2>1, <2>2 DEF Witnessed
  <2>10. ASSUME NEW n \in walk'.notes, n[1] \notin touched PROVE files[n[1]] = n[2]
    <3>1. n \in walk.notes \/ n = <<q, files[q]>>
      BY <2>1
    <3>2. CASE n \in walk.notes
      BY <2>2, <2>10, <3>2 DEF Witnessed
    <3> QED BY <3>1, <3>2
  <2> QED BY <2>1, <2>3, <2>5, <2>7, <2>8, <2>9, <2>10 DEF Witnessed
<1>4. CASE ListFails \/ Finish
  <2>1. /\ walk'.todo = walk.todo /\ walk'.notes = walk.notes
        /\ \/ walk'.status = "done" /\ walk.todo = {}
           \/ /\ walk'.status = "failed"
              /\ \E d \in Dirs \cup {Root} :
                   /\ Item(d, None) \in walk.todo
                   /\ \/ d \in Dirs \ dirs
                      \/ errors' = errors \cup {Item(d, None)}
        /\ UNCHANGED <<files, dirs, touched, seen, vanished, edits>>
    BY <1>4, EndStep
  <2>2. walk # None
    BY <1>4 DEF ListFails, Finish
  <2>3. walk'.status = "failed" => vanished # {} \/ \E i \in errors' : i.dir # None
    <3>1. ASSUME NEW d \in Dirs \ dirs, Item(d, None) \in walk.todo PROVE vanished # {}
      BY <2>2, <3>1 DEF Witnessed
    <3>2. \A d \in Dirs \cup {Root} : Item(d, None).dir # None
      BY ItemsApart, VaultAssumption
    <3> QED BY <2>1, <3>1, <3>2
  <2>4. There(files') = There(files)
    BY <2>1
  <2> QED BY <2>1, <2>2, <2>3, <2>4 DEF Witnessed
<1>5. CASE Edit
  <2>1. /\ walk' = walk /\ walk # None /\ seen' = seen \cup There(files')
        /\ errors' = errors
        /\ vanished' = vanished \cup (dirs \ dirs')
        /\ \A p \in Path : p \notin touched' => p \notin touched /\ files'[p] = files[p]
        /\ \A n \in walk.notes : n[1] \in Path
    BY <1>5, EditSeen DEF Types, Walks
  <2>2. \A n \in walk'.notes : n[1] \notin touched' => files'[n[1]] = n[2]
    BY <2>1 DEF Witnessed
  <2> QED BY <2>1, <2>2 DEF Witnessed
<1>6. CASE UNCHANGED vars
  <2>1. UNCHANGED <<walk, files, dirs, touched, seen, vanished, errors>>
        /\ There(files') = There(files)
    BY <1>6 DEF vars
  <2> QED BY <2>1 DEF Witnessed
<1> QED BY <1>1, <1>2, <1>3, <1>4, <1>5, <1>6 DEF Next

LEMMA CoveredNext ==
    ASSUME Types, ListedOnce, Covered, [Next]_vars PROVE Covered'
<1>1. ASSUME NEW kind \in {"graph", "search"}, Begin(kind) PROVE Covered'
  <2>1. walk'.status = "walking" /\ walk'.todo = {Item(Root, None)}
    BY <1>1, BeginStep
  <2> QED BY <2>1 DEF Covered
<1>2. CASE List
  <2>1. PICK d \in dirs \cup {Root} :
             /\ walk.status = "walking" /\ Item(d, None) \in walk.todo
             /\ walk'.todo = (walk.todo \ {Item(d, None)}) \cup Listed(walk.kind, d)
             /\ walk'.notes = walk.notes /\ walk'.kind = walk.kind
             /\ walk'.status = walk.status
             /\ UNCHANGED <<files, dirs, touched, seen, vanished, errors, edits>>
    BY <1>2, ListStep
  <2>2. walk # None /\ d \in Dirs \cup {Root}
    BY <1>2 DEF List, Types
  <2>3. ASSUME NEW p \in Path, p \notin touched, files[p] # Absent,
               Include(walk.kind, p.name)
        PROVE  \/ <<p, files[p]>> \in walk.notes \/ Item(None, p) \in errors
               \/ Item(None, p) \in walk'.todo \/ Item(p.dir, None) \in walk'.todo
               \/ Item(Root, None) \in walk'.todo
    <3>0. p.dir \in dirs \cup {Root} /\ p.dir \in Dirs \cup {Root}
      BY <2>3 DEF Types
    <3>1. \/ <<p, files[p]>> \in walk.notes \/ Item(None, p) \in errors
          \/ Item(None, p) \in walk.todo \/ Item(p.dir, None) \in walk.todo
          \/ Item(Root, None) \in walk.todo
      BY <2>2, <2>3 DEF Covered, Stable
    <3>2. CASE Item(None, p) \in walk.todo
      <4>1. Item(None, p) # Item(d, None)
        BY <2>2, ItemsApart
      <4> QED BY <2>1, <3>2, <4>1
    <3>3. CASE p.dir = d
      BY <2>1, <2>3, <3>3, ListedIs
    <3>4. CASE Item(p.dir, None) \in walk.todo /\ p.dir # d
      <4>1. Item(p.dir, None) # Item(d, None)
        BY <3>4, ItemsApart
      <4> QED BY <2>1, <3>4, <4>1
    \* The root is listed: the directory of p is found there.
    <3>5. CASE Item(Root, None) \in walk.todo /\ p.dir # d
      <4>1. d = Root
        BY <2>1, <2>2, <3>5, ItemsApart DEF ListedOnce
      <4>2. Item(p.dir, None) \in Listed(walk.kind, d)
        BY <3>0, <3>5, <4>1, ListedIs
      <4> QED BY <2>1, <4>2
    <3> QED BY <3>1, <3>2, <3>3, <3>4, <3>5
  <2> QED BY <2>1, <2>2, <2>3 DEF Covered, Stable
<1>3. CASE Read
  <2>1. PICK q \in Path :
             /\ walk.status = "walking"
             /\ walk'.todo = walk.todo \ {Item(None, q)}
             /\ walk.notes \subseteq walk'.notes /\ errors \subseteq errors'
             /\ \/ <<q, files[q]>> \in walk'.notes \/ files[q] = Absent
                \/ Item(None, q) \in errors'
             /\ walk'.kind = walk.kind /\ walk'.status # "done"
             /\ UNCHANGED <<files, dirs, touched, seen, vanished, edits>>
    BY <1>3, ReadStep DEF ReadsIt, CannotRead
  <2>2. walk # None
    BY <1>3 DEF Read
  <2>3. ASSUME NEW p \in Path, p \notin touched, files[p] # Absent,
               Include(walk.kind, p.name)
        PROVE  \/ <<p, files[p]>> \in walk'.notes \/ Item(None, p) \in errors'
               \/ Item(None, p) \in walk'.todo \/ Item(p.dir, None) \in walk'.todo
               \/ Item(Root, None) \in walk'.todo
    <3>0. p.dir \in Dirs \cup {Root}
      BY DEF Path
    <3>1. \/ <<p, files[p]>> \in walk.notes \/ Item(None, p) \in errors
          \/ Item(None, p) \in walk.todo \/ Item(p.dir, None) \in walk.todo
          \/ Item(Root, None) \in walk.todo
      BY <2>2, <2>3 DEF Covered, Stable
    <3>2. Item(p.dir, None) # Item(None, q) /\ Item(Root, None) # Item(None, q)
      BY <3>0, ItemsApart
    <3>3. CASE Item(None, p) \in walk.todo /\ p = q
      BY <2>1, <2>3, <3>3
    <3>4. CASE Item(None, p) \in walk.todo /\ p # q
      <4>1. Item(None, p) # Item(None, q)
        BY <3>4, ItemsApart
      <4> QED BY <2>1, <3>4, <4>1
    <3> QED BY <2>1, <3>1, <3>2, <3>3, <3>4
  <2> QED BY <2>1, <2>2, <2>3 DEF Covered, Stable
<1>4. CASE ListFails \/ Finish
  <2>1. /\ walk'.todo = walk.todo /\ walk'.notes = walk.notes /\ walk'.kind = walk.kind
        /\ walk'.status = "done" => walk.todo = {}
        /\ errors \subseteq errors'
        /\ UNCHANGED <<files, dirs, touched, seen, vanished, edits>>
    BY <1>4, EndStep
  <2>2. walk # None
    BY <1>4 DEF ListFails, Finish
  <2> QED BY <2>1, <2>2 DEF Covered, Stable
<1>5. CASE Edit
  <2>1. /\ walk' = walk /\ walk # None /\ errors' = errors
        /\ \A p \in Path : p \notin touched' => p \notin touched /\ files'[p] = files[p]
    BY <1>5, EditSeen
  <2> QED BY <2>1 DEF Covered, Stable
<1>6. CASE UNCHANGED vars
  BY <1>6 DEF vars, Covered, Stable
<1> QED BY <1>1, <1>2, <1>3, <1>4, <1>5, <1>6 DEF Next

LEMMA EndedNext ==
    ASSUME Types, Ended, [Next]_vars PROVE Ended'
<1>1. ASSUME NEW kind \in {"graph", "search"}, Begin(kind) PROVE Ended'
  <2>1. walk'.status = "walking" /\ errors' = {}
    BY <1>1, BeginStep
  <2> QED BY <2>1 DEF Ended
<1>2. CASE List
  <2>1. walk # None
    BY <1>2 DEF List
  <2>2. walk.status = "walking" /\ walk'.status = walk.status /\ errors' = errors
    BY <1>2, ListStep
  <2> QED BY <2>1, <2>2 DEF Ended
<1>3. CASE Read
  <2>1. walk # None
    BY <1>3 DEF Read
  <2>2. PICK p \in Path : /\ walk.status = "walking" /\ walk'.kind = walk.kind
                          /\ ReadsIt(p) \/ CannotRead(p)
    BY <1>3, ReadStep
  <2>3. \A i \in errors : i.path # None
    BY <2>1, <2>2 DEF Ended
  <2>4. Item(None, p).path # None
    BY ItemsApart, VaultAssumption
  <2>5. \A i \in errors' : i.path # None
    BY <2>2, <2>3, <2>4 DEF ReadsIt, CannotRead
  <2>6. walk'.status = "panicked" =>
          walk'.kind = "search" /\ \E n \in walk'.notes : Panics(n[2].text)
    BY <2>2 DEF ReadsIt, CannotRead
  <2> QED BY <2>5, <2>6 DEF Ended
<1>4. CASE ListFails \/ Finish
  <2>1. walk # None
    BY <1>4 DEF ListFails, Finish
  <2>2. /\ walk.status = "walking"
        /\ walk'.status = "failed" \/ (walk'.status = "done" /\ errors' = errors)
    BY <1>4, EndStep
  <2> QED BY <2>1, <2>2 DEF Ended
<1>5. CASE Edit
  <2>1. walk' = walk /\ errors' = errors
    BY <1>5, EditSeen
  <2> QED BY <2>1 DEF Ended
<1>6. CASE UNCHANGED vars
  BY <1>6 DEF vars, Ended
<1> QED BY <1>1, <1>2, <1>3, <1>4, <1>5, <1>6 DEF Next

LEMMA Invariance == Spec => []IInv
<1>1. IInv /\ [Next]_vars => IInv'
  BY TypesNext, ListedOnceNext, WitnessedNext, CoveredNext, EndedNext DEF IInv
<1> QED BY Initially, <1>1, PTL DEF Spec

-----------------------------------------------------------------------------
(* The scan *)

LEMMA WalkIsTrueOf == ASSUME IInv PROVE WalkIsTrue
<1> SUFFICES ASSUME walk # None
             PROVE  /\ walk.notes \subseteq seen
                    /\ \A m, n \in walk.notes : m[1] = n[1] => m = n
                    /\ walk.status = "failed" => vanished # {} \/ \E i \in errors : i.dir # None
                    /\ Done(walk.kind) =>
                         /\ \A i \in errors : i.path # None
                         /\ \A p \in Path : Kept(p) /\ Include(walk.kind, p.name) =>
                              <<p, files[p]>> \in walk.notes
  BY DEF WalkIsTrue
<1>1. /\ walk.notes \subseteq seen
      /\ \A m, n \in walk.notes : m[1] = n[1] => m = n
      /\ walk.status = "failed" => vanished # {} \/ \E i \in errors : i.dir # None
  BY DEF IInv, Witnessed
<1>2. ASSUME Done(walk.kind), NEW p \in Path, Kept(p), Include(walk.kind, p.name)
      PROVE  <<p, files[p]>> \in walk.notes
  <2>1. walk.todo = {}
    BY <1>2 DEF IInv, Covered, Done
  <2> QED BY <1>2, <2>1 DEF IInv, Covered, Kept
<1>3. Done(walk.kind) => \A i \in errors : i.path # None
  BY DEF IInv, Ended, Done
<1> QED BY <1>1, <1>2, <1>3

\* The variables of the vault and of the scan keep their types, and no file is
\* without its directory.
THEOREM TypeCorrect == Spec => []VaultTypeOK
<1>1. ASSUME IInv PROVE VaultTypeOK
  <2>1. Types
    BY <1>1 DEF IInv
  <2>2. \A i \in Items : (i.dir = None) # (i.path = None)
    BY ItemsApart, VaultAssumption DEF Items
  <2> QED BY <2>1, <2>2 DEF Types, Walks, VaultTypeOK
<1> QED BY Invariance, <1>1, PTL

\* Any number of saves, deletes and renames of files and directories between
\* the Lists and Reads of a scan: it reports nothing that was not there, no
\* path twice, no failure without a directory gone or unreadable, and when it
\* ends it has listed all it met and misses no file that nobody touched and that
\* could be read (search.go:65-100).
THEOREM ScansAreTrue == Spec => []WalkIsTrue
BY Invariance, WalkIsTrueOf, PTL

-----------------------------------------------------------------------------
(* The graph *)

LEMMA EdgesAre ==
    ASSUME NEW notes
    PROVE  /\ \A e \in Edges(notes) : \E n \in notes : e.source = n[1]
           /\ \A n \in notes : \A to \in extractWikilinkTargets(n[2]) :
                [source |-> n[1], target |-> resolveLinkTarget(to, n[1].dir),
                 relation |-> None] \in Edges(notes)
           /\ \A n \in notes : \A x \in extractFrontmatterRelations(n[2]) :
                [source |-> n[1], target |-> resolveLinkTarget(x[2], n[1].dir),
                 relation |-> x[1]] \in Edges(notes)
<1> DEFINE linked(n) == {[source |-> n[1], target |-> resolveLinkTarget(to, n[1].dir),
                          relation |-> None] : to \in extractWikilinkTargets(n[2])}
           related(n) == {[source |-> n[1], target |-> resolveLinkTarget(x[2], n[1].dir),
                           relation |-> x[1]] : x \in extractFrontmatterRelations(n[2])}
<1>1. \A e : e \in Edges(notes) <=> \E n \in notes : e \in linked(n) \cup related(n)
  BY DEF Edges
<1>2. \A n : \A e \in linked(n) \cup related(n) : e.source = n[1]
  OBVIOUS
<1>3. ASSUME NEW n \in notes, NEW to \in extractWikilinkTargets(n[2])
      PROVE  [source |-> n[1], target |-> resolveLinkTarget(to, n[1].dir),
              relation |-> None] \in linked(n)
  OBVIOUS
<1>4. ASSUME NEW n \in notes, NEW x \in extractFrontmatterRelations(n[2])
      PROVE  [source |-> n[1], target |-> resolveLinkTarget(x[2], n[1].dir),
              relation |-> x[1]] \in related(n)
  OBVIOUS
<1> HIDE DEF linked, related
<1>5. \A e \in Edges(notes) : \E n \in notes : e.source = n[1]
  BY <1>1, <1>2
<1> QED BY <1>1, <1>3, <1>4, <1>5

LEMMA NodesAre ==
    ASSUME NEW notes, NEW id
    PROVE  /\ [id |-> id, resolved |-> TRUE] \in Nodes(notes) <=> \E n \in notes : n[1] = id
           /\ [id |-> id, resolved |-> FALSE] \in Nodes(notes) <=>
                /\ \E e \in Edges(notes) : e.target = id
                /\ ~ \E n \in notes : n[1] = id
<1>1. [id |-> id, resolved |-> TRUE] \in Nodes(notes) <=> \E n \in notes : n[1] = id
  BY DEF Nodes
<1>2. [id |-> id, resolved |-> FALSE] \in Nodes(notes) <=>
        /\ \E e \in Edges(notes) : e.target = id
        /\ ~ \E n \in notes : n[1] = id
  BY DEF Nodes
<1> QED BY <1>1, <1>2

\* A link outside of code, or a name in a field that is not left out.
LinksTo(content, to) ==
    \/ \E l \in content.links : ~l.code /\ l.to.name \notin Images /\ l.to = to
    \/ \E f \in content.fields : \E i \in DOMAIN f.values :
          /\ f.key \notin {"title", "type", "tags"}
          /\ Found(f, i) \in DOMAIN f.values[i] /\ to = f.values[i][Found(f, i)]

LEMMA LinksAreEdges ==
    ASSUME NEW notes, NEW n \in notes, NEW to, LinksTo(n[2], to)
    PROVE  \E e \in Edges(notes) :
             e.source = n[1] /\ e.target = resolveLinkTarget(to, n[1].dir)
<1>1. CASE \E l \in n[2].links : ~l.code /\ l.to.name \notin Images /\ l.to = to
  <2> DEFINE e == [source |-> n[1], target |-> resolveLinkTarget(to, n[1].dir),
                   relation |-> None]
  <2>1. to \in extractWikilinkTargets(n[2])
    BY <1>1 DEF extractWikilinkTargets
  <2>2. e \in Edges(notes)
    BY <2>1, EdgesAre
  <2>3. e.source = n[1] /\ e.target = resolveLinkTarget(to, n[1].dir)
    OBVIOUS
  <2> QED BY <2>2, <2>3
<1>2. CASE \E f \in n[2].fields : \E i \in DOMAIN f.values :
             /\ f.key \notin {"title", "type", "tags"}
             /\ Found(f, i) \in DOMAIN f.values[i] /\ to = f.values[i][Found(f, i)]
  <2>1. PICK f \in n[2].fields : \E i \in DOMAIN f.values :
             /\ f.key \notin {"title", "type", "tags"}
             /\ Found(f, i) \in DOMAIN f.values[i] /\ to = f.values[i][Found(f, i)]
    BY <1>2
  <2>2. <<f.key, to>> \in extractFrontmatterRelations(n[2])
    BY <2>1 DEF extractFrontmatterRelations
  <2> DEFINE e == [source |-> n[1], target |-> resolveLinkTarget(to, n[1].dir),
                   relation |-> f.key]
  <2>3. <<f.key, to>>[2] = to /\ <<f.key, to>>[1] = f.key
    OBVIOUS
  <2>4. e \in Edges(notes)
    BY <2>2, <2>3, EdgesAre
  <2>5. e.source = n[1] /\ e.target = resolveLinkTarget(to, n[1].dir)
    OBVIOUS
  <2> QED BY <2>4, <2>5
<1> QED BY <1>1, <1>2 DEF LinksTo

LEMMA GraphIsTrueOf == ASSUME IInv PROVE GraphIsTrue
<1> DEFINE nodes == Nodes(walk.notes)
           edges == Edges(walk.notes)
           first(f, i) == IF f.form = "bare" /\ i = 1 THEN 2 ELSE 1
           links(p) == {l.to : l \in {l \in files[p].links : ~l.code /\ l.to.name \notin Images}}
                       \cup UNION {{f.values[i][first(f, i)] :
                                      i \in {i \in DOMAIN f.values : first(f, i) \in DOMAIN f.values[i]}} :
                                   f \in {f \in files[p].fields : f.key \notin {"title", "type", "tags"}}}
           means(p, to) == [dir |-> IF to.dir = None THEN p.dir ELSE to.dir,
                            name |-> FileOf[to.name]]
           node(p, there) == [id |-> p, resolved |-> there]
<1> SUFFICES ASSUME Done("graph")
             PROVE  /\ \A e \in edges : /\ node(e.source, TRUE) \in nodes
                                        /\ \E n \in nodes : n.id = e.target
                    /\ \A n \in nodes : ~(node(n.id, TRUE) \in nodes /\ node(n.id, FALSE) \in nodes)
                    /\ \A p \in Path : Kept(p) /\ p.name \in Markdown =>
                         \A to \in links(p) :
                           LET q == means(p, to)
                           IN /\ \E e \in edges : e.source = p /\ e.target = q
                              /\ q \in Path /\ q.name \in Markdown =>
                                   /\ Kept(q) => node(q, TRUE) \in nodes
                                   /\ (q \notin touched /\ files[q] = Absent) =>
                                        node(q, FALSE) \in nodes
  BY DEF GraphIsTrue
<1>0. walk # None /\ walk.kind = "graph" /\ walk \in Walks
  BY DEF Done, IInv, Types
<1>1. ASSUME NEW e \in edges
      PROVE  /\ node(e.source, TRUE) \in nodes
             /\ \E n \in nodes : n.id = e.target
  <2>1. node(e.source, TRUE) \in nodes
    <3>1. \E n \in walk.notes : n[1] = e.source
      BY EdgesAre
    <3> QED BY <3>1, NodesAre
  <2>2. node(e.target, TRUE) \in nodes \/ node(e.target, FALSE) \in nodes
    BY NodesAre
  <2>3. node(e.target, TRUE).id = e.target /\ node(e.target, FALSE).id = e.target
    OBVIOUS
  <2> QED BY <2>1, <2>2, <2>3
<1>2. ASSUME NEW n \in nodes
      PROVE  ~(node(n.id, TRUE) \in nodes /\ node(n.id, FALSE) \in nodes)
  BY NodesAre
\* What nobody touched was read as it is.
<1>3. ASSUME NEW p \in Path, Kept(p), p.name \in Markdown
      PROVE  <<p, files[p]>> \in walk.notes
  <2>1. Include(walk.kind, p.name)
    BY <1>0, <1>3 DEF Include
  <2>2. Done(walk.kind)
    BY <1>0
  <2> QED BY <1>0, <1>3, <2>1, <2>2, WalkIsTrueOf DEF WalkIsTrue
<1>4. ASSUME NEW p \in Path, Kept(p), p.name \in Markdown, NEW to \in links(p)
      PROVE  \E e \in edges : e.source = p /\ e.target = means(p, to)
  <2> DEFINE n == <<p, files[p]>>
  <2>1. n \in walk.notes /\ n[1] = p /\ n[2] = files[p]
    BY <1>3, <1>4
  <2>2. LinksTo(files[p], to)
    BY <1>4 DEF LinksTo, Found
  <2>3. resolveLinkTarget(to, p.dir) = means(p, to)
    BY DEF resolveLinkTarget
  <2> HIDE DEF n
  <2>4. \E e \in Edges(walk.notes) :
          e.source = n[1] /\ e.target = resolveLinkTarget(to, n[1].dir)
    <3>1. LinksTo(n[2], to)
      BY <2>1, <2>2
    <3> HIDE DEF links, means, node
    <3> QED BY <2>1, <3>1, LinksAreEdges
  <2> QED BY <2>1, <2>3, <2>4
<1>5. ASSUME NEW q \in Path, q.name \in Markdown, Kept(q)
      PROVE  node(q, TRUE) \in nodes
  <2>1. <<q, files[q]>> \in walk.notes /\ <<q, files[q]>>[1] = q
    BY <1>3, <1>5
  <2> QED BY <2>1, NodesAre
\* No note was read where there was none from the first to the last step.
<1>6. ASSUME NEW q \in Path, q \notin touched, files[q] = Absent,
             \E e \in edges : e.target = q
      PROVE  node(q, FALSE) \in nodes
  <2>1. ASSUME NEW n \in walk.notes PROVE n[1] # q
    <3>1. n[2] \in Contents
      BY <1>0 DEF Walks
    <3>2. n[1] \notin touched => files[n[1]] = n[2]
      BY <1>0 DEF IInv, Witnessed
    <3>3. Absent # n[2]
      BY <3>1, VaultAssumption
    <3> QED BY <1>6, <3>2, <3>3
  <2>2. \E e \in Edges(walk.notes) : e.target = q
    BY <1>6
  <2>3. ~ \E n \in walk.notes : n[1] = q
    BY <2>1
  <2>4. [id |-> q, resolved |-> FALSE] \in Nodes(walk.notes)
    <3> HIDE DEF links, means, edges, nodes, node
    <3> QED BY <2>2, <2>3, NodesAre
  <2> QED BY <2>4
<1> HIDE DEF nodes, edges, links, means, node
<1>7. ASSUME NEW p \in Path, Kept(p), p.name \in Markdown, NEW to \in links(p)
      PROVE  LET q == means(p, to)
             IN /\ \E e \in edges : e.source = p /\ e.target = q
                /\ q \in Path /\ q.name \in Markdown =>
                     /\ Kept(q) => node(q, TRUE) \in nodes
                     /\ (q \notin touched /\ files[q] = Absent) => node(q, FALSE) \in nodes
  <2>1. \E e \in edges : e.source = p /\ e.target = means(p, to)
    BY <1>4, <1>7
  <2> QED BY <2>1, <1>5, <1>6
<1> QED BY <1>1, <1>2, <1>7

\* A graph built while the vault changes is closed, knows no note twice, and
\* of what nobody touched and could be read has every edge the code finds a link
\* for, every note and every phantom (ontology.go:82-115).
THEOREM GraphsAreTrue == Spec => []GraphIsTrue
BY Invariance, GraphIsTrueOf, PTL

-----------------------------------------------------------------------------
(* The excerpt of a search *)

LEMMA LeastNumber ==
    ASSUME NEW S \in SUBSET Nat, S # {}
    PROVE  \E x \in S : \A y \in S : x <= y
<1> DEFINE R == OpToRel(<, Nat)
<1>1. IsWellFoundedOn(R, Nat)
  BY NatLessThanWellFounded
<1>2. \A x, y \in Nat : <<x, y>> \in R <=> x < y
  BY DEF OpToRel
<1> HIDE DEF R
<1>3. PICK x \in S : \A y \in S : ~(<<y, x>> \in R)
  BY <1>1, WFMin
<1>4. ASSUME NEW y \in S PROVE x <= y
  <2>1. x \in Nat /\ y \in Nat
    OBVIOUS
  <2>2. ~(<<y, x>> \in R)
    BY <1>3
  <2>3. ~(y < x)
    BY <1>2, <2>1, <2>2
  <2> QED BY <2>1, <2>3
<1> QED BY <1>4

LEMMA LeastIs ==
    ASSUME NEW S \in SUBSET Nat, S # {}
    PROVE  Least(S) \in S /\ \A y \in S : Least(S) <= y
BY LeastNumber DEF Least

LEMMA MostIs ==
    ASSUME NEW m \in Nat, NEW S \in SUBSET (0 .. m), S # {}
    PROVE  Most(S) \in S /\ \A y \in S : Most(S) >= y
<1> DEFINE T == {m - y : y \in S}
<1>1. T \in SUBSET Nat /\ T # {}
  <2>1. ASSUME NEW y \in S PROVE m - y \in Nat
    <3>1. y \in 0 .. m
      OBVIOUS
    <3> QED BY <3>1
  <2> QED BY <2>1
<1>2. PICK t \in T : \A u \in T : t <= u
  BY <1>1, LeastNumber
<1>3. PICK x \in S : t = m - x
  OBVIOUS
<1>4. ASSUME NEW y \in S PROVE x >= y
  <2>1. m - x <= m - y
    BY <1>2, <1>3
  <2> QED BY <2>1
<1> QED BY <1>4 DEF Most

LEMMA PairIs ==
    ASSUME NEW a \in Int, NEW b \in Int
    PROVE  /\ Most({a, b}) \in {a, b} /\ Most({a, b}) >= a /\ Most({a, b}) >= b
           /\ Least({a, b}) \in {a, b} /\ Least({a, b}) <= a /\ Least({a, b}) <= b
<1>1. \E x \in {a, b} : \A y \in {a, b} : x >= y
  <2>1. CASE a >= b
    BY <2>1
  <2>2. CASE b >= a
    BY <2>2
  <2> QED BY <2>1, <2>2
<1>2. \E x \in {a, b} : \A y \in {a, b} : x <= y
  <2>1. CASE a <= b
    BY <2>1
  <2>2. CASE b <= a
    BY <2>2
  <2> QED BY <2>1, <2>2
<1> QED BY <1>1, <1>2 DEF Most, Least

\* The widths of n characters, added up from the front.
Summed(n, W, f) == f = [i \in 0 .. n |-> IF i = 0 THEN 0 ELSE f[i - 1] + W[i]]

LEMMA SumExists ==
    ASSUME NEW n \in Nat, NEW W PROVE \E f : Summed(n, W, f)
<1> DEFINE T == {m \in Nat : ~ \E f : Summed(m, W, f)}
<1> SUFFICES ASSUME n \in T PROVE FALSE
  OBVIOUS
<1>1. PICK m \in T : \A k \in T : m <= k
  BY LeastNumber
<1>2. m # 0
  <2> DEFINE g == [i \in 0 .. 0 |-> 0]
  <2>1. g = [i \in 0 .. 0 |-> IF i = 0 THEN 0 ELSE g[i - 1] + W[i]]
    OBVIOUS
  <2> QED BY <1>1, <2>1 DEF Summed
<1>3. m - 1 \in Nat /\ m - 1 \notin T
  BY <1>1, <1>2
<1>4. PICK f : Summed(m - 1, W, f)
  BY <1>3
<1> DEFINE g == [i \in 0 .. m |-> IF i = m THEN f[m - 1] + W[m] ELSE f[i]]
<1>5. ASSUME NEW i \in 0 .. m PROVE g[i] = IF i = 0 THEN 0 ELSE g[i - 1] + W[i]
  <2>1. CASE i = m
    <3>1. g[i] = f[m - 1] + W[m] /\ g[m - 1] = f[m - 1]
      BY <1>2, <1>3, <2>1
    <3> QED BY <1>2, <2>1, <3>1
  <2>2. CASE i # m
    <3>1. i \in 0 .. (m - 1)
      BY <1>3, <2>2
    <3>2. f[i] = IF i = 0 THEN 0 ELSE f[i - 1] + W[i]
      BY <1>4, <3>1 DEF Summed
    <3>3. g[i] = f[i] /\ (i # 0 => g[i - 1] = f[i - 1])
      BY <1>3, <3>1, <2>2
    <3> QED BY <3>2, <3>3
  <2> QED BY <2>1, <2>2
<1>6. g = [i \in 0 .. m |-> IF i = 0 THEN 0 ELSE g[i - 1] + W[i]]
  <2> DEFINE h == [i \in 0 .. m |-> IF i = 0 THEN 0 ELSE g[i - 1] + W[i]]
  <2>1. \A i \in 0 .. m : g[i] = h[i]
    BY <1>5
  <2> QED BY <2>1
<1> QED BY <1>1, <1>6 DEF Summed

\* They are numbers, and grow from one to the next.
LEMMA SumGrows ==
    ASSUME NEW n \in Nat, NEW W \in [1 .. n -> Nat \ {0}], NEW f, Summed(n, W, f)
    PROVE  /\ f \in [0 .. n -> Nat] /\ f[0] = 0
           /\ \A i, j \in 0 .. n : i < j => f[i] < f[j]
<1>0. /\ DOMAIN f = 0 .. n /\ f[0] = 0
      /\ f = [i \in 0 .. n |-> f[i]]
      /\ \A i \in 1 .. n : f[i] = f[i - 1] + W[i]
  BY DEF Summed
<1>1. \A i \in 0 .. n : f[i] \in Nat
  <2> DEFINE T == {i \in 0 .. n : f[i] \notin Nat}
  <2> SUFFICES ASSUME T # {} PROVE FALSE
    OBVIOUS
  <2>0. T \in SUBSET Nat
    OBVIOUS
  <2>1. PICK i \in T : \A k \in T : i <= k
    BY <2>0, LeastNumber
  <2>2. i # 0 /\ i \in 1 .. n /\ i - 1 \in 0 .. n
    BY <1>0, <2>1
  <2>3. i - 1 \notin T
    BY <2>1, <2>2
  <2>4. f[i - 1] \in Nat /\ W[i] \in Nat
    BY <2>2, <2>3
  <2>5. f[i] \in Nat
    <3>1. f[i] = f[i - 1] + W[i]
      BY <1>0, <2>2
    <3> QED BY <2>4, <3>1
  <2> QED BY <2>1, <2>5
<1>2. ASSUME NEW i \in 0 .. n PROVE \A j \in 0 .. n : i < j => f[i] < f[j]
  <2> DEFINE T == {j \in 0 .. n : i < j /\ ~(f[i] < f[j])}
  <2> SUFFICES ASSUME T # {} PROVE FALSE
    OBVIOUS
  <2>0. T \in SUBSET Nat
    OBVIOUS
  <2>1. PICK j \in T : \A k \in T : j <= k
    BY <2>0, LeastNumber
  <2>2. j \in 1 .. n /\ j - 1 \in 0 .. n /\ i <= j - 1
    BY <2>1
  <2>3. f[j] = f[j - 1] + W[j] /\ W[j] \in Nat \ {0} /\ f[j - 1] \in Nat /\ f[i] \in Nat
    BY <1>0, <1>1, <2>2
  <2>4. f[j - 1] < f[j]
    BY <2>3
  <2>5. j - 1 \notin T
    BY <2>1, <2>2
  <2>6. i = j - 1 \/ f[i] < f[j - 1]
    BY <2>2, <2>5
  <2>7. f[j] \in Nat
    BY <1>1, <2>2
  <2>8. f[i] < f[j]
    <3>1. CASE i = j - 1
      BY <2>4, <3>1
    <3>2. CASE f[i] < f[j - 1]
      BY <2>3, <2>4, <2>7, <3>2
    <3> QED BY <2>6, <3>1, <3>2
  <2> QED BY <2>1, <2>8
<1>3. f \in [0 .. n -> Nat]
  BY <1>0, <1>1
<1> QED BY <1>0, <1>2, <1>3

LEMMA SumIsOne ==
    ASSUME NEW n \in Nat, NEW W, NEW f, NEW g, Summed(n, W, f), Summed(n, W, g)
    PROVE  f = g
<1>0. ASSUME NEW h, Summed(n, W, h)
      PROVE  /\ h = [i \in 0 .. n |-> h[i]]
             /\ h[0] = 0
             /\ \A i \in 1 .. n : h[i] = h[i - 1] + W[i]
  <2>1. h = [i \in 0 .. n |-> IF i = 0 THEN 0 ELSE h[i - 1] + W[i]]
    BY <1>0 DEF Summed
  <2>2. h[0] = 0
    BY <2>1
  <2>3. \A i \in 1 .. n : h[i] = h[i - 1] + W[i]
    BY <2>1
  <2>4. h = [i \in 0 .. n |-> h[i]]
    BY <2>1
  <2> QED BY <2>2, <2>3, <2>4
<1>1. \A i \in 0 .. n : f[i] = g[i]
  <2> DEFINE T == {i \in 0 .. n : f[i] # g[i]}
  <2> SUFFICES ASSUME T # {} PROVE FALSE
    OBVIOUS
  <2>0. T \in SUBSET Nat
    OBVIOUS
  <2>1. PICK i \in T : \A k \in T : i <= k
    BY <2>0, LeastNumber
  <2>2. i \in 1 .. n /\ i - 1 \in 0 .. n
    BY <1>0, <2>1
  <2>3. f[i - 1] = g[i - 1]
    <3>1. i - 1 \notin T
      BY <2>1, <2>2
    <3> QED BY <2>2, <3>1
  <2> QED BY <1>0, <2>1, <2>2, <2>3
<1>2. [i \in 0 .. n |-> f[i]] = [i \in 0 .. n |-> g[i]]
  BY <1>1
<1> QED BY <1>0, <1>2

Widths(text) == [k \in 1 .. Len(text) |-> text[k].w]
LowerWidths(text) == [k \in 1 .. Len(text) |-> text[k].lw]

LEMMA BytesAreSummed ==
    ASSUME NEW text, Len(text) \in Nat
    PROVE  /\ Summed(Len(text), Widths(text), Bytes(text))
           /\ Summed(Len(text), LowerWidths(text), LowerBytes(text))
<1>1. Summed(Len(text), Widths(text), Bytes(text))
  <2> DEFINE F(f) == [n \in 0 .. Len(text) |-> IF n = 0 THEN 0 ELSE f[n - 1] + text[n].w]
  <2>1. \A f : Summed(Len(text), Widths(text), f) <=> f = F(f)
    <3>1. ASSUME NEW f
          PROVE  F(f) = [i \in 0 .. Len(text) |->
                           IF i = 0 THEN 0 ELSE f[i - 1] + Widths(text)[i]]
      BY DEF Widths
    <3> QED BY <3>1 DEF Summed
  <2>2. \E f : f = F(f)
    BY <2>1, SumExists
  <2>3. Bytes(text) = CHOOSE f : f = F(f)
    BY DEF Bytes
  <2> QED BY <2>1, <2>2, <2>3
<1>2. Summed(Len(text), LowerWidths(text), LowerBytes(text))
  <2> DEFINE F(f) == [n \in 0 .. Len(text) |-> IF n = 0 THEN 0 ELSE f[n - 1] + text[n].lw]
  <2>1. \A f : Summed(Len(text), LowerWidths(text), f) <=> f = F(f)
    <3>1. ASSUME NEW f
          PROVE  F(f) = [i \in 0 .. Len(text) |->
                           IF i = 0 THEN 0 ELSE f[i - 1] + LowerWidths(text)[i]]
      BY DEF LowerWidths
    <3> QED BY <3>1 DEF Summed
  <2>2. \E f : f = F(f)
    BY <2>1, SumExists
  <2>3. LowerBytes(text) = CHOOSE f : f = F(f)
    BY DEF LowerBytes
  <2> QED BY <2>1, <2>2, <2>3
<1> QED BY <1>1, <1>2

\* Where no character changes its width, the byte of the match is the same in
\* the text and in its lower case.
LEMMA BytesGrow ==
    ASSUME NEW text, Len(text) \in Nat, DOMAIN text = 1 .. Len(text),
           \A k \in DOMAIN text : text[k].w \in Nat \ {0} /\ text[k].w = text[k].lw
    PROVE  /\ Bytes(text) \in [0 .. Len(text) -> Nat] /\ Bytes(text)[0] = 0
           /\ \A i, j \in 0 .. Len(text) : i < j => Bytes(text)[i] < Bytes(text)[j]
           /\ LowerBytes(text) = Bytes(text)
<1>1. Widths(text) \in [1 .. Len(text) -> Nat \ {0}]
  BY DEF Widths
<1>2. Summed(Len(text), Widths(text), Bytes(text))
  BY BytesAreSummed
<1>3. Widths(text) = LowerWidths(text)
  BY DEF Widths, LowerWidths
<1>4. LowerBytes(text) = Bytes(text)
  BY <1>2, <1>3, BytesAreSummed, SumIsOne
<1>5. /\ Bytes(text) \in [0 .. Len(text) -> Nat] /\ Bytes(text)[0] = 0
      /\ \A i, j \in 0 .. Len(text) : i < j => Bytes(text)[i] < Bytes(text)[j]
  BY <1>1, <1>2, SumGrows
<1> QED BY <1>4, <1>5

\* A text that has the query, no character of it wider or narrower in lower
\* case: the excerpt begins at or before the first match, ends at or behind it,
\* and both ends are between characters; there is no panic.
LEMMA SnippetIs ==
    ASSUME NEW c \in Contents, Matches(c.text) # {},
           \A k \in DOMAIN c.text : c.text[k].w = c.text[k].lw
    PROVE  LET at == Bytes(c.text)
               snippet == MatchSnippet(c.text)
           IN /\ ~Panics(c.text)
              /\ \E k \in Matches(c.text) :
                   snippet[1] <= at[k] /\ at[k + Len(Query)] <= snippet[2]
              /\ {snippet[1], snippet[2]} \subseteq {at[k] : k \in DOMAIN at}
<1> DEFINE text == c.text
           L == Len(text)
           Q == Len(Query)
           at == Bytes(text)
           k0 == Least(Matches(text))
           idx == at[k0]
           len == at[L]
           start == Most({idx - Radius, 0})
           end == Least({idx + Width + Radius, len})
           heads == {b \in 0 .. start : b = 0 \/ RuneStart(text, b)}
           tails == {b \in 0 .. len : b >= end /\ (b = len \/ RuneStart(text, b))}
<1>1. /\ L \in Nat /\ DOMAIN text = 1 .. L
      /\ \A k \in DOMAIN text : text[k].w \in Nat \ {0}
      /\ \A k \in Matches(text) : LowerBytes(text)[k + Q] <= LowerBytes(text)[k] + Width + Radius
  BY TextAssumption
<1>2. /\ at \in [0 .. L -> Nat] /\ at[0] = 0 /\ LowerBytes(text) = at
      /\ \A i, j \in 0 .. L : i < j => at[i] < at[j]
  BY <1>1, BytesGrow
<1>3. Q \in Nat \ {0} /\ Width \in Nat /\ Radius \in Nat
  BY VaultAssumption
<1>4. k0 \in Matches(text)
  <2>1. Matches(text) \in SUBSET Nat
    BY <1>1, <1>3 DEF Matches
  <2> QED BY <2>1, LeastIs
<1>5. k0 \in 0 .. L - 1 /\ k0 + Q \in 0 .. L /\ L \in 0 .. L
  BY <1>1, <1>3, <1>4 DEF Matches
<1> HIDE DEF text, L, Q, at, k0
<1>6. /\ idx \in Nat /\ len \in Nat /\ at[k0 + Q] \in Nat
      /\ idx < len /\ at[k0 + Q] <= len /\ at[k0 + Q] <= idx + Width + Radius
  <2>1. idx \in Nat /\ len \in Nat /\ at[k0 + Q] \in Nat
    BY <1>2, <1>5
  <2>2. idx < len
    BY <1>2, <1>5
  <2>3. at[k0 + Q] <= len
    <3>1. CASE k0 + Q = L
      BY <2>1, <3>1
    <3>2. CASE k0 + Q # L
      <4>1. k0 + Q < L
        BY <1>5, <3>2
      <4>2. at[k0 + Q] < len
        BY <1>2, <1>5, <4>1
      <4> QED BY <2>1, <4>2
    <3> QED BY <3>1, <3>2
  <2> QED BY <1>1, <1>2, <1>4, <2>1, <2>2, <2>3
<1> HIDE DEF idx, len
<1>7. start \in 0 .. idx
  <2> DEFINE a == idx - Radius
  <2>1. a \in Int /\ a <= idx /\ 0 \in Int
    BY <1>3, <1>6
  <2> HIDE DEF a
  <2>2. Most({a, 0}) \in {a, 0} /\ Most({a, 0}) >= 0
    BY <2>1, PairIs
  <2>3. Most({a, 0}) \in 0 .. idx
    BY <1>6, <2>1, <2>2
  <2> QED BY <2>3 DEF a
<1>8. at[k0 + Q] <= end /\ end <= len /\ end \in Nat
  <2> DEFINE a == idx + Width + Radius
  <2>1. a \in Int /\ a \in Nat /\ len \in Int /\ at[k0 + Q] <= a
    BY <1>3, <1>6
  <2> HIDE DEF a
  <2>2. Least({a, len}) \in {a, len} /\ Least({a, len}) <= len
    BY <2>1, PairIs
  <2>3. /\ at[k0 + Q] <= Least({a, len}) /\ Least({a, len}) <= len
        /\ Least({a, len}) \in Nat
    BY <1>6, <2>1, <2>2
  <2> QED BY <2>3 DEF a
<1>9. Most(heads) \in heads
  <2>1. start \in Nat
    BY <1>6, <1>7
  <2>2. heads \in SUBSET (0 .. start) /\ 0 \in heads
    BY <2>1
  <2> HIDE DEF heads, start
  <2> QED BY <2>1, <2>2, MostIs
<1>10. Least(tails) \in tails
  <2>1. tails \in SUBSET Nat /\ len \in tails
    BY <1>6, <1>8
  <2> HIDE DEF tails
  <2> QED BY <2>1, LeastIs
\* A byte where a character starts is the sum of those before it.
<1>11. ASSUME NEW b, RuneStart(text, b) PROVE \E k \in 0 .. L : b = at[k]
  BY <1>1, <1>11 DEF RuneStart, at, L
<1>12. \E k \in 0 .. L : Most(heads) = at[k]
  <2>1. Most(heads) = 0 \/ RuneStart(text, Most(heads))
    BY <1>9
  <2>2. 0 \in 0 .. L
    BY <1>1
  <2> QED BY <1>2, <1>11, <2>1, <2>2
<1>13. \E k \in 0 .. L : Least(tails) = at[k]
  <2>1. Least(tails) = len \/ RuneStart(text, Least(tails))
    BY <1>10
  <2> QED BY <1>5, <1>11, <2>1 DEF len
<1>14. MatchSnippet(text) = <<Most(heads), Least(tails)>>
  <2>2. SnippetEnd(text, idx) = Least(tails)
    BY DEF SnippetEnd, len, at, L
  <2>3. MatchSnippet(text) = <<Most(heads), SnippetEnd(text, idx)>>
    BY <1>2 DEF MatchSnippet, idx, at, len, L, k0
  <2> QED BY <2>2, <2>3
<1>15. Most(heads) <= idx /\ at[k0 + Q] <= Least(tails)
  <2>1. Most(heads) \in 0 .. start
    BY <1>9
  <2>2. Least(tails) \in 0 .. len /\ Least(tails) >= end
    BY <1>10
  <2> HIDE DEF heads, tails, start, end
  <2>3. Most(heads) <= idx
    BY <1>6, <1>7, <2>1
  <2>4. at[k0 + Q] <= Least(tails)
    BY <1>6, <1>8, <2>2
  <2> QED BY <2>3, <2>4
<1> HIDE DEF heads, tails
<1> DEFINE snippet == MatchSnippet(text)
<1>16. snippet[1] = Most(heads) /\ snippet[2] = Least(tails)
  BY <1>14
<1>17. \E k \in Matches(text) : snippet[1] <= at[k] /\ at[k + Q] <= snippet[2]
  BY <1>4, <1>15, <1>16 DEF idx
<1>18. {snippet[1], snippet[2]} \subseteq {at[k] : k \in DOMAIN at}
  BY <1>2, <1>12, <1>13, <1>16
<1>19. ~Panics(text)
  <2>1. ~(idx - Radius > 0 /\ idx - Radius >= len)
    BY <1>3, <1>6
  <2>2. Panics(text) => idx - Radius > 0 /\ idx - Radius >= len
    BY <1>2 DEF Panics, idx, at, len, L, k0
  <2> QED BY <2>1, <2>2
<1> QED BY <1>17, <1>18, <1>19 DEF text, at, Q

\* Only a text with a character that changes its width makes a search panic.
LEMMA PanicsAreExplained ==
    ASSUME IInv, walk # None, walk.status = "panicked"
    PROVE  walk.kind = "search" /\ \E n \in walk.notes : ~KeepsWidth(n[2].text)
<1>1. walk.kind = "search" /\ \E n \in walk.notes : Panics(n[2].text)
  BY DEF IInv, Ended
<1>2. PICK n \in walk.notes : Panics(n[2].text)
  BY <1>1
<1>3. n[2] \in Contents
  BY DEF IInv, Types, Walks
<1>4. Matches(n[2].text) # {}
  BY <1>2 DEF Panics
<1>5. ~KeepsWidth(n[2].text)
  BY <1>2, <1>3, <1>4, SnippetIs DEF KeepsWidth
<1> QED BY <1>1, <1>5

LEMMA SearchIsTrueOf == ASSUME IInv PROVE SearchIsTrue
<1> SUFFICES ASSUME Done("search")
             PROVE  /\ \A p \in Path : Kept(p) /\ p.name \notin Binary
                                       /\ Matches(files[p].text) # {} =>
                         \E r \in Results(walk.notes) : r.path = p
                    /\ \A n \in walk.notes, r \in Results(walk.notes) :
                         LET at == Bytes(n[2].text)
                         IN r.path = n[1] /\ KeepsWidth(n[2].text) =>
                              /\ \E k \in Matches(n[2].text) :
                                   r.snippet[1] <= at[k] /\ at[k + Len(Query)] <= r.snippet[2]
                              /\ {r.snippet[1], r.snippet[2]} \subseteq {at[k] : k \in DOMAIN at}
  BY PanicsAreExplained DEF SearchIsTrue
<1>0. walk # None /\ walk.kind = "search" /\ walk \in Walks
  BY DEF Done, IInv, Types
<1>1. ASSUME NEW p \in Path, Kept(p), p.name \notin Binary, Matches(files[p].text) # {}
      PROVE  \E r \in Results(walk.notes) : r.path = p
  <2> DEFINE n == <<p, files[p]>>
             r == [path |-> n[1], snippet |-> MatchSnippet(n[2].text)]
  <2>1. Include(walk.kind, p.name)
    BY <1>0, <1>1 DEF Include
  <2>2. Done(walk.kind)
    BY <1>0
  <2>3. n \in walk.notes
    BY <1>0, <1>1, <2>1, <2>2, WalkIsTrueOf DEF WalkIsTrue
  <2>4. n[1] = p /\ n[2] = files[p]
    OBVIOUS
  <2> HIDE DEF n
  <2>5. r \in Results(walk.notes)
    BY <1>1, <2>3, <2>4 DEF Results
  <2>6. r.path = p
    BY <2>4
  <2> QED BY <2>5, <2>6
\* There is but one note of a path, so the excerpt is of that note.
<1>2. ASSUME NEW n \in walk.notes, NEW r \in Results(walk.notes), r.path = n[1]
      PROVE  Matches(n[2].text) # {} /\ r.snippet = MatchSnippet(n[2].text)
  <2>1. PICK m \in walk.notes :
          /\ Matches(m[2].text) # {}
          /\ r = [path |-> m[1], snippet |-> MatchSnippet(m[2].text)]
    BY DEF Results
  <2>2. r.path = m[1] /\ r.snippet = MatchSnippet(m[2].text)
    BY <2>1
  <2>3. m = n
    BY <1>0, <1>2, <2>2 DEF IInv, Witnessed
  <2> QED BY <2>1, <2>2, <2>3
<1>3. ASSUME NEW n \in walk.notes PROVE n[2] \in Contents
  BY <1>0 DEF Walks
<1>4. ASSUME NEW n \in walk.notes, NEW r \in Results(walk.notes), r.path = n[1],
             KeepsWidth(n[2].text)
      PROVE  LET at == Bytes(n[2].text)
             IN /\ \E k \in Matches(n[2].text) :
                     r.snippet[1] <= at[k] /\ at[k + Len(Query)] <= r.snippet[2]
                /\ {r.snippet[1], r.snippet[2]} \subseteq {at[k] : k \in DOMAIN at}
  <2>1. Matches(n[2].text) # {} /\ r.snippet = MatchSnippet(n[2].text)
    BY <1>2, <1>4
  <2>2. n[2] \in Contents
    BY <1>3
  <2> QED BY <1>4, <2>1, <2>2, SnippetIs DEF KeepsWidth
<1> QED BY <1>1, <1>4

\* A search that ran to its end while the vault changed shows every file that has
\* the query, that nobody touched and that could be read, and its excerpt of a
\* text that keeps its widths in lower case holds a match, cut between characters;
\* a search that panicked has read a text with another width (search.go:27-63).
THEOREM SearchesAreTrue == Spec => []SearchIsTrue
BY Invariance, SearchIsTrueOf, PTL

=============================================================================
