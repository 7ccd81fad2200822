---------------------------- MODULE BackupSyncer ----------------------------
(***************************************************************************)
(* internal/backup/syncer.go: one goroutine mirrors the vault's files to   *)
(* an S3 bucket, every day under a prefix of its own.  A pass takes the    *)
(* date once, walks the files, and uploads those whose object is missing   *)
(* or differs.  Meanwhile files change, days pass, S3 and the file system  *)
(* fail, and the process restarts.                                         *)
(***************************************************************************)
EXTENDS Naturals, FiniteSets

CONSTANTS
    Files,        \* relative paths under the root
    Texts,        \* contents of a file
    Absent,       \* no file, no object
    LastDay,      \* bound on the calendar
    MaxEdits,     \* bound on the changes to the files
    MaxFaults,    \* bound on errors of S3 and of the walk, and restarts
    Multipart     \* contents so large that their ETag is no hash

ASSUME BackupAssumption ==
    /\ LastDay \in Nat /\ MaxEdits \in Nat /\ MaxFaults \in Nat
    /\ Absent \notin Texts /\ Multipart \subseteq Texts

VARIABLES
    day,          \* today, UTC
    files,        \* content of each file
    bucket,       \* content of each object, by day and file
    pc,           \* what the syncer does
    prefix,       \* datePrefix of the running pass
    todo, cur,    \* files the walk has still to visit, and the one it is at
    failed,       \* files the running pass could not upload
    unseen,       \* history: files the running pass's walk passed over
    changed,      \* history: files changed since the pass began
    edits, faults

vars == <<day, files, bucket, pc, prefix, todo, cur, failed, unseen, changed,
          edits, faults>>
pass == <<prefix, todo, cur, failed, unseen>>

Days == 0 .. LastDay
Present == {f \in Files : files[f] # Absent}

Init ==
    /\ day = 0
    /\ files \in [Files -> Texts \cup {Absent}]
    /\ bucket = [d \in Days |-> [f \in Files |-> Absent]]
    /\ pc = "idle" /\ prefix = 0
    /\ todo = {} /\ cur = Absent /\ failed = {} /\ unseen = {}
    /\ changed = {} /\ edits = 0 /\ faults = 0

-----------------------------------------------------------------------------
(* What goes on around the syncer *)

Midnight ==
    /\ day < LastDay
    /\ day' = day + 1
    /\ UNCHANGED <<files, bucket, pc, pass, changed, edits, faults>>

\* A file is written, created or deleted.
Edit(f) ==
    /\ edits < MaxEdits
    /\ \E x \in (Texts \cup {Absent}) \ {files[f]} :
         files' = [files EXCEPT ![f] = x]
    /\ changed' = changed \cup {f} /\ edits' = edits + 1
    /\ UNCHANGED <<day, bucket, pc, pass, faults>>

\* The process ends; the next one starts with a pass of its own.
RestartSyncer ==
    /\ faults < MaxFaults /\ faults' = faults + 1
    /\ pc' = "idle" /\ cur' = Absent /\ todo' = {} /\ failed' = {} /\ unseen' = {}
    /\ UNCHANGED <<day, files, bucket, prefix, changed, edits>>

-----------------------------------------------------------------------------
(* syncOnce *)

Fault == faults < MaxFaults /\ faults' = faults + 1
NoFault == UNCHANGED faults

\* Variant: the date of a time zone ahead of UTC.
BeginPassAhead ==
    /\ pc = "idle"
    /\ prefix' = day + 1 /\ todo' = Present /\ failed' = {} /\ unseen' = {} /\ changed' = {}
    /\ pc' = "walk"
    /\ UNCHANGED <<day, files, bucket, cur, edits>>
    /\ NoFault

\* The bucket is there, or asking for it failed: the pass goes on either way.
BeginPass ==
    /\ pc = "idle"
    /\ prefix' = day /\ todo' = Present /\ failed' = {} /\ unseen' = {} /\ changed' = {}
    /\ pc' = "walk"
    /\ UNCHANGED <<day, files, bucket, cur, edits>>
    /\ NoFault

\* The bucket does not exist yet: the pass is skipped.
SkipPass ==
    /\ pc = "idle" /\ Fault
    /\ UNCHANGED <<day, files, bucket, pc, pass, changed, edits>>

\* WalkDir comes to a file.
Visit(f) ==
    /\ pc = "walk" /\ f \in todo
    /\ cur' = f /\ todo' = todo \ {f} /\ pc' = "check"
    /\ UNCHANGED <<day, files, bucket, prefix, failed, unseen, changed, edits, faults>>

\* WalkDir cannot read a file's entry or a directory, and what is in it: a line
\* of the log, nothing is counted.  A file that has gone may not be found either.
VisitFails ==
    /\ pc = "walk"
    /\ \E S \in SUBSET todo \ {{}} :
         /\ todo' = todo \ S /\ unseen' = unseen \cup S
         /\ IF S \cap Present = {} THEN NoFault ELSE Fault
    /\ UNCHANGED <<day, files, bucket, pc, prefix, cur, failed, changed, edits>>

\* Variant: an object is taken for whatever the file holds.
SameName(x, y) == x # Absent /\ y # Absent

\* Does the object y hold what the file has?  An ETag that is no hash says no.
SameContent(x, y) == x = y /\ y \notin Multipart \cup {Absent}

\* Variant: only a clear answer starts an upload.
NeedsUploadIfSure(answer) == answer = "different"

\* Any error, of StatObject or of the local hash, starts an upload.
NeedsUpload(answer) == answer # "same"

Check ==
    /\ pc = "check"
    /\ \E answer \in {"same", "different", "error"} :
         /\ CASE answer = "error" -> Fault
              [] answer = "same" ->
                   SameContent(files[cur], bucket[prefix][cur]) /\ NoFault
              [] answer = "different" ->
                   ~SameContent(files[cur], bucket[prefix][cur]) /\ NoFault
         /\ pc' = IF NeedsUpload(answer) THEN "put" ELSE "walk"
    /\ UNCHANGED <<day, files, bucket, pass, changed, edits>>

\* FPutObject reads the file as it is by now.
Put ==
    /\ pc = "put" /\ files[cur] # Absent
    /\ bucket' = [bucket EXCEPT ![prefix][cur] = files[cur]]
    /\ pc' = "walk"
    /\ UNCHANGED <<day, files, pass, changed, edits, faults>>

\* The upload fails, or its answer is lost after the object was stored; a file
\* that has gone cannot be uploaded.
PutFails ==
    /\ pc = "put"
    /\ IF files[cur] = Absent THEN NoFault ELSE Fault
    /\ \/ UNCHANGED bucket
       \/ /\ files[cur] # Absent
          /\ bucket' = [bucket EXCEPT ![prefix][cur] = files[cur]]
    /\ failed' = failed \cup {cur} /\ pc' = "walk"
    /\ UNCHANGED <<day, files, prefix, todo, cur, unseen, changed, edits>>

EndPass ==
    /\ pc = "walk" /\ todo = {}
    /\ pc' = "done"
    /\ UNCHANGED <<day, files, bucket, pass, changed, edits, faults>>

\* The ticker starts the next pass.
Again ==
    /\ pc = "done" /\ pc' = "idle"
    /\ UNCHANGED <<day, files, bucket, pass, changed, edits, faults>>

Run == BeginPass \/ (\E f \in Files : Visit(f)) \/ VisitFails \/ Check \/ Put \/ PutFails
       \/ EndPass \/ Again

Next == Midnight \/ (\E f \in Files : Edit(f)) \/ RestartSyncer \/ SkipPass \/ Run

Spec == Init /\ [][Next]_vars

\* The syncer's goroutine runs on.  Days and edits come as they please.
FairSpec == Spec /\ WF_vars(Run)

-----------------------------------------------------------------------------
(* Properties *)

TypeOK ==
    /\ day \in Days /\ prefix \in Days
    /\ files \in [Files -> Texts \cup {Absent}]
    /\ bucket \in [Days -> [Files -> Texts \cup {Absent}]]
    /\ pc \in {"idle", "walk", "check", "put", "done"}
    /\ todo \in SUBSET Files /\ cur \in Files \cup {Absent}
    /\ failed \in SUBSET Files /\ unseen \in SUBSET Files /\ changed \in SUBSET Files
    /\ edits \in 0 .. MaxEdits /\ faults \in 0 .. MaxFaults

\* A pass that ends has mirrored, under the date it began on, every file that it
\* did not count as failed, that its walk did not pass over with a line in the
\* log, and that was not touched meanwhile: no S3 error, lost answer, earlier
\* pass or restart makes it skip one (syncer.go:20-25, 130-135).
PassMirrors ==
    pc = "done" =>
      \A f \in Present \ (failed \cup unseen \cup changed) : bucket[prefix][f] = files[f]

\* No object ever disappears, whatever files come and go: what was backed up
\* stays backed up (syncer.go:26-30).
NothingIsDeleted ==
    [][\A d \in Days, f \in Files :
         bucket[d][f] # Absent => bucket'[d][f] # Absent]_vars

\* A pass never touches the objects of an earlier day (syncer.go:72-75).  False of
\* a pass that runs over midnight, which goes on under the day before, so no run
\* lists it.
EarlierDaysAreFrozen ==
    [][\A d \in Days : d < day => bucket'[d] = bucket[d]]_vars

Mirrored == \A f \in Present : bucket[day][f] = files[f]

\* Once faults and edits are over, today's objects are what the files are
\* (syncer.go:37-41: a syncer started too early heals by itself).
EventuallyMirrored == <>[]Mirrored
=============================================================================
