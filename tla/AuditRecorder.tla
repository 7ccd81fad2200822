---------------------------- MODULE AuditRecorder ----------------------------
(***************************************************************************)
(* internal/audit/memory.go: MemoryRecorder, the append-only log every     *)
(* storage operation writes to, with its optional JSON-Lines file and the  *)
(* channels of the live audit stream.                                      *)
(*                                                                         *)
(* Recorders are the request goroutines that call Record.  A channel is    *)
(* what one Subscribe call creates; it is used once.  An audit entry is    *)
(* its number in the order in which storage handlers built it.             *)
(***************************************************************************)
EXTENDS Naturals, Sequences, FiniteSets

CONSTANTS
    Recorders,    \* goroutines that call Record
    Channels,     \* channels that Subscribe may create in one process life
    Cap,          \* capacity of a channel (16 in the code)
    MaxEntries,   \* bound on the entries ever built
    Persistent,   \* NewMemoryRecorderWithFile (TRUE) or NewMemoryRecorder
    WriteFaults   \* how an append to the file may go wrong

ASSUME RecorderAssumption ==
    /\ Cap \in Nat \ {0}
    /\ MaxEntries \in Nat
    /\ Persistent \in BOOLEAN
    /\ WriteFaults \subseteq {"missing", "torn", "unterminated"}

VARIABLES
    life,         \* "booting" while loadEntries scans the file, else "up"
    scan,         \* next line loadEntries reads
    built,        \* number of entries built so far
    mu,           \* r.mu is locked
    pc, item,     \* what each recorder does, and the entry it records
    pending,      \* subs: the channels a recorder has still to send to
    entries,      \* r.entries
    subscribers,  \* keys of r.subscribers
    chan,         \* life of each channel
    stream, read, \* entries ever put in a channel, how many were taken out
    since,        \* history: Len(entries) when the channel was subscribed
    dropped,      \* history: entries a full channel did not take
    file, eol,    \* lines of the log file; does it end with a newline
    synced,       \* history: entries whose Write and Sync returned nil
    clean         \* history: those of them that were given a line of their own

memory == <<mu, pc, item, pending, entries>>
streams == <<subscribers, chan, stream, read, since, dropped>>
disk == <<file, eol, synced, clean>>
boot == <<life, scan>>
vars == <<boot, built, memory, streams, disk>>

Entry == 1 .. MaxEntries
Corrupt == 0                      \* a line json.Unmarshal refuses
Recorded == {entries[i] : i \in DOMAIN entries}
Waiting(c) == Len(stream[c]) - read[c]

Init ==
    /\ life = "up" /\ scan = 1 /\ built = 0
    /\ mu = FALSE
    /\ pc = [p \in Recorders |-> "idle"]
    /\ item = [p \in Recorders |-> Corrupt]
    /\ pending = [p \in Recorders |-> {}]
    /\ entries = <<>>
    /\ subscribers = {}
    /\ chan = [c \in Channels |-> "fresh"]
    /\ stream = [c \in Channels |-> <<>>]
    /\ read = [c \in Channels |-> 0]
    /\ since = [c \in Channels |-> 0]
    /\ dropped = [c \in Channels |-> {}]
    /\ file = <<>> /\ eol = TRUE /\ synced = {} /\ clean = {}

-----------------------------------------------------------------------------
(* Record *)

\* A storage operation has succeeded and built the entry that describes it.
Build(p) ==
    /\ life = "up" /\ pc[p] = "idle" /\ built < MaxEntries
    /\ built' = built + 1
    /\ item' = [item EXCEPT ![p] = built + 1]
    /\ pc' = [pc EXCEPT ![p] = "lock"]
    /\ UNCHANGED <<boot, mu, pending, entries, streams, disk>>

\* Variant: the critical section runs without taking r.mu.
LockUnguarded(p) ==
    /\ life = "up" /\ pc[p] = "lock"
    /\ mu' = TRUE
    /\ pc' = [pc EXCEPT ![p] = "append"]
    /\ UNCHANGED <<boot, built, item, pending, entries, streams, disk>>

Lock(p) ==
    /\ life = "up" /\ pc[p] = "lock" /\ ~mu
    /\ mu' = TRUE
    /\ pc' = [pc EXCEPT ![p] = "append"]
    /\ UNCHANGED <<boot, built, item, pending, entries, streams, disk>>

\* The file after a Write of piece (an entry or part of one): a new line, or
\* more text on a last line that has no newline yet, which spoils that line.
Written(piece) ==
    IF eol THEN Append(file, piece)
           ELSE [file EXCEPT ![Len(file)] = Corrupt]

\* appendToFile: Write then Sync, under the lock.  A failed Write is logged
\* and ignored; it may leave nothing, part of the line, or all but its newline.
AppendToFile(p) ==
    /\ life = "up" /\ pc[p] = "append"
    /\ pc' = [pc EXCEPT ![p] = "publish"]
    /\ \/ /\ Persistent
          /\ file' = Written(item[p])
          /\ eol' = TRUE
          /\ synced' = synced \cup {item[p]}
          /\ clean' = IF eol THEN clean \cup {item[p]} ELSE clean
       \/ /\ Persistent
          /\ \/ /\ "torn" \in WriteFaults
                /\ file' = Written(Corrupt)
             \/ /\ "unterminated" \in WriteFaults
                /\ file' = Written(item[p])
          /\ eol' = FALSE
          /\ UNCHANGED <<synced, clean>>
       \/ /\ ~Persistent \/ "missing" \in WriteFaults
          /\ UNCHANGED disk
    /\ UNCHANGED <<boot, built, mu, item, pending, entries, streams>>

\* Append to r.entries, copy the subscriber set, unlock.
Publish(p) ==
    /\ life = "up" /\ pc[p] = "publish"
    /\ entries' = Append(entries, item[p])
    /\ pending' = [pending EXCEPT ![p] = subscribers]
    /\ mu' = FALSE
    /\ pc' = [pc EXCEPT ![p] = "fanout"]
    /\ UNCHANGED <<boot, built, item, streams, disk>>

\* Variant: a full channel loses its newest entry to make room.
OfferReplacing(c, e) ==
    /\ stream' = [stream EXCEPT ![c] = IF Waiting(c) < Cap THEN Append(@, e)
                                       ELSE [@ EXCEPT ![Len(@)] = e]]
    /\ UNCHANGED dropped

Offer(c, e) ==
    IF Waiting(c) < Cap
      THEN /\ stream' = [stream EXCEPT ![c] = Append(@, e)]
           /\ UNCHANGED dropped
      ELSE /\ dropped' = [dropped EXCEPT ![c] = @ \cup {e}]
           /\ UNCHANGED stream

\* Variant: a plain send, which waits for room in the channel.
SendBlocking(p, c) ==
    /\ life = "up" /\ pc[p] = "fanout" /\ c \in pending[p]
    /\ chan[c] # "closed" /\ Waiting(c) < Cap
    /\ Offer(c, item[p])
    /\ pending' = [pending EXCEPT ![p] = @ \ {c}]
    /\ UNCHANGED <<boot, built, mu, pc, item, entries,
                   subscribers, chan, read, since, disk>>

\* Variant: the channel stays in the list of channels to send to.
SendAgain(p, c) ==
    /\ life = "up" /\ pc[p] = "fanout" /\ c \in pending[p]
    /\ chan[c] # "closed"
    /\ Offer(c, item[p])
    /\ UNCHANGED <<boot, built, mu, pc, item, pending, entries,
                   subscribers, chan, read, since, disk>>

\* One non-blocking send, outside the lock.
Send(p, c) ==
    /\ life = "up" /\ pc[p] = "fanout" /\ c \in pending[p]
    /\ chan[c] # "closed"
    /\ Offer(c, item[p])
    /\ pending' = [pending EXCEPT ![p] = @ \ {c}]
    /\ UNCHANGED <<boot, built, mu, pc, item, entries,
                   subscribers, chan, read, since, disk>>

\* A send on a closed channel panics; net/http recovers and drops the request.
SendOnClosed(p, c) ==
    /\ life = "up" /\ pc[p] = "fanout" /\ c \in pending[p]
    /\ chan[c] = "closed"
    /\ pc' = [pc EXCEPT ![p] = "panicked"]
    /\ UNCHANGED <<boot, built, mu, item, pending, entries, streams, disk>>

Return(p) ==
    /\ life = "up" /\ pc[p] = "fanout" /\ pending[p] = {}
    /\ pc' = [pc EXCEPT ![p] = "idle"]
    /\ item' = [item EXCEPT ![p] = Corrupt]
    /\ UNCHANGED <<boot, built, mu, pending, entries, streams, disk>>

-----------------------------------------------------------------------------
(* Subscribe, the reader of a channel, and the two halves of unsubscribe *)

Subscribe(c) ==
    /\ life = "up" /\ chan[c] = "fresh" /\ ~mu
    /\ subscribers' = subscribers \cup {c}
    /\ chan' = [chan EXCEPT ![c] = "open"]
    /\ since' = [since EXCEPT ![c] = Len(entries)]
    /\ UNCHANGED <<boot, built, memory, stream, read, dropped, disk>>

Receive(c) ==
    /\ life = "up" /\ chan[c] = "open" /\ Waiting(c) > 0
    /\ read' = [read EXCEPT ![c] = @ + 1]
    /\ UNCHANGED <<boot, built, memory, subscribers, chan, stream, since,
                   dropped, disk>>

Unregister(c) ==
    /\ life = "up" /\ chan[c] = "open" /\ ~mu
    /\ subscribers' = subscribers \ {c}
    /\ chan' = [chan EXCEPT ![c] = "unregistered"]
    /\ UNCHANGED <<boot, built, memory, stream, read, since, dropped, disk>>

Close(c) ==
    /\ life = "up" /\ chan[c] = "unregistered"
    /\ chan' = [chan EXCEPT ![c] = "closed"]
    /\ UNCHANGED <<boot, built, memory, subscribers, stream, read, since,
                   dropped, disk>>

-----------------------------------------------------------------------------
(* The process ends at any point; the next one loads the file *)

Crash ==
    /\ life' = "booting" /\ scan' = 1
    /\ mu' = FALSE
    /\ pc' = [p \in Recorders |-> "idle"]
    /\ item' = [p \in Recorders |-> Corrupt]
    /\ pending' = [p \in Recorders |-> {}]
    /\ entries' = <<>>
    /\ subscribers' = {}
    /\ chan' = [c \in Channels |-> "fresh"]
    /\ stream' = [c \in Channels |-> <<>>]
    /\ read' = [c \in Channels |-> 0]
    /\ since' = [c \in Channels |-> 0]
    /\ dropped' = [c \in Channels |-> {}]
    /\ UNCHANGED <<built, disk>>

\* Variant: the error of json.Unmarshal is not looked at.
LoadAnyLine ==
    /\ life = "booting" /\ Persistent /\ scan <= Len(file)
    /\ entries' = Append(entries, file[scan])
    /\ scan' = scan + 1
    /\ UNCHANGED <<life, built, mu, pc, item, pending, streams, disk>>

\* One turn of loadEntries' loop: a line that does not parse is skipped.
LoadLine ==
    /\ life = "booting" /\ Persistent /\ scan <= Len(file)
    /\ entries' = IF file[scan] = Corrupt THEN entries
                                          ELSE Append(entries, file[scan])
    /\ scan' = scan + 1
    /\ UNCHANGED <<life, built, mu, pc, item, pending, streams, disk>>

\* Variant: the loop ends one line early.
LoadedEarly ==
    /\ life = "booting" /\ (Persistent => scan >= Len(file))
    /\ life' = "up"
    /\ UNCHANGED <<scan, built, memory, streams, disk>>

Loaded ==
    /\ life = "booting" /\ (Persistent => scan > Len(file))
    /\ life' = "up"
    /\ UNCHANGED <<scan, built, memory, streams, disk>>

Record(p) ==
    \/ Lock(p) \/ AppendToFile(p) \/ Publish(p) \/ Return(p)
    \/ \E c \in Channels : Send(p, c) \/ SendOnClosed(p, c)

Next ==
    \/ \E p \in Recorders : Build(p) \/ Record(p)
    \/ \E c \in Channels :
          Subscribe(c) \/ Receive(c) \/ Unregister(c) \/ Close(c)
    \/ Crash \/ LoadLine \/ Loaded

Spec == Init /\ [][Next]_vars

\* A goroutine in Record runs on.  Nothing is assumed of the readers of the
\* channels: a browser may stop reading for ever.
FairSpec == Spec /\ \A p \in Recorders : WF_vars(Record(p))

-----------------------------------------------------------------------------
(* Properties *)

TypeOK ==
    /\ life \in {"booting", "up"} /\ scan \in Nat \ {0}
    /\ built \in 0 .. MaxEntries
    /\ mu \in BOOLEAN
    /\ pc \in [Recorders ->
                {"idle", "lock", "append", "publish", "fanout", "panicked"}]
    /\ item \in [Recorders -> {Corrupt} \cup Entry]
    /\ pending \in [Recorders -> SUBSET Channels]
    /\ entries \in Seq(Entry)
    /\ subscribers \in SUBSET Channels
    /\ chan \in [Channels -> {"fresh", "open", "unregistered", "closed"}]
    /\ stream \in [Channels -> Seq(Entry)]
    /\ read \in [Channels -> Nat]
    /\ since \in [Channels -> Nat]
    /\ dropped \in [Channels -> SUBSET Entry]
    /\ file \in Seq({Corrupt} \cup Entry) /\ eol \in BOOLEAN
    /\ synced \in SUBSET Entry /\ clean \in SUBSET synced

Critical(p) == pc[p] \in {"append", "publish"}

\* The file tells the story memory tells: whole lines appear in the order of
\* r.entries, and only the last one may still be on its way into r.entries
\* (Record writes the file and the slice under one lock, memory.go:96-112).
FileOrderIsMemoryOrder ==
    life = "up" =>
      \A i, j \in DOMAIN file :
        i < j /\ file[i] # Corrupt /\ file[j] # Corrupt =>
          /\ file[i] \in Recorded
          /\ file[j] \in Recorded =>
               \E a, b \in DOMAIN entries :
                 a < b /\ entries[a] = file[i] /\ entries[b] = file[j]

\* A channel carries entries that All already returns, recorded after its
\* Subscribe, each at most once (memory.go:143-145: "every future Record").
DeliveredOnceAfterSubscribe ==
    \A c \in Channels :
      /\ \A i \in DOMAIN stream[c] :
           \E a \in DOMAIN entries : a > since[c] /\ entries[a] = stream[c][i]
      /\ \A i, j \in DOMAIN stream[c] :
           stream[c][i] = stream[c][j] => i = j

\* Entry e was sent to c, dropped because c was full, or is still to be sent.
Accounted(c, e) ==
    \/ e \in dropped[c]
    \/ \E i \in DOMAIN stream[c] : stream[c][i] = e
    \/ \E p \in Recorders : item[p] = e /\ c \in pending[p]

\* An open channel misses an entry recorded after its Subscribe only because
\* the channel was full (memory.go:114-117) or a Record has yet to send it.
OnlyFullChannelsMiss ==
    \A c \in subscribers : \A a \in since[c] + 1 .. Len(entries) :
      Accounted(c, entries[a])

\* What a process that has finished loading serves, or is about to.
Served == Recorded \cup {item[p] : p \in {q \in Recorders : pc[q] = "publish"}}

\* A line that a failed write cut short does not take the rest of the history
\* down (memory.go:82-83): every entry whose write was synced is served again
\* after any restart, unless it was written on the end of such a line.
SyncedEntriesSurvive == life = "up" => clean \subseteq Served

\* History survives a restart (memory.go:21-23): so is every synced entry.
HistorySurvives == life = "up" => synced \subseteq Served

\* Record never fails the operation it describes (memory.go:99-103).
RecordNeverFails == \A p \in Recorders : pc[p] # "panicked"

\* Record always ends, however slow the readers of the channels are
\* (memory.go:114-117, "never block Record").
RecordEnds ==
    \A p \in Recorders : pc[p] = "lock" ~> pc[p] \in {"idle", "panicked"}
=============================================================================
