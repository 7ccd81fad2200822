------------------------ MODULE AuditRecorder_proofs ------------------------
(***************************************************************************)
(* Proofs about AuditRecorder, for every number of recorders, channels and *)
(* entries and every kind of failed append.                                *)
(***************************************************************************)
EXTENDS AuditRecorder, SequenceTheorems, TLAPS

\* The type of the state, one group of variables per line of defence: an
\* entry in flight is a real entry, and a file without a final newline has a
\* line to spoil.
Types ==
    /\ TypeOK
    /\ \A p \in Recorders : pc[p] # "idle" => item[p] \in Entry
    /\ ~eol => file # <<>>
    /\ scan <= Len(file) + 1

\* What a write leaves in the file: a file of lines, as many or one more.
LEMMA WrittenType ==
    ASSUME Types, NEW e \in {Corrupt} \cup Entry
    PROVE  /\ Written(e) \in Seq({Corrupt} \cup Entry)
           /\ Written(e) # <<>>
           /\ Len(Written(e)) >= Len(file)
<1> DEFINE L == {Corrupt} \cup Entry
<1>0. file \in Seq(L) /\ eol \in BOOLEAN
  BY DEF Types, TypeOK
<1>1. CASE eol
  BY <1>0, <1>1, AppendProperties DEF Written
<1>2. CASE ~eol
  <2>1. Len(file) \in 1 .. Len(file)
    BY <1>0, <1>2, EmptySeq DEF Types
  <2>2. Corrupt \in L
    OBVIOUS
  <2>3. Written(e) = [file EXCEPT ![Len(file)] = Corrupt]
    BY <1>2 DEF Written
  <2>4. /\ Written(e) \in Seq(L)
        /\ Len(Written(e)) = Len(file)
    BY <1>0, <2>1, <2>2, <2>3, ExceptSeq
  <2>. QED
    BY <2>1, <2>4, EmptySeq
<1>. QED
  BY <1>0, <1>1, <1>2

LEMMA TypesInit == Init => Types
<1> SUFFICES ASSUME Init PROVE Types
  OBVIOUS
<1>1. <<>> \in Seq(Entry) /\ <<>> \in Seq({Corrupt} \cup Entry)
  OBVIOUS
<1>2. Len(file) + 1 = 1 /\ 0 \in 0 .. MaxEntries
  BY RecorderAssumption DEF Init
<1>3. /\ stream \in [Channels -> Seq(Entry)]
      /\ read \in [Channels -> Nat] /\ since \in [Channels -> Nat]
      /\ dropped \in [Channels -> SUBSET Entry]
  BY <1>1 DEF Init
<1>4. /\ pc \in [Recorders -> {"idle"}]
      /\ item \in [Recorders -> {Corrupt}]
      /\ pending \in [Recorders -> SUBSET Channels]
      /\ chan \in [Channels -> {"fresh"}]
  BY DEF Init
<1>5. /\ pc \in [Recorders ->
                {"idle", "lock", "append", "publish", "fanout", "panicked"}]
      /\ item \in [Recorders -> {Corrupt} \cup Entry]
      /\ chan \in [Channels -> {"fresh", "open", "unregistered", "closed"}]
  BY <1>4
<1>6. /\ life = "up" /\ scan = 1 /\ built = 0
      /\ entries = <<>> /\ subscribers = {}
      /\ file = <<>> /\ synced = {} /\ clean = {}
  BY DEF Init
<1>7. mu \in BOOLEAN /\ eol \in BOOLEAN
  BY DEF Init
<1>8. TypeOK
  BY <1>1, <1>2, <1>3, <1>4, <1>5, <1>6, <1>7 DEF TypeOK
<1>9. eol
  BY DEF Init
<1>. QED
  BY <1>2, <1>4, <1>6, <1>8, <1>9 DEF Types

LEMMA TypesNext == Types /\ [Next]_vars => Types'
<1> SUFFICES ASSUME Types, [Next]_vars PROVE Types'
  OBVIOUS
<1> USE RecorderAssumption DEF Types, TypeOK
<1>1. ASSUME NEW p \in Recorders, Build(p) PROVE Types'
  <2>1. built + 1 \in Entry /\ built + 1 \in 0 .. MaxEntries
    BY <1>1 DEF Build, Entry
  <2>. QED
    BY <1>1, <2>1 DEF Build, boot, streams, disk
<1>2. ASSUME NEW p \in Recorders, Lock(p) PROVE Types'
  BY <1>2 DEF Lock, boot, streams, disk
<1>3. ASSUME NEW p \in Recorders, AppendToFile(p) PROVE Types'
  <2>1. item[p] \in Entry /\ item[p] \in {Corrupt} \cup Entry
    BY <1>3 DEF AppendToFile
  <2>2. Types
    OBVIOUS
  <2>3. \/ UNCHANGED <<file, eol>>
        \/ \E e \in {Corrupt} \cup Entry : file' = Written(e)
    BY <1>3, <2>1 DEF AppendToFile, disk
  <2>4. /\ file' \in Seq({Corrupt} \cup Entry)
        /\ ~eol' => file' # <<>>
        /\ Len(file') >= Len(file)
    BY <2>2, <2>3, WrittenType, LenProperties
  <2>5. /\ eol' \in BOOLEAN
        /\ synced' \in SUBSET Entry /\ clean' \in SUBSET synced'
    BY <1>3, <2>1 DEF AppendToFile, disk
  <2>6. /\ UNCHANGED <<life, scan, built, mu, item, pending, entries,
                       subscribers, chan, stream, read, since, dropped>>
        /\ pc' = [pc EXCEPT ![p] = "publish"]
        /\ pc[p] = "append"
    BY <1>3 DEF AppendToFile, boot, streams
  <2>7. scan' <= Len(file') + 1
    BY <2>4, <2>6, LenProperties
  <2>. QED
    BY <2>4, <2>5, <2>6, <2>7
<1>4. ASSUME NEW p \in Recorders, Publish(p) PROVE Types'
  <2>1. Append(entries, item[p]) \in Seq(Entry)
    BY <1>4, AppendProperties DEF Publish
  <2>. QED
    BY <1>4, <2>1 DEF Publish, boot, streams, disk
<1>5. ASSUME NEW p \in Recorders, NEW c \in Channels, Send(p, c) PROVE Types'
  <2>1. /\ item[p] \in Entry
        /\ Append(stream[c], item[p]) \in Seq(Entry)
    BY <1>5, AppendProperties DEF Send
  <2>2. /\ stream' \in [Channels -> Seq(Entry)]
        /\ dropped' \in [Channels -> SUBSET Entry]
    <3>1. CASE Waiting(c) < Cap
      BY <1>5, <2>1, <3>1, ZenonT(60) DEF Send, Offer
    <3>2. CASE ~(Waiting(c) < Cap)
      <4>1. dropped[c] \cup {item[p]} \in SUBSET Entry
        BY <2>1
      <4>. QED
        BY <1>5, <4>1, <3>2, ZenonT(60) DEF Send, Offer
    <3>. QED
      BY <3>1, <3>2
  <2>3. /\ pending' \in [Recorders -> SUBSET Channels]
        /\ UNCHANGED <<life, scan, built, mu, pc, item, entries,
                       subscribers, chan, read, since, file, eol, synced,
                       clean>>
    BY <1>5 DEF Send, boot, disk
  <2>. QED
    BY <2>2, <2>3
<1>6. ASSUME NEW p \in Recorders, NEW c \in Channels, SendOnClosed(p, c)
      PROVE  Types'
  BY <1>6 DEF SendOnClosed, boot, streams, disk
<1>7. ASSUME NEW p \in Recorders, Return(p) PROVE Types'
  BY <1>7 DEF Return, boot, streams, disk
<1>8. ASSUME NEW c \in Channels, Subscribe(c) PROVE Types'
  <2>1. Len(entries) \in Nat
    BY LenProperties
  <2>. QED
    BY <1>8, <2>1 DEF Subscribe, boot, memory, disk
<1>9. ASSUME NEW c \in Channels, Receive(c) PROVE Types'
  BY <1>9 DEF Receive, boot, memory, disk
<1>10. ASSUME NEW c \in Channels, Unregister(c) PROVE Types'
  BY <1>10 DEF Unregister, boot, memory, disk
<1>11. ASSUME NEW c \in Channels, Close(c) PROVE Types'
  BY <1>11 DEF Close, boot, memory, disk
<1>12. CASE Crash
  <2>1. /\ <<>> \in Seq(Entry)
        /\ 1 <= Len(file) + 1
    BY LenProperties
  <2>2. /\ stream' \in [Channels -> Seq(Entry)]
        /\ read' \in [Channels -> Nat] /\ since' \in [Channels -> Nat]
        /\ dropped' \in [Channels -> SUBSET Entry]
        /\ chan' \in [Channels ->
                       {"fresh", "open", "unregistered", "closed"}]
    BY <1>12, <2>1 DEF Crash
  <2>3. /\ pc' \in [Recorders -> {"idle"}]
        /\ item' \in [Recorders -> {Corrupt} \cup Entry]
        /\ pending' \in [Recorders -> SUBSET Channels]
    BY <1>12 DEF Crash
  <2>4. /\ entries' = <<>> /\ life' = "booting" /\ scan' = 1
        /\ subscribers' = {}
        /\ UNCHANGED <<built, file, eol, synced, clean>>
    BY <1>12 DEF Crash, disk
  <2>5. TypeOK'
    <3>1. pc' \in [Recorders ->
                 {"idle", "lock", "append", "publish", "fanout", "panicked"}]
      BY <2>3
    <3>2. mu' \in BOOLEAN
      BY <1>12 DEF Crash
    <3>. QED
      BY <2>1, <2>2, <2>3, <2>4, <3>1, <3>2
  <2>6. \A p \in Recorders : pc'[p] = "idle"
    BY <2>3
  <2>. QED
    BY <2>1, <2>4, <2>5, <2>6
<1>13. CASE LoadLine
  <2>1. file[scan] \in {Corrupt} \cup Entry
    BY <1>13, ElementOfSeq DEF LoadLine
  <2>2. entries' \in Seq(Entry)
    BY <1>13, <2>1, AppendProperties DEF LoadLine
  <2>3. scan' \in Nat \ {0} /\ scan' <= Len(file) + 1
    BY <1>13, LenProperties DEF LoadLine
  <2>. QED
    BY <1>13, <2>2, <2>3 DEF LoadLine, streams, disk
<1>14. CASE Loaded
  BY <1>14 DEF Loaded, memory, streams, disk
<1>15. CASE UNCHANGED vars
  BY <1>15 DEF vars, boot, memory, streams, disk
<1>. QED
  BY <1>1, <1>2, <1>3, <1>4, <1>5, <1>6, <1>7, <1>8, <1>9, <1>10, <1>11,
     <1>12, <1>13, <1>14, <1>15 DEF Next, Record

\* Every variable of the recorder keeps its type; in particular a reloaded
\* history holds whole entries only (memory.go:80-86).
THEOREM TypeCorrect == Spec => []TypeOK
<1>1. Types => TypeOK
  BY DEF Types
<1>. QED
  BY <1>1, TypesInit, TypesNext, PTL DEF Spec

-----------------------------------------------------------------------------
(* The inductive invariant *)

\* While loadEntries runs, the process serves nobody.
QuietBoot ==
    life = "booting" =>
      /\ \A p \in Recorders : pc[p] = "idle"
      /\ subscribers = {}

\* r.mu admits one recorder to the critical section at a time.
OneInside ==
    \A p \in Recorders :
      Critical(p) => /\ mu
                     /\ \A q \in Recorders : Critical(q) => q = p

\* Entries are numbered as they are built: two recorders never hold the same
\* one, and an entry reaches the file and memory only when its turn comes.
Numbering ==
    /\ \A i \in DOMAIN entries : entries[i] <= built
    /\ \A i \in DOMAIN file : file[i] <= built
    /\ \A p \in Recorders :
         /\ item[p] <= built
         /\ \A q \in Recorders :
              item[p] = item[q] /\ item[p] \in Entry => p = q
         /\ pc[p] \in {"lock", "append", "publish"} => item[p] \notin Recorded
         /\ pc[p] \in {"lock", "append"} =>
              \A i \in DOMAIN file : file[i] # item[p]

\* The lines whose entries memory should hold by now.
Seen(i) == i \in DOMAIN file /\ file[i] # Corrupt /\ (life = "up" \/ i < scan)

Ordered(x, y) ==
    \E a, b \in DOMAIN entries : a < b /\ entries[a] = x /\ entries[b] = y

FileInv ==
    /\ ~Persistent => file = <<>>
    /\ \A i \in DOMAIN file : Seen(i) =>
         \/ file[i] \in Recorded
         \/ /\ i = Len(file)
            /\ \E p \in Recorders : pc[p] = "publish" /\ item[p] = file[i]
    /\ \A i, j \in DOMAIN file :
         i < j /\ Seen(i) /\ Seen(j) /\ file[j] \in Recorded =>
           Ordered(file[i], file[j])

\* An entry a recorder has still to send to c is in memory, younger than the
\* subscription, and not in the channel yet.
PendingInv ==
    \A p \in Recorders : \A c \in pending[p] :
      /\ pc[p] \in {"fanout", "panicked"}
      /\ \E a \in DOMAIN entries : a > since[c] /\ entries[a] = item[p]
      /\ \A i \in DOMAIN stream[c] : stream[c][i] # item[p]

FreshInv ==
    \A c \in Channels :
      /\ since[c] <= Len(entries)
      /\ chan[c] = "fresh" =>
           /\ stream[c] = <<>> /\ c \notin subscribers
           /\ \A p \in Recorders : c \notin pending[p]

IInv ==
    /\ Types /\ QuietBoot /\ OneInside /\ Numbering /\ FileInv
    /\ PendingInv /\ FreshInv
    /\ DeliveredOnceAfterSubscribe /\ OnlyFullChannelsMiss

-----------------------------------------------------------------------------
(* What the two writing helpers do *)

\* A write keeps or spoils the lines there are, and adds at most one.
LEMMA WrittenLines ==
    ASSUME Types, NEW e \in {Corrupt} \cup Entry, NEW i \in DOMAIN Written(e)
    PROVE  \/ i \in DOMAIN file /\ Written(e)[i] = file[i]
           \/ Written(e)[i] = Corrupt
           \/ i = Len(Written(e)) /\ Written(e)[i] = e
<1> DEFINE L == {Corrupt} \cup Entry
<1>0. file \in Seq(L) /\ eol \in BOOLEAN /\ DOMAIN file = 1 .. Len(file)
  BY LenProperties DEF Types, TypeOK
<1>1. CASE eol
  <2>1. Written(e) = Append(file, e)
    BY <1>1 DEF Written
  <2>2. /\ DOMAIN Append(file, e) = 1 .. Len(file) + 1
        /\ Len(Append(file, e)) = Len(file) + 1
        /\ \A k \in 1 .. Len(file) : Append(file, e)[k] = file[k]
        /\ Append(file, e)[Len(file) + 1] = e
    BY <1>0, AppendProperties, LenProperties
  <2>. QED
    BY <1>0, <2>1, <2>2, LenProperties
<1>2. CASE ~eol
  BY <1>0, <1>2 DEF Written
<1>. QED
  BY <1>0, <1>1, <1>2

\* A send adds the entry at the end of one stream, or drops it.
LEMMA OfferAddsOne ==
    ASSUME Types, NEW c \in Channels, NEW e \in Entry, Offer(c, e),
           NEW d \in Channels
    PROVE  /\ \A i \in DOMAIN stream'[d] :
                \/ i \in DOMAIN stream[d] /\ stream'[d][i] = stream[d][i]
                \/ d = c /\ stream'[d][i] = e /\ i = Len(stream[c]) + 1
           /\ dropped[d] \subseteq dropped'[d]
<1>1. stream \in [Channels -> Seq(Entry)] /\ dropped \in [Channels -> SUBSET Entry]
  BY DEF Types, TypeOK
<1>2. CASE stream' = [stream EXCEPT ![c] = Append(@, e)] /\ UNCHANGED dropped
  <2>1. /\ DOMAIN Append(stream[c], e) = 1 .. Len(stream[c]) + 1
        /\ DOMAIN stream[c] = 1 .. Len(stream[c])
        /\ \A k \in 1 .. Len(stream[c]) : Append(stream[c], e)[k] = stream[c][k]
        /\ Append(stream[c], e)[Len(stream[c]) + 1] = e
        /\ Len(stream[c]) \in Nat
    BY <1>1, AppendProperties, LenProperties
  <2>. QED
    BY <1>1, <1>2, <2>1
<1>3. CASE UNCHANGED stream /\ dropped' = [dropped EXCEPT ![c] = @ \cup {e}]
  BY <1>1, <1>3
<1>. QED
  BY <1>2, <1>3 DEF Offer

LEMMA OfferKeeps ==
    ASSUME Types, NEW c \in Channels, NEW e \in Entry, Offer(c, e)
    PROVE  /\ \A d \in Channels : \A i \in DOMAIN stream[d] :
                i \in DOMAIN stream'[d] /\ stream'[d][i] = stream[d][i]
           /\ \/ e \in dropped'[c]
              \/ \E i \in DOMAIN stream'[c] : stream'[c][i] = e
<1>1. stream \in [Channels -> Seq(Entry)] /\ dropped \in [Channels -> SUBSET Entry]
  BY DEF Types, TypeOK
<1>2. CASE stream' = [stream EXCEPT ![c] = Append(@, e)]
  <2>1. /\ DOMAIN Append(stream[c], e) = 1 .. Len(stream[c]) + 1
        /\ DOMAIN stream[c] = 1 .. Len(stream[c])
        /\ \A k \in 1 .. Len(stream[c]) : Append(stream[c], e)[k] = stream[c][k]
        /\ Append(stream[c], e)[Len(stream[c]) + 1] = e
        /\ Len(stream[c]) \in Nat
    BY <1>1, AppendProperties, LenProperties
  <2>2. Len(stream[c]) + 1 \in DOMAIN stream'[c] /\ stream'[c][Len(stream[c]) + 1] = e
    BY <1>1, <1>2, <2>1
  <2>. QED
    BY <1>1, <1>2, <2>1, <2>2
<1>3. CASE UNCHANGED stream /\ dropped' = [dropped EXCEPT ![c] = @ \cup {e}]
  BY <1>1, <1>3
<1>. QED
  BY <1>2, <1>3 DEF Offer

LEMMA AppendLines ==
    ASSUME Types, NEW p \in Recorders, AppendToFile(p)
    PROVE  \A i \in DOMAIN file' :
             \/ i \in DOMAIN file /\ file'[i] = file[i]
             \/ file'[i] = Corrupt
             \/ i = Len(file') /\ file'[i] = item[p]
<1>1. Corrupt \in {Corrupt} \cup Entry /\ item[p] \in {Corrupt} \cup Entry
  BY DEF Types, TypeOK
<1>2. CASE UNCHANGED file
  BY <1>2
<1>3. CASE file' = Written(item[p])
  BY <1>1, <1>3, WrittenLines
<1>4. CASE file' = Written(Corrupt)
  BY <1>1, <1>4, WrittenLines
<1>. QED
  BY <1>2, <1>3, <1>4 DEF AppendToFile, disk

LEMMA SendAddsOne ==
    ASSUME Types, NEW p \in Recorders, NEW c \in Channels, Send(p, c),
           NEW d \in Channels
    PROVE  /\ \A i \in DOMAIN stream'[d] :
                \/ i \in DOMAIN stream[d] /\ stream'[d][i] = stream[d][i]
                \/ d = c /\ stream'[d][i] = item[p] /\ i = Len(stream[c]) + 1
           /\ dropped[d] \subseteq dropped'[d]
<1>1. item[p] \in Entry /\ Offer(c, item[p])
  BY DEF Types, Send
<1>. QED
  BY <1>1, OfferAddsOne

LEMMA SendKeeps ==
    ASSUME Types, NEW p \in Recorders, NEW c \in Channels, Send(p, c)
    PROVE  /\ \A d \in Channels : \A i \in DOMAIN stream[d] :
                i \in DOMAIN stream'[d] /\ stream'[d][i] = stream[d][i]
           /\ \/ item[p] \in dropped'[c]
              \/ \E i \in DOMAIN stream'[c] : stream'[c][i] = item[p]
<1>1. item[p] \in Entry /\ Offer(c, item[p])
  BY DEF Types, Send
<1>. QED
  BY <1>1, OfferKeeps

\* An entry stays accounted for while nobody's list of channels shrinks.
LEMMA AccountedStays ==
    ASSUME UNCHANGED <<stream, dropped>>,
           \A q \in Recorders : pending[q] # {} =>
             item'[q] = item[q] /\ pending'[q] = pending[q],
           NEW c, NEW e, Accounted(c, e)
    PROVE  Accounted(c, e)'
BY DEF Accounted

-----------------------------------------------------------------------------
(* Every step keeps every part of the invariant *)

LEMMA QuietBootNext ==
    ASSUME IInv, [Next]_vars PROVE QuietBoot'
<1> Types /\ QuietBoot /\ OneInside /\ Numbering /\ FileInv /\ PendingInv
    /\ FreshInv /\ DeliveredOnceAfterSubscribe /\ OnlyFullChannelsMiss
  BY DEF IInv
<1> USE RecorderAssumption
<1>1. ASSUME NEW p \in Recorders, Build(p)
      PROVE  QuietBoot'
  BY <1>1 DEF QuietBoot, Build, boot, streams, disk
<1>2. ASSUME NEW p \in Recorders, Lock(p)
      PROVE  QuietBoot'
  BY <1>2 DEF QuietBoot, Lock, boot, streams, disk
<1>3. ASSUME NEW p \in Recorders, AppendToFile(p)
      PROVE  QuietBoot'
  BY <1>3 DEF QuietBoot, AppendToFile, boot, streams, disk
<1>4. ASSUME NEW p \in Recorders, Publish(p)
      PROVE  QuietBoot'
  BY <1>4 DEF QuietBoot, Publish, boot, streams, disk
<1>5. ASSUME NEW p \in Recorders, NEW c \in Channels, Send(p, c)
      PROVE  QuietBoot'
  BY <1>5 DEF QuietBoot, Send, Offer, boot, disk
<1>6. ASSUME NEW p \in Recorders, NEW c \in Channels, SendOnClosed(p, c)
      PROVE  QuietBoot'
  BY <1>6 DEF QuietBoot, SendOnClosed, boot, streams, disk
<1>7. ASSUME NEW p \in Recorders, Return(p)
      PROVE  QuietBoot'
  BY <1>7 DEF QuietBoot, Return, boot, streams, disk
<1>8. ASSUME NEW c \in Channels, Subscribe(c)
      PROVE  QuietBoot'
  BY <1>8 DEF QuietBoot, Subscribe, boot, memory, disk
<1>9. ASSUME NEW c \in Channels, Receive(c)
      PROVE  QuietBoot'
  BY <1>9 DEF QuietBoot, Receive, boot, memory, disk
<1>10. ASSUME NEW c \in Channels, Unregister(c)
       PROVE  QuietBoot'
  BY <1>10 DEF QuietBoot, Unregister, boot, memory, disk
<1>11. ASSUME NEW c \in Channels, Close(c)
       PROVE  QuietBoot'
  BY <1>11 DEF QuietBoot, Close, boot, memory, disk
<1>12. CASE Crash
  BY <1>12 DEF QuietBoot, Crash, disk
<1>13. CASE LoadLine
  BY <1>13 DEF QuietBoot, LoadLine, streams, disk
<1>14. CASE Loaded
  BY <1>14 DEF QuietBoot, Loaded, memory, streams, disk
<1>15. CASE UNCHANGED vars
  BY <1>15 DEF QuietBoot, vars, boot, memory, streams, disk
<1>. QED
  BY <1>1, <1>2, <1>3, <1>4, <1>5, <1>6, <1>7, <1>8, <1>9, <1>10, <1>11,
     <1>12, <1>13, <1>14, <1>15 DEF Next, Record

LEMMA OneInsideNext ==
    ASSUME IInv, [Next]_vars PROVE OneInside'
<1> Types /\ QuietBoot /\ OneInside /\ Numbering /\ FileInv /\ PendingInv
    /\ FreshInv /\ DeliveredOnceAfterSubscribe /\ OnlyFullChannelsMiss
  BY DEF IInv
<1> USE RecorderAssumption
<1>1. ASSUME NEW p \in Recorders, Build(p)
      PROVE  OneInside'
  BY <1>1 DEF OneInside, Critical, Build, boot, streams, disk
<1>2. ASSUME NEW p \in Recorders, Lock(p)
      PROVE  OneInside'
  BY <1>2 DEF OneInside, Critical, Lock, boot, streams, disk
<1>3. ASSUME NEW p \in Recorders, AppendToFile(p)
      PROVE  OneInside'
  BY <1>3 DEF OneInside, Critical, AppendToFile, boot, streams, disk
<1>4. ASSUME NEW p \in Recorders, Publish(p)
      PROVE  OneInside'
  BY <1>4 DEF Types, TypeOK, OneInside, Critical, Publish, boot, streams, disk
<1>5. ASSUME NEW p \in Recorders, NEW c \in Channels, Send(p, c)
      PROVE  OneInside'
  BY <1>5 DEF OneInside, Critical, Send, Offer, boot, disk
<1>6. ASSUME NEW p \in Recorders, NEW c \in Channels, SendOnClosed(p, c)
      PROVE  OneInside'
  BY <1>6 DEF OneInside, Critical, SendOnClosed, boot, streams, disk
<1>7. ASSUME NEW p \in Recorders, Return(p)
      PROVE  OneInside'
  BY <1>7 DEF OneInside, Critical, Return, boot, streams, disk
<1>8. ASSUME NEW c \in Channels, Subscribe(c)
      PROVE  OneInside'
  BY <1>8 DEF OneInside, Critical, Subscribe, boot, memory, disk
<1>9. ASSUME NEW c \in Channels, Receive(c)
      PROVE  OneInside'
  BY <1>9 DEF OneInside, Critical, Receive, boot, memory, disk
<1>10. ASSUME NEW c \in Channels, Unregister(c)
       PROVE  OneInside'
  BY <1>10 DEF OneInside, Critical, Unregister, boot, memory, disk
<1>11. ASSUME NEW c \in Channels, Close(c)
       PROVE  OneInside'
  BY <1>11 DEF OneInside, Critical, Close, boot, memory, disk
<1>12. CASE Crash
  BY <1>12 DEF OneInside, Critical, Crash, disk
<1>13. CASE LoadLine
  BY <1>13 DEF OneInside, Critical, LoadLine, streams, disk
<1>14. CASE Loaded
  BY <1>14 DEF OneInside, Critical, Loaded, memory, streams, disk
<1>15. CASE UNCHANGED vars
  BY <1>15 DEF OneInside, Critical, vars, boot, memory, streams, disk
<1>. QED
  BY <1>1, <1>2, <1>3, <1>4, <1>5, <1>6, <1>7, <1>8, <1>9, <1>10, <1>11,
     <1>12, <1>13, <1>14, <1>15 DEF Next, Record

LEMMA NumberingNext ==
    ASSUME IInv, [Next]_vars PROVE Numbering'
<1> Types /\ QuietBoot /\ OneInside /\ Numbering /\ FileInv /\ PendingInv
    /\ FreshInv /\ DeliveredOnceAfterSubscribe /\ OnlyFullChannelsMiss
  BY DEF IInv
<1> USE RecorderAssumption
<1>1. ASSUME NEW p \in Recorders, Build(p)
      PROVE  Numbering'
  <2>1. /\ built' = built + 1
        /\ item' = [item EXCEPT ![p] = built + 1]
        /\ pc' = [pc EXCEPT ![p] = "lock"]
        /\ UNCHANGED <<entries, file>>
    BY <1>1 DEF Build, disk
  <2>2. /\ \A i \in DOMAIN entries : entries[i] <= built /\ entries[i] \in Nat
        /\ \A i \in DOMAIN file : file[i] <= built /\ file[i] \in Nat
    BY DEF Numbering, Entry, Corrupt, Types, TypeOK
  <2>3. /\ \A i \in DOMAIN entries : entries[i] # built + 1
        /\ \A i \in DOMAIN file : file[i] # built + 1
        /\ \A q \in Recorders : item[q] # built + 1
    BY <2>2 DEF Numbering, Entry, Corrupt, Types, TypeOK
  <2>4. Recorded' = Recorded /\ built + 1 \notin Recorded
    BY <2>1, <2>3 DEF Recorded
  <2>5. \A i \in DOMAIN entries : entries[i] <= built + 1
    BY <2>2 DEF Types, TypeOK
  <2>6. \A i \in DOMAIN file : file[i] <= built + 1
    BY <2>2 DEF Types, TypeOK
  <2>7. \A q \in Recorders : item'[q] <= built + 1
    <3>1. \A q \in Recorders : item'[q] = item[q] \/ item'[q] = built + 1
      BY <2>1
    <3>2. \A q \in Recorders : item[q] <= built /\ item[q] \in Nat
      BY DEF Numbering, Entry, Corrupt, Types, TypeOK
    <3>3. built \in Nat
      BY DEF Types, Types, TypeOK
    <3>. QED
      BY <3>1, <3>2, <3>3
  <2>8. \A q, r \in Recorders :
          item'[q] = item'[r] /\ item'[q] \in Entry => q = r
    BY <2>1, <2>3 DEF Numbering
  <2>9. \A q \in Recorders :
          /\ pc'[q] \in {"lock", "append", "publish"} => item'[q] \notin Recorded'
          /\ pc'[q] \in {"lock", "append"} =>
               \A i \in DOMAIN file' : file'[i] # item'[q]
    BY <2>1, <2>3, <2>4 DEF Numbering, Types, TypeOK
  <2>. QED
    BY <2>1, <2>5, <2>6, <2>7, <2>8, <2>9 DEF Numbering
<1>2. ASSUME NEW p \in Recorders, Lock(p)
      PROVE  Numbering'
  BY <1>2 DEF Numbering, Recorded, Lock, boot, streams, disk
<1>3. ASSUME NEW p \in Recorders, AppendToFile(p)
      PROVE  Numbering'
  <2>1. \A i \in DOMAIN file' : \/ i \in DOMAIN file /\ file'[i] = file[i]
                                \/ file'[i] \in {Corrupt, item[p]}
    BY <1>3, AppendLines
  <2>2. \A i \in DOMAIN file' : file'[i] <= built
    <3>1. item[p] <= built /\ Corrupt <= built
      BY DEF Numbering, Corrupt, Types, TypeOK
    <3>2. \A i \in DOMAIN file : file[i] <= built
      BY DEF Numbering
    <3>. QED
      BY <2>1, <3>1, <3>2
  <2>3. /\ UNCHANGED <<built, item, entries>>
        /\ pc' = [pc EXCEPT ![p] = "publish"]
        /\ pc[p] = "append"
    BY <1>3 DEF AppendToFile
  <2>4. \A q \in Recorders : pc'[q] \in {"lock", "append"} =>
          /\ q # p /\ pc[q] \in {"lock", "append"} /\ item[q] # item[p]
          /\ item[q] # Corrupt
    BY <2>3 DEF Numbering, Corrupt, Entry, Types, TypeOK
  <2>5. \A q \in Recorders : pc'[q] \in {"lock", "append"} =>
          \A i \in DOMAIN file' : file'[i] # item'[q]
    BY <2>1, <2>3, <2>4 DEF Numbering
  <2>. QED
    BY <2>2, <2>3, <2>5 DEF Numbering, Recorded
<1>4. ASSUME NEW p \in Recorders, Publish(p)
      PROVE  Numbering'
  <2>1. /\ Len(entries') = Len(entries) + 1
        /\ entries'[Len(entries) + 1] = item[p]
        /\ \A a \in 1 .. Len(entries) : entries'[a] = entries[a]
        /\ DOMAIN entries' = 1 .. Len(entries) + 1
        /\ DOMAIN entries = 1 .. Len(entries)
        /\ Len(entries) \in Nat
    BY <1>4, AppendProperties, LenProperties DEF Publish
  <2>2. /\ pc' = [pc EXCEPT ![p] = "fanout"]
        /\ UNCHANGED <<built, item, file>>
        /\ item[p] \in Entry /\ pc[p] = "publish"
    BY <1>4 DEF Publish, disk, Types, TypeOK
  <2>3. \A i \in DOMAIN entries' : \/ i \in DOMAIN entries /\ entries'[i] = entries[i]
                                   \/ entries'[i] = item[p]
    BY <2>1
  <2>4. \A i \in DOMAIN entries' : entries'[i] <= built
    BY <2>3 DEF Numbering
  <2>5. \A q \in Recorders : pc'[q] \in {"lock", "append", "publish"} =>
          /\ pc[q] \in {"lock", "append", "publish"}
          /\ item[q] # item[p] /\ item[q] \notin Recorded
    BY <2>2 DEF Numbering, Types, TypeOK
  <2>6. \A q \in Recorders : pc'[q] \in {"lock", "append", "publish"} =>
          item[q] \notin Recorded'
    BY <2>3, <2>5 DEF Recorded
  <2>7. \A q \in Recorders : pc'[q] \in {"lock", "append"} =>
          pc[q] \in {"lock", "append"}
    BY <2>2
  <2>. QED
    BY <2>2, <2>4, <2>6, <2>7 DEF Numbering
<1>5. ASSUME NEW p \in Recorders, NEW c \in Channels, Send(p, c)
      PROVE  Numbering'
  BY <1>5 DEF Numbering, Recorded, Send, Offer, boot, disk
<1>6. ASSUME NEW p \in Recorders, NEW c \in Channels, SendOnClosed(p, c)
      PROVE  Numbering'
  BY <1>6 DEF Numbering, Recorded, SendOnClosed, boot, streams, disk
<1>7. ASSUME NEW p \in Recorders, Return(p)
      PROVE  Numbering'
  BY <1>7 DEF Types, Numbering, FileInv, TypeOK, Corrupt, Entry, Recorded, Return, boot, streams, disk
<1>8. ASSUME NEW c \in Channels, Subscribe(c)
      PROVE  Numbering'
  BY <1>8 DEF Numbering, Recorded, Subscribe, boot, memory, disk
<1>9. ASSUME NEW c \in Channels, Receive(c)
      PROVE  Numbering'
  BY <1>9 DEF Numbering, Recorded, Receive, boot, memory, disk
<1>10. ASSUME NEW c \in Channels, Unregister(c)
       PROVE  Numbering'
  BY <1>10 DEF Numbering, Recorded, Unregister, boot, memory, disk
<1>11. ASSUME NEW c \in Channels, Close(c)
       PROVE  Numbering'
  BY <1>11 DEF Numbering, Recorded, Close, boot, memory, disk
<1>12. CASE Crash
  BY <1>12 DEF Types, Numbering, FileInv, TypeOK, Corrupt, Entry, Recorded, Crash, disk
<1>13. CASE LoadLine
  <2>1. /\ \A a \in DOMAIN entries' :
             \/ a \in DOMAIN entries /\ entries'[a] = entries[a]
             \/ entries'[a] = file[scan] /\ scan \in DOMAIN file
    BY <1>13, AppendProperties, LenProperties DEF LoadLine, Types, TypeOK
  <2>2. \A p \in Recorders : pc'[p] = "idle"
    BY <1>13 DEF LoadLine, QuietBoot
  <2>3. UNCHANGED <<built, item, file>>
    BY <1>13 DEF LoadLine, disk
  <2>. QED
    BY <2>1, <2>2, <2>3 DEF Numbering
<1>14. CASE Loaded
  BY <1>14 DEF Numbering, Recorded, Loaded, memory, streams, disk
<1>15. CASE UNCHANGED vars
  BY <1>15 DEF Numbering, Recorded, vars, boot, memory, streams, disk
<1>. QED
  BY <1>1, <1>2, <1>3, <1>4, <1>5, <1>6, <1>7, <1>8, <1>9, <1>10, <1>11,
     <1>12, <1>13, <1>14, <1>15 DEF Next, Record

LEMMA FileInvNext ==
    ASSUME IInv, [Next]_vars PROVE FileInv'
<1> Types /\ QuietBoot /\ OneInside /\ Numbering /\ FileInv /\ PendingInv
    /\ FreshInv /\ DeliveredOnceAfterSubscribe /\ OnlyFullChannelsMiss
  BY DEF IInv
<1> USE RecorderAssumption
<1>1. ASSUME NEW p \in Recorders, Build(p)
      PROVE  FileInv'
  BY <1>1 DEF FileInv, Seen, Ordered, Recorded, Build, boot, streams, disk
<1>2. ASSUME NEW p \in Recorders, Lock(p)
      PROVE  FileInv'
  BY <1>2 DEF FileInv, Seen, Ordered, Recorded, Lock, boot, streams, disk
<1>3. ASSUME NEW p \in Recorders, AppendToFile(p)
      PROVE  FileInv'
  <2>1. /\ UNCHANGED <<life, scan, item, entries>>
        /\ life = "up" /\ pc[p] = "append"
        /\ pc' = [pc EXCEPT ![p] = "publish"]
        /\ ~Persistent => file' = file
    BY <1>3 DEF AppendToFile, boot, disk
  <2>2. /\ item[p] \notin Recorded
        /\ \A q \in Recorders : pc[q] # "publish"
    BY <2>1 DEF Numbering, OneInside, Critical
  <2>3. \A i \in DOMAIN file : file[i] # Corrupt => file[i] \in Recorded
    BY <2>1, <2>2 DEF FileInv, Seen
  <2>4. \A i \in DOMAIN file' :
          \/ i \in DOMAIN file /\ file'[i] = file[i]
          \/ file'[i] = Corrupt
          \/ i = Len(file') /\ file'[i] = item[p]
    BY <1>3, AppendLines
  <2>5. Recorded' = Recorded /\ DOMAIN file' = 1 .. Len(file')
    <3>1. file' \in Seq({Corrupt} \cup Entry)
      BY TypesNext DEF IInv, Types, TypeOK
    <3>. QED
      BY <2>1, <3>1, LenProperties DEF Recorded
  <2>6. ASSUME NEW i \in DOMAIN file', file'[i] # Corrupt
        PROVE  \/ file'[i] \in Recorded
               \/ i = Len(file') /\ pc'[p] = "publish" /\ item'[p] = file'[i]
    BY <2>1, <2>3, <2>4, <2>6 DEF Types, TypeOK
  <2>7. ASSUME NEW i \in DOMAIN file', NEW j \in DOMAIN file', i < j,
               file'[i] # Corrupt, file'[j] # Corrupt, file'[j] \in Recorded
        PROVE  Ordered(file'[i], file'[j])
    <3>1. j \in DOMAIN file /\ file'[j] = file[j]
      BY <2>2, <2>4, <2>7
    <3>2. i \in DOMAIN file /\ file'[i] = file[i]
      BY <2>4, <2>5, <2>7
    <3>. QED
      BY <2>1, <2>7, <3>1, <3>2 DEF FileInv, Seen
  <2>8. ~Persistent => file' = <<>>
    BY <2>1 DEF FileInv
  <2>. QED
    BY <2>1, <2>5, <2>6, <2>7, <2>8 DEF FileInv, Seen, Ordered
<1>4. ASSUME NEW p \in Recorders, Publish(p)
      PROVE  FileInv'
  <2>1. /\ Len(entries') = Len(entries) + 1
        /\ entries'[Len(entries) + 1] = item[p]
        /\ \A a \in 1 .. Len(entries) : entries'[a] = entries[a]
        /\ DOMAIN entries' = 1 .. Len(entries) + 1
        /\ DOMAIN entries = 1 .. Len(entries)
        /\ Len(entries) \in Nat
    BY <1>4, AppendProperties, LenProperties DEF Publish
  <2>2. /\ UNCHANGED <<life, scan, item, file>>
        /\ life = "up" /\ pc[p] = "publish"
        /\ pc' = [pc EXCEPT ![p] = "fanout"]
    BY <1>4 DEF Publish, boot, disk
  <2>3. Recorded' = Recorded \cup {item[p]}
    <3>1. \A x \in Recorded : x \in Recorded'
      BY <2>1 DEF Recorded
    <3>2. item[p] \in Recorded'
      <4>1. Len(entries) + 1 \in DOMAIN entries'
        BY <2>1
      <4>. QED
        BY <2>1, <4>1 DEF Recorded
    <3>3. \A x \in Recorded' : x \in Recorded \/ x = item[p]
      <4>1. \A a \in DOMAIN entries' :
              a \in DOMAIN entries \/ a = Len(entries) + 1
        BY <2>1
      <4>. QED
        BY <2>1, <4>1 DEF Recorded
    <3>. QED
      BY <3>1, <3>2, <3>3
  <2>4. \A q \in Recorders : pc[q] = "publish" => q = p
    BY <2>2 DEF OneInside, Critical
  <2>5. \A i \in DOMAIN file : file[i] # Corrupt => file[i] \in Recorded'
    BY <2>2, <2>3, <2>4 DEF FileInv, Seen
  <2>6. ASSUME NEW i \in DOMAIN file, NEW j \in DOMAIN file, i < j,
               file[i] # Corrupt, file[j] # Corrupt
        PROVE  Ordered(file[i], file[j])'
    <3>1. CASE file[j] \in Recorded
      <4>1. Ordered(file[i], file[j])
        BY <2>2, <2>6, <3>1 DEF FileInv, Seen
      <4>2. PICK a \in DOMAIN entries, b \in DOMAIN entries :
              a < b /\ entries[a] = file[i] /\ entries[b] = file[j]
        BY <4>1 DEF Ordered
      <4>3. /\ a \in DOMAIN entries' /\ b \in DOMAIN entries'
            /\ entries'[a] = file[i] /\ entries'[b] = file[j]
        BY <2>1, <4>2
      <4>. QED
        BY <2>2, <4>2, <4>3 DEF Ordered
    <3>2. CASE file[j] \notin Recorded
      <4>1. file[j] = item[p]
        BY <2>3, <2>5, <2>6, <3>2
      <4>2. i # Len(file)
        BY <2>6, LenProperties
      <4>3. file[i] \in Recorded
        BY <2>2, <2>6, <4>2 DEF FileInv, Seen
      <4>4. PICK a \in DOMAIN entries : entries[a] = file[i]
        BY <4>3 DEF Recorded
      <4>5. /\ a \in DOMAIN entries' /\ Len(entries) + 1 \in DOMAIN entries'
            /\ a < Len(entries) + 1
            /\ entries'[a] = file[i] /\ entries'[Len(entries) + 1] = file[j]
        BY <2>1, <4>1, <4>4
      <4>. QED
        BY <2>2, <4>5 DEF Ordered
    <3>. QED
      BY <3>1, <3>2
  <2>. QED
    BY <2>2, <2>5, <2>6 DEF FileInv, Seen
<1>5. ASSUME NEW p \in Recorders, NEW c \in Channels, Send(p, c)
      PROVE  FileInv'
  BY <1>5 DEF FileInv, Seen, Ordered, Recorded, Send, Offer, boot, disk
<1>6. ASSUME NEW p \in Recorders, NEW c \in Channels, SendOnClosed(p, c)
      PROVE  FileInv'
  BY <1>6 DEF FileInv, Seen, Ordered, Recorded, SendOnClosed, boot, streams, disk
<1>7. ASSUME NEW p \in Recorders, Return(p)
      PROVE  FileInv'
  BY <1>7 DEF FileInv, Seen, Ordered, Recorded, Return, boot, streams, disk
<1>8. ASSUME NEW c \in Channels, Subscribe(c)
      PROVE  FileInv'
  BY <1>8 DEF FileInv, Seen, Ordered, Recorded, Subscribe, boot, memory, disk
<1>9. ASSUME NEW c \in Channels, Receive(c)
      PROVE  FileInv'
  BY <1>9 DEF FileInv, Seen, Ordered, Recorded, Receive, boot, memory, disk
<1>10. ASSUME NEW c \in Channels, Unregister(c)
       PROVE  FileInv'
  BY <1>10 DEF FileInv, Seen, Ordered, Recorded, Unregister, boot, memory, disk
<1>11. ASSUME NEW c \in Channels, Close(c)
       PROVE  FileInv'
  BY <1>11 DEF FileInv, Seen, Ordered, Recorded, Close, boot, memory, disk
<1>12. CASE Crash
  BY <1>12 DEF Types, TypeOK, FileInv, Seen, Ordered, Recorded, Crash, disk
<1>13. CASE LoadLine
  <2> DEFINE keep == file[scan] = Corrupt
  <2>1. /\ DOMAIN entries \subseteq DOMAIN entries'
        /\ \A a \in DOMAIN entries : entries'[a] = entries[a]
        /\ DOMAIN entries = 1 .. Len(entries)
        /\ Len(entries) \in Nat
        /\ ~keep => /\ Len(entries) + 1 \in DOMAIN entries'
                    /\ entries'[Len(entries) + 1] = file[scan]
    BY <1>13, AppendProperties, LenProperties, ElementOfSeq DEF LoadLine
  <2>2. /\ life = "booting" /\ scan \in DOMAIN file /\ scan' = scan + 1
        /\ UNCHANGED <<life, pc, item, file>>
        /\ DOMAIN file = 1 .. Len(file)
    BY <1>13, LenProperties DEF LoadLine, disk, Types, TypeOK
  <2>3. \A q \in Recorders : pc[q] # "publish"
    BY <2>2 DEF QuietBoot
  <2>4. \A i \in DOMAIN file : i < scan /\ file[i] # Corrupt => file[i] \in Recorded
    BY <2>2, <2>3 DEF FileInv, Seen
  <2>5. Recorded \subseteq Recorded'
    BY <2>1 DEF Recorded
  <2>6. ~keep => file[scan] \in Recorded'
    BY <2>1 DEF Recorded
  <2>7. \A i \in DOMAIN file :
          i < scan + 1 /\ file[i] # Corrupt => file[i] \in Recorded'
    BY <2>2, <2>4, <2>5, <2>6
  <2>8. ASSUME NEW i \in DOMAIN file, NEW j \in DOMAIN file, i < j,
               file[i] # Corrupt, file[j] # Corrupt, j < scan + 1
        PROVE  Ordered(file[i], file[j])'
    <3>1. CASE j < scan
      <4>1. file[j] \in Recorded
        BY <2>4, <2>8, <3>1
      <4>2. Ordered(file[i], file[j])
        BY <2>2, <2>8, <3>1, <4>1 DEF FileInv, Seen
      <4>. QED
        BY <2>1, <2>2, <4>2 DEF Ordered
    <3>2. CASE j = scan
      <4>1. PICK a \in DOMAIN entries : entries[a] = file[i]
        BY <2>4, <2>8, <3>2 DEF Recorded
      <4>2. a < Len(entries) + 1 /\ ~keep
        BY <2>1, <2>8, <3>2
      <4>. QED
        BY <2>1, <2>2, <3>2, <4>1, <4>2 DEF Ordered
    <3>. QED
      BY <2>2, <2>8, <3>1, <3>2
  <2>. QED
    BY <2>2, <2>7, <2>8 DEF FileInv, Seen
<1>14. CASE Loaded
  <2>1. /\ life = "booting" /\ life' = "up"
        /\ Persistent => scan > Len(file)
        /\ UNCHANGED <<scan, pc, item, entries, file>>
        /\ DOMAIN file = 1 .. Len(file)
    BY <1>14, LenProperties DEF Loaded, memory, disk
  <2>2. \A i \in DOMAIN file : i < scan
    BY <2>1, LenProperties DEF FileInv, Types, TypeOK
  <2>3. Recorded' = Recorded /\ DOMAIN file' = DOMAIN file
    BY <2>1 DEF Recorded
  <2>4. \A i \in DOMAIN file : Seen(i)' => Seen(i)
    BY <2>1, <2>2 DEF Seen
  <2>5. \A x, y : Ordered(x, y) => Ordered(x, y)'
    BY <2>1 DEF Ordered
  <2>6. ~Persistent => file' = <<>>
    BY <2>1 DEF FileInv
  <2>. QED
    BY <2>1, <2>3, <2>4, <2>5, <2>6 DEF FileInv
<1>15. CASE UNCHANGED vars
  BY <1>15 DEF FileInv, Seen, Ordered, Recorded, vars, boot, memory, streams, disk
<1>. QED
  BY <1>1, <1>2, <1>3, <1>4, <1>5, <1>6, <1>7, <1>8, <1>9, <1>10, <1>11,
     <1>12, <1>13, <1>14, <1>15 DEF Next, Record

LEMMA PendingInvNext ==
    ASSUME IInv, [Next]_vars PROVE PendingInv'
<1> Types /\ QuietBoot /\ OneInside /\ Numbering /\ FileInv /\ PendingInv
    /\ FreshInv /\ DeliveredOnceAfterSubscribe /\ OnlyFullChannelsMiss
  BY DEF IInv
<1> USE RecorderAssumption
<1>1. ASSUME NEW p \in Recorders, Build(p)
      PROVE  PendingInv'
  BY <1>1 DEF PendingInv, Build, boot, streams, disk
<1>2. ASSUME NEW p \in Recorders, Lock(p)
      PROVE  PendingInv'
  BY <1>2 DEF PendingInv, Lock, boot, streams, disk
<1>3. ASSUME NEW p \in Recorders, AppendToFile(p)
      PROVE  PendingInv'
  BY <1>3 DEF PendingInv, AppendToFile, boot, streams, disk
<1>4. ASSUME NEW p \in Recorders, Publish(p)
      PROVE  PendingInv'
  <2>1. /\ Len(entries') = Len(entries) + 1
        /\ entries'[Len(entries) + 1] = item[p]
        /\ \A a \in 1 .. Len(entries) : entries'[a] = entries[a]
        /\ DOMAIN entries' = 1 .. Len(entries) + 1
        /\ DOMAIN entries = 1 .. Len(entries)
        /\ Len(entries) \in Nat
    BY <1>4, AppendProperties, LenProperties DEF Publish
  <2>2. /\ pending' = [pending EXCEPT ![p] = subscribers]
        /\ pc' = [pc EXCEPT ![p] = "fanout"]
        /\ UNCHANGED <<item, stream, since>>
        /\ pc[p] = "publish"
    BY <1>4 DEF Publish, streams
  <2>3. ASSUME NEW c \in subscribers
        PROVE  /\ Len(entries) + 1 > since[c]
               /\ \A i \in DOMAIN stream[c] : stream[c][i] # item[p]
    <3>1. item[p] \notin Recorded
      BY <2>2 DEF Numbering
    <3>. QED
      BY <3>1, <2>1 DEF FreshInv, DeliveredOnceAfterSubscribe, Recorded, Types, TypeOK
  <2>4. ASSUME NEW q \in Recorders, q # p, NEW c \in pending[q]
        PROVE  /\ pc[q] \in {"fanout", "panicked"}
               /\ \E a \in DOMAIN entries' : a > since[c] /\ entries'[a] = item[q]
               /\ \A i \in DOMAIN stream[c] : stream[c][i] # item[q]
    BY <2>1, <2>4 DEF PendingInv
  <2>5. ASSUME NEW c \in pending'[p]
        PROVE  /\ pc'[p] \in {"fanout", "panicked"}
               /\ \E a \in DOMAIN entries' : a > since'[c] /\ entries'[a] = item'[p]
               /\ \A i \in DOMAIN stream'[c] : stream'[c][i] # item'[p]
    <3>1. c \in subscribers
      BY <2>2, <2>5 DEF Types, TypeOK
    <3>2. pc'[p] = "fanout" /\ since'[c] = since[c] /\ stream'[c] = stream[c]
          /\ item'[p] = item[p]
      BY <2>2 DEF Types, TypeOK
    <3>3. Len(entries) + 1 \in DOMAIN entries'
      BY <2>1
    <3>. QED
      BY <2>1, <2>3, <3>1, <3>2, <3>3
  <2>6. ASSUME NEW q \in Recorders, q # p, NEW c \in pending'[q]
        PROVE  /\ pc'[q] \in {"fanout", "panicked"}
               /\ \E a \in DOMAIN entries' : a > since'[c] /\ entries'[a] = item'[q]
               /\ \A i \in DOMAIN stream'[c] : stream'[c][i] # item'[q]
    BY <2>2, <2>4, <2>6
  <2>7. \A q \in Recorders : q = p \/ q # p
    OBVIOUS
  <2>. QED
    BY <2>5, <2>6, <2>7 DEF PendingInv
<1>5. ASSUME NEW p \in Recorders, NEW c \in Channels, Send(p, c)
      PROVE  PendingInv'
  <2>1. /\ pending' = [pending EXCEPT ![p] = @ \ {c}]
        /\ UNCHANGED <<pc, item, entries, since>>
        /\ item[p] \in Entry /\ pc[p] = "fanout"
    BY <1>5 DEF Send, Types, TypeOK
  <2>2. \A d \in Channels : \A i \in DOMAIN stream'[d] :
          \/ i \in DOMAIN stream[d] /\ stream'[d][i] = stream[d][i]
          \/ d = c /\ stream'[d][i] = item[p]
    BY <1>5, SendAddsOne
  <2>3. ASSUME NEW q \in Recorders, NEW d \in pending'[q],
               NEW i \in DOMAIN stream'[d]
        PROVE  stream'[d][i] # item[q]
    <3>1. d \in pending[q] /\ d \in Channels /\ (d = c => q # p)
      BY <2>1, <2>3 DEF Types, TypeOK
    <3>2. item[p] = item[q] => p = q
      BY <2>1 DEF Numbering
    <3>. QED
      BY <2>2, <3>1, <3>2 DEF PendingInv
  <2>. QED
    BY <2>1, <2>3 DEF PendingInv
<1>6. ASSUME NEW p \in Recorders, NEW c \in Channels, SendOnClosed(p, c)
      PROVE  PendingInv'
  BY <1>6 DEF PendingInv, SendOnClosed, boot, streams, disk
<1>7. ASSUME NEW p \in Recorders, Return(p)
      PROVE  PendingInv'
  BY <1>7 DEF PendingInv, Return, boot, streams, disk
<1>8. ASSUME NEW c \in Channels, Subscribe(c)
      PROVE  PendingInv'
  <2>1. \A p \in Recorders : c \notin pending[p]
    BY <1>8 DEF Subscribe, FreshInv
  <2>2. /\ since' = [since EXCEPT ![c] = Len(entries)]
        /\ UNCHANGED <<pc, item, pending, entries, stream>>
    BY <1>8 DEF Subscribe, memory
  <2>3. \A p \in Recorders : \A d \in pending[p] : since'[d] = since[d]
    BY <2>1, <2>2
  <2>. QED
    BY <2>2, <2>3 DEF PendingInv
<1>9. ASSUME NEW c \in Channels, Receive(c)
      PROVE  PendingInv'
  BY <1>9 DEF PendingInv, Receive, boot, memory, disk
<1>10. ASSUME NEW c \in Channels, Unregister(c)
       PROVE  PendingInv'
  BY <1>10 DEF PendingInv, Unregister, boot, memory, disk
<1>11. ASSUME NEW c \in Channels, Close(c)
       PROVE  PendingInv'
  BY <1>11 DEF PendingInv, Close, boot, memory, disk
<1>12. CASE Crash
  BY <1>12 DEF PendingInv, Crash, disk
<1>13. CASE LoadLine
  <2>1. \A p \in Recorders : pc[p] = "idle"
    BY <1>13 DEF LoadLine, QuietBoot
  <2>2. \A p \in Recorders : pending[p] = {}
    BY <2>1 DEF PendingInv
  <2>. QED
    BY <1>13, <2>2 DEF LoadLine, PendingInv
<1>14. CASE Loaded
  BY <1>14 DEF PendingInv, Loaded, memory, streams, disk
<1>15. CASE UNCHANGED vars
  BY <1>15 DEF PendingInv, vars, boot, memory, streams, disk
<1>. QED
  BY <1>1, <1>2, <1>3, <1>4, <1>5, <1>6, <1>7, <1>8, <1>9, <1>10, <1>11,
     <1>12, <1>13, <1>14, <1>15 DEF Next, Record

LEMMA FreshInvNext ==
    ASSUME IInv, [Next]_vars PROVE FreshInv'
<1> Types /\ QuietBoot /\ OneInside /\ Numbering /\ FileInv /\ PendingInv
    /\ FreshInv /\ DeliveredOnceAfterSubscribe /\ OnlyFullChannelsMiss
  BY DEF IInv
<1> USE RecorderAssumption
<1>1. ASSUME NEW p \in Recorders, Build(p)
      PROVE  FreshInv'
  BY <1>1 DEF FreshInv, Build, boot, streams, disk
<1>2. ASSUME NEW p \in Recorders, Lock(p)
      PROVE  FreshInv'
  BY <1>2 DEF FreshInv, Lock, boot, streams, disk
<1>3. ASSUME NEW p \in Recorders, AppendToFile(p)
      PROVE  FreshInv'
  BY <1>3 DEF FreshInv, AppendToFile, boot, streams, disk
<1>4. ASSUME NEW p \in Recorders, Publish(p)
      PROVE  FreshInv'
  BY <1>4 DEF Types, TypeOK, FreshInv, Publish, boot, streams, disk
<1>5. ASSUME NEW p \in Recorders, NEW c \in Channels, Send(p, c)
      PROVE  FreshInv'
  BY <1>5 DEF Types, TypeOK, FreshInv, Send, Offer, boot, disk
<1>6. ASSUME NEW p \in Recorders, NEW c \in Channels, SendOnClosed(p, c)
      PROVE  FreshInv'
  BY <1>6 DEF FreshInv, SendOnClosed, boot, streams, disk
<1>7. ASSUME NEW p \in Recorders, Return(p)
      PROVE  FreshInv'
  BY <1>7 DEF FreshInv, Return, boot, streams, disk
<1>8. ASSUME NEW c \in Channels, Subscribe(c)
      PROVE  FreshInv'
  BY <1>8 DEF Types, TypeOK, FreshInv, Subscribe, boot, memory, disk
<1>9. ASSUME NEW c \in Channels, Receive(c)
      PROVE  FreshInv'
  BY <1>9 DEF FreshInv, Receive, boot, memory, disk
<1>10. ASSUME NEW c \in Channels, Unregister(c)
       PROVE  FreshInv'
  BY <1>10 DEF FreshInv, Unregister, boot, memory, disk
<1>11. ASSUME NEW c \in Channels, Close(c)
       PROVE  FreshInv'
  BY <1>11 DEF FreshInv, Close, boot, memory, disk
<1>12. CASE Crash
  BY <1>12 DEF FreshInv, Crash, disk
<1>13. CASE LoadLine
  BY <1>13 DEF Types, TypeOK, FreshInv, LoadLine, streams, disk
<1>14. CASE Loaded
  BY <1>14 DEF FreshInv, Loaded, memory, streams, disk
<1>15. CASE UNCHANGED vars
  BY <1>15 DEF FreshInv, vars, boot, memory, streams, disk
<1>. QED
  BY <1>1, <1>2, <1>3, <1>4, <1>5, <1>6, <1>7, <1>8, <1>9, <1>10, <1>11,
     <1>12, <1>13, <1>14, <1>15 DEF Next, Record

LEMMA DeliveredOnceAfterSubscribeNext ==
    ASSUME IInv, [Next]_vars PROVE DeliveredOnceAfterSubscribe'
<1> Types /\ QuietBoot /\ OneInside /\ Numbering /\ FileInv /\ PendingInv
    /\ FreshInv /\ DeliveredOnceAfterSubscribe /\ OnlyFullChannelsMiss
  BY DEF IInv
<1> USE RecorderAssumption
<1>1. ASSUME NEW p \in Recorders, Build(p)
      PROVE  DeliveredOnceAfterSubscribe'
  BY <1>1 DEF DeliveredOnceAfterSubscribe, Build, boot, streams, disk
<1>2. ASSUME NEW p \in Recorders, Lock(p)
      PROVE  DeliveredOnceAfterSubscribe'
  BY <1>2 DEF DeliveredOnceAfterSubscribe, Lock, boot, streams, disk
<1>3. ASSUME NEW p \in Recorders, AppendToFile(p)
      PROVE  DeliveredOnceAfterSubscribe'
  BY <1>3 DEF DeliveredOnceAfterSubscribe, AppendToFile, boot, streams, disk
<1>4. ASSUME NEW p \in Recorders, Publish(p)
      PROVE  DeliveredOnceAfterSubscribe'
  <2>1. /\ Len(entries') = Len(entries) + 1
        /\ entries'[Len(entries) + 1] = item[p]
        /\ \A a \in 1 .. Len(entries) : entries'[a] = entries[a]
        /\ DOMAIN entries' = 1 .. Len(entries) + 1
        /\ DOMAIN entries = 1 .. Len(entries)
        /\ Len(entries) \in Nat
    BY <1>4, AppendProperties, LenProperties DEF Publish
  <2>2. UNCHANGED <<stream, since>>
    BY <1>4 DEF Publish, streams
  <2>. QED
    BY <2>1, <2>2 DEF DeliveredOnceAfterSubscribe
<1>5. ASSUME NEW p \in Recorders, NEW c \in Channels, Send(p, c)
      PROVE  DeliveredOnceAfterSubscribe'
  <2>1. UNCHANGED <<entries, since>> /\ c \in pending[p]
    BY <1>5 DEF Send
  <2>2. \A d \in Channels : \A i \in DOMAIN stream'[d] :
          \/ i \in DOMAIN stream[d] /\ stream'[d][i] = stream[d][i]
          \/ d = c /\ stream'[d][i] = item[p] /\ i = Len(stream[c]) + 1
    BY <1>5, SendAddsOne
  <2>3. /\ \E a \in DOMAIN entries : a > since[c] /\ entries[a] = item[p]
        /\ \A i \in DOMAIN stream[c] : stream[c][i] # item[p]
    BY <2>1 DEF PendingInv
  <2>4. \A d \in Channels : \A i \in DOMAIN stream'[d] :
          \E a \in DOMAIN entries : a > since[d] /\ entries[a] = stream'[d][i]
    <3>1. \A d \in Channels : \A i \in DOMAIN stream[d] :
            \E a \in DOMAIN entries : a > since[d] /\ entries[a] = stream[d][i]
      BY DEF DeliveredOnceAfterSubscribe
    <3>. QED
      BY <2>2, <2>3, <3>1
  <2>5. ASSUME NEW d \in Channels, NEW i \in DOMAIN stream'[d],
               NEW j \in DOMAIN stream'[d], stream'[d][i] = stream'[d][j]
        PROVE  i = j
    <3>1. \A k, l \in DOMAIN stream[d] : stream[d][k] = stream[d][l] => k = l
      BY DEF DeliveredOnceAfterSubscribe
    <3>2. CASE i \in DOMAIN stream[d] /\ j \in DOMAIN stream[d]
               /\ stream'[d][i] = stream[d][i] /\ stream'[d][j] = stream[d][j]
      BY <2>5, <3>1, <3>2
    <3>3. CASE d = c /\ stream'[d][i] = item[p] /\ i = Len(stream[c]) + 1
      BY <2>2, <2>3, <2>5, <3>3
    <3>4. CASE d = c /\ stream'[d][j] = item[p] /\ j = Len(stream[c]) + 1
      BY <2>2, <2>3, <2>5, <3>4
    <3>. QED
      BY <2>2, <3>2, <3>3, <3>4
  <2>. QED
    BY <2>1, <2>4, <2>5 DEF DeliveredOnceAfterSubscribe
<1>6. ASSUME NEW p \in Recorders, NEW c \in Channels, SendOnClosed(p, c)
      PROVE  DeliveredOnceAfterSubscribe'
  BY <1>6 DEF DeliveredOnceAfterSubscribe, SendOnClosed, boot, streams, disk
<1>7. ASSUME NEW p \in Recorders, Return(p)
      PROVE  DeliveredOnceAfterSubscribe'
  BY <1>7 DEF DeliveredOnceAfterSubscribe, Return, boot, streams, disk
<1>8. ASSUME NEW c \in Channels, Subscribe(c)
      PROVE  DeliveredOnceAfterSubscribe'
  <2>1. stream[c] = <<>>
    BY <1>8 DEF Subscribe, FreshInv
  <2>2. /\ UNCHANGED <<entries, stream>>
        /\ \A d \in Channels : d # c => since'[d] = since[d]
    BY <1>8 DEF Subscribe, memory
  <2>3. DOMAIN stream[c] = {}
    BY <2>1
  <2>. QED
    BY <2>2, <2>3 DEF DeliveredOnceAfterSubscribe
<1>9. ASSUME NEW c \in Channels, Receive(c)
      PROVE  DeliveredOnceAfterSubscribe'
  BY <1>9 DEF DeliveredOnceAfterSubscribe, Receive, boot, memory, disk
<1>10. ASSUME NEW c \in Channels, Unregister(c)
       PROVE  DeliveredOnceAfterSubscribe'
  BY <1>10 DEF DeliveredOnceAfterSubscribe, Unregister, boot, memory, disk
<1>11. ASSUME NEW c \in Channels, Close(c)
       PROVE  DeliveredOnceAfterSubscribe'
  BY <1>11 DEF DeliveredOnceAfterSubscribe, Close, boot, memory, disk
<1>12. CASE Crash
  BY <1>12 DEF DeliveredOnceAfterSubscribe, Crash, disk
<1>13. CASE LoadLine
  <2>1. /\ DOMAIN entries \subseteq DOMAIN entries'
        /\ \A a \in DOMAIN entries : entries'[a] = entries[a]
    BY <1>13, AppendProperties, LenProperties, ElementOfSeq DEF LoadLine
  <2>2. UNCHANGED <<stream, since>>
    BY <1>13 DEF LoadLine, streams
  <2>. QED
    BY <2>1, <2>2 DEF DeliveredOnceAfterSubscribe
<1>14. CASE Loaded
  BY <1>14 DEF DeliveredOnceAfterSubscribe, Loaded, memory, streams, disk
<1>15. CASE UNCHANGED vars
  BY <1>15 DEF DeliveredOnceAfterSubscribe, vars, boot, memory, streams, disk
<1>. QED
  BY <1>1, <1>2, <1>3, <1>4, <1>5, <1>6, <1>7, <1>8, <1>9, <1>10, <1>11,
     <1>12, <1>13, <1>14, <1>15 DEF Next, Record

LEMMA OnlyFullChannelsMissNext ==
    ASSUME IInv, [Next]_vars PROVE OnlyFullChannelsMiss'
<1> Types /\ QuietBoot /\ OneInside /\ Numbering /\ FileInv /\ PendingInv
    /\ FreshInv /\ DeliveredOnceAfterSubscribe /\ OnlyFullChannelsMiss
  BY DEF IInv
<1> USE RecorderAssumption
<1>1. ASSUME NEW p \in Recorders, Build(p)
      PROVE  OnlyFullChannelsMiss'
  <2>1. /\ UNCHANGED <<entries, since, stream, dropped>>
        /\ subscribers' \subseteq subscribers
        /\ \A q \in Recorders : pending[q] # {} =>
             item'[q] = item[q] /\ pending'[q] = pending[q]
    BY <1>1 DEF Build, boot, streams, disk, PendingInv
  <2>. QED
    BY <2>1, AccountedStays DEF OnlyFullChannelsMiss
<1>2. ASSUME NEW p \in Recorders, Lock(p)
      PROVE  OnlyFullChannelsMiss'
  <2>1. /\ UNCHANGED <<entries, since, stream, dropped>>
        /\ subscribers' \subseteq subscribers
        /\ \A q \in Recorders : pending[q] # {} =>
             item'[q] = item[q] /\ pending'[q] = pending[q]
    BY <1>2 DEF Lock, boot, streams, disk
  <2>. QED
    BY <2>1, AccountedStays DEF OnlyFullChannelsMiss
<1>3. ASSUME NEW p \in Recorders, AppendToFile(p)
      PROVE  OnlyFullChannelsMiss'
  <2>1. /\ UNCHANGED <<entries, since, stream, dropped>>
        /\ subscribers' \subseteq subscribers
        /\ \A q \in Recorders : pending[q] # {} =>
             item'[q] = item[q] /\ pending'[q] = pending[q]
    BY <1>3 DEF AppendToFile, boot, streams, disk
  <2>. QED
    BY <2>1, AccountedStays DEF OnlyFullChannelsMiss
<1>4. ASSUME NEW p \in Recorders, Publish(p)
      PROVE  OnlyFullChannelsMiss'
  <2>1. /\ Len(entries') = Len(entries) + 1
        /\ entries'[Len(entries) + 1] = item[p]
        /\ \A a \in 1 .. Len(entries) : entries'[a] = entries[a]
        /\ DOMAIN entries' = 1 .. Len(entries) + 1
        /\ DOMAIN entries = 1 .. Len(entries)
        /\ Len(entries) \in Nat
    BY <1>4, AppendProperties, LenProperties DEF Publish
  <2>2. /\ pending' = [pending EXCEPT ![p] = subscribers]
        /\ pending[p] = {}
        /\ UNCHANGED <<item, subscribers, stream, since, dropped>>
    BY <1>4 DEF Publish, streams, PendingInv
  <2>3. ASSUME NEW c \in subscribers', NEW a \in since'[c] + 1 .. Len(entries'),
               NEW e, e = entries'[a]
        PROVE  Accounted(c, e)'
    <3>1. since[c] \in Nat /\ c \in Channels
      BY <2>2 DEF Types, TypeOK
    <3>2. CASE a = Len(entries) + 1
      <4>1. item'[p] = e /\ c \in pending'[p]
        BY <2>1, <2>2, <2>3, <3>2 DEF Types, TypeOK
      <4>. QED
        BY <4>1 DEF Accounted
    <3>3. CASE a # Len(entries) + 1
      <4>1. a \in since[c] + 1 .. Len(entries) /\ e = entries[a]
        BY <2>1, <2>2, <2>3, <3>1, <3>3
      <4>2. Accounted(c, e)
        BY <2>2, <2>3, <4>1 DEF OnlyFullChannelsMiss
      <4>3. \A q \in Recorders : pending[q] # {} =>
              item'[q] = item[q] /\ pending'[q] = pending[q]
        BY <2>2
      <4>. QED
        BY <2>2, <4>2, <4>3, AccountedStays
    <3>. QED
      BY <3>2, <3>3
  <2>. QED
    BY <2>3 DEF OnlyFullChannelsMiss
<1>5. ASSUME NEW p \in Recorders, NEW c \in Channels, Send(p, c)
      PROVE  OnlyFullChannelsMiss'
  <2>1. /\ UNCHANGED <<item, entries, since, subscribers>>
        /\ pending' = [pending EXCEPT ![p] = @ \ {c}]
    BY <1>5 DEF Send
  <2>2. ASSUME NEW d \in Channels, NEW e, Accounted(d, e)
        PROVE  Accounted(d, e)'
    <3>1. \A q \in Recorders : item[q] = e /\ d \in pending[q] =>
            \/ d \in pending'[q]
            \/ d = c /\ e = item[p]
      BY <2>1
    <3>2. e \in dropped[d] => e \in dropped'[d]
      BY <1>5, SendAddsOne
    <3>3. (\E i \in DOMAIN stream[d] : stream[d][i] = e) =>
            \E i \in DOMAIN stream'[d] : stream'[d][i] = e
      BY <1>5, SendKeeps
    <3>4. d = c /\ e = item[p] => \/ e \in dropped'[d]
                                  \/ \E i \in DOMAIN stream'[d] : stream'[d][i] = e
      <4>1. \/ item[p] \in dropped'[c]
            \/ \E i \in DOMAIN stream'[c] : stream'[c][i] = item[p]
        BY <1>5, SendKeeps
      <4>. QED
        BY <4>1
    <3>. QED
      BY <2>1, <2>2, <3>1, <3>2, <3>3, <3>4 DEF Accounted
  <2>. QED
    BY <2>1, <2>2 DEF OnlyFullChannelsMiss, Types, TypeOK
<1>6. ASSUME NEW p \in Recorders, NEW c \in Channels, SendOnClosed(p, c)
      PROVE  OnlyFullChannelsMiss'
  <2>1. /\ UNCHANGED <<entries, since, stream, dropped>>
        /\ subscribers' \subseteq subscribers
        /\ \A q \in Recorders : pending[q] # {} =>
             item'[q] = item[q] /\ pending'[q] = pending[q]
    BY <1>6 DEF SendOnClosed, boot, streams, disk
  <2>. QED
    BY <2>1, AccountedStays DEF OnlyFullChannelsMiss
<1>7. ASSUME NEW p \in Recorders, Return(p)
      PROVE  OnlyFullChannelsMiss'
  <2>1. /\ UNCHANGED <<entries, since, stream, dropped>>
        /\ subscribers' \subseteq subscribers
        /\ \A q \in Recorders : pending[q] # {} =>
             item'[q] = item[q] /\ pending'[q] = pending[q]
    BY <1>7 DEF Return, boot, streams, disk, PendingInv
  <2>. QED
    BY <2>1, AccountedStays DEF OnlyFullChannelsMiss
<1>8. ASSUME NEW c \in Channels, Subscribe(c)
      PROVE  OnlyFullChannelsMiss'
  <2>1. /\ UNCHANGED <<item, pending, entries, stream, dropped>>
        /\ subscribers' = subscribers \cup {c}
        /\ since' = [since EXCEPT ![c] = Len(entries)]
        /\ Len(entries) \in Nat
        /\ c \notin subscribers
    BY <1>8, LenProperties DEF Subscribe, memory, FreshInv
  <2>2. \A d \in subscribers : since'[d] = since[d]
    BY <2>1
  <2>3. since'[c] + 1 .. Len(entries') = {}
    BY <2>1 DEF Types, TypeOK
  <2>4. \A d \in subscribers : \A e : Accounted(d, e) => Accounted(d, e)'
    BY <2>1 DEF Accounted
  <2>. QED
    BY <2>1, <2>2, <2>3, <2>4 DEF OnlyFullChannelsMiss
<1>9. ASSUME NEW c \in Channels, Receive(c)
      PROVE  OnlyFullChannelsMiss'
  <2>1. /\ UNCHANGED <<entries, since, stream, dropped>>
        /\ subscribers' \subseteq subscribers
        /\ \A q \in Recorders : pending[q] # {} =>
             item'[q] = item[q] /\ pending'[q] = pending[q]
    BY <1>9 DEF Receive, boot, memory, disk
  <2>. QED
    BY <2>1, AccountedStays DEF OnlyFullChannelsMiss
<1>10. ASSUME NEW c \in Channels, Unregister(c)
       PROVE  OnlyFullChannelsMiss'
  <2>1. /\ UNCHANGED <<entries, since, stream, dropped>>
        /\ subscribers' \subseteq subscribers
        /\ \A q \in Recorders : pending[q] # {} =>
             item'[q] = item[q] /\ pending'[q] = pending[q]
    BY <1>10 DEF Unregister, boot, memory, disk
  <2>. QED
    BY <2>1, AccountedStays DEF OnlyFullChannelsMiss
<1>11. ASSUME NEW c \in Channels, Close(c)
       PROVE  OnlyFullChannelsMiss'
  <2>1. /\ UNCHANGED <<entries, since, stream, dropped>>
        /\ subscribers' \subseteq subscribers
        /\ \A q \in Recorders : pending[q] # {} =>
             item'[q] = item[q] /\ pending'[q] = pending[q]
    BY <1>11 DEF Close, boot, memory, disk
  <2>. QED
    BY <2>1, AccountedStays DEF OnlyFullChannelsMiss
<1>12. CASE Crash
  BY <1>12 DEF OnlyFullChannelsMiss, Crash, disk
<1>13. CASE LoadLine
  <2>1. subscribers' = {}
    BY <1>13 DEF LoadLine, QuietBoot, streams
  <2>. QED
    BY <2>1 DEF OnlyFullChannelsMiss
<1>14. CASE Loaded
  <2>1. /\ UNCHANGED <<entries, since, stream, dropped>>
        /\ subscribers' \subseteq subscribers
        /\ \A q \in Recorders : pending[q] # {} =>
             item'[q] = item[q] /\ pending'[q] = pending[q]
    BY <1>14 DEF Loaded, memory, streams, disk
  <2>. QED
    BY <2>1, AccountedStays DEF OnlyFullChannelsMiss
<1>15. CASE UNCHANGED vars
  <2>1. /\ UNCHANGED <<entries, since, stream, dropped>>
        /\ subscribers' \subseteq subscribers
        /\ \A q \in Recorders : pending[q] # {} =>
             item'[q] = item[q] /\ pending'[q] = pending[q]
    BY <1>15 DEF vars, boot, memory, streams, disk
  <2>. QED
    BY <2>1, AccountedStays DEF OnlyFullChannelsMiss
<1>. QED
  BY <1>1, <1>2, <1>3, <1>4, <1>5, <1>6, <1>7, <1>8, <1>9, <1>10, <1>11,
     <1>12, <1>13, <1>14, <1>15 DEF Next, Record

LEMMA IInvInit == Init => IInv
<1> SUFFICES ASSUME Init PROVE IInv
  OBVIOUS
<1>1. Types
  BY TypesInit
<1>2. life = "up" /\ \A p \in Recorders : pc[p] = "idle" /\ pending[p] = {} /\ item[p] = 0
  BY DEF Init, Corrupt
<1>3. /\ entries = <<>> /\ file = <<>> /\ built = 0 /\ subscribers = {}
      /\ \A c \in Channels : stream[c] = <<>> /\ since[c] = 0
  BY DEF Init
<1>4. Numbering
  BY <1>2, <1>3 DEF Numbering, Recorded, Entry
<1>5. QuietBoot /\ OneInside
  BY <1>2 DEF QuietBoot, OneInside, Critical
<1>6. FileInv
  BY <1>2, <1>3 DEF FileInv, Seen
<1>7. PendingInv /\ FreshInv
  BY <1>2, <1>3 DEF PendingInv, FreshInv
<1>8. DeliveredOnceAfterSubscribe /\ OnlyFullChannelsMiss
  BY <1>3 DEF DeliveredOnceAfterSubscribe, OnlyFullChannelsMiss
<1>. QED
  BY <1>1, <1>4, <1>5, <1>6, <1>7, <1>8 DEF IInv

LEMMA IInvNext == IInv /\ [Next]_vars => IInv'
<1> SUFFICES ASSUME IInv, [Next]_vars PROVE IInv'
  OBVIOUS
<1>1. Types'
  BY TypesNext DEF IInv
<1>. QED
  BY <1>1, QuietBootNext, OneInsideNext, NumberingNext, FileInvNext,
     PendingInvNext, FreshInvNext, DeliveredOnceAfterSubscribeNext,
     OnlyFullChannelsMissNext DEF IInv

LEMMA Invariance == Spec => []IInv
BY IInvInit, IInvNext, PTL DEF Spec

\* The log file and memory tell the same story in the same order, whatever
\* appends fail and wherever the process is killed (memory.go:95-141).
THEOREM FileOrder == Spec => []FileOrderIsMemoryOrder
<1>1. IInv => FileOrderIsMemoryOrder
  <2> SUFFICES ASSUME IInv, life = "up",
                      NEW i \in DOMAIN file, NEW j \in DOMAIN file, i < j,
                      file[i] # Corrupt, file[j] # Corrupt
               PROVE  /\ file[i] \in Recorded
                      /\ file[j] \in Recorded => Ordered(file[i], file[j])
    BY DEF FileOrderIsMemoryOrder, Ordered
  <2>1. FileInv /\ file \in Seq({Corrupt} \cup Entry)
    BY DEF IInv, Types, TypeOK
  <2>2. i # Len(file)
    BY <2>1, LenProperties
  <2>. QED
    BY <2>1, <2>2 DEF FileInv, Seen
<1>. QED
  BY <1>1, Invariance, PTL

\* A subscriber sees recorded entries only, each at most once, and none older
\* than its subscription (memory.go:107-123, 143-150).
THEOREM StreamIsSound == Spec => []DeliveredOnceAfterSubscribe
<1>1. IInv => DeliveredOnceAfterSubscribe
  BY DEF IInv
<1>. QED
  BY <1>1, Invariance, PTL

\* A subscriber misses an entry only when its channel is full
\* (memory.go:114-117).
THEOREM StreamIsComplete == Spec => []OnlyFullChannelsMiss
<1>1. IInv => OnlyFullChannelsMiss
  BY DEF IInv
<1>. QED
  BY <1>1, Invariance, PTL

-----------------------------------------------------------------------------
(* What was written on a line of its own is served after every restart *)

SyncInv ==
    \A e \in clean : \E i \in DOMAIN file : file[i] = e /\ (i = Len(file) => eol)

LEMMA SyncInvNext ==
    ASSUME IInv, SyncInv, [Next]_vars
    PROVE  SyncInv'
<1>1. CASE UNCHANGED disk
  BY <1>1 DEF disk, SyncInv
<1>2. ASSUME NEW p \in Recorders, AppendToFile(p)
      PROVE  SyncInv'
  <2>0. file \in Seq({Corrupt} \cup Entry) /\ eol \in BOOLEAN /\ (~eol => file # <<>>)
    BY DEF IInv, Types, TypeOK
  <2>1. Corrupt \in {Corrupt} \cup Entry /\ item[p] \in {Corrupt} \cup Entry
    BY DEF IInv, Types, TypeOK
  <2>2. CASE UNCHANGED disk
    BY <2>2, <1>1
  <2>3. ASSUME NEW piece \in {Corrupt} \cup Entry, file' = Written(piece)
        PROVE  \A e \in clean : \E i \in DOMAIN file' :
                 file'[i] = e /\ i # Len(file')
    <3>1. CASE eol
      <4>1. file' = Append(file, piece)
        BY <2>3, <3>1 DEF Written
      <4>2. /\ DOMAIN file' = 1 .. Len(file) + 1 /\ Len(file') = Len(file) + 1
            /\ DOMAIN file = 1 .. Len(file) /\ Len(file) \in Nat
            /\ \A i \in 1 .. Len(file) : file'[i] = file[i]
        BY <4>1, <2>0, AppendProperties, LenProperties
      <4>3. \A i \in DOMAIN file : i \in DOMAIN file' /\ i # Len(file')
        BY <4>2
      <4>. QED
        BY <4>2, <4>3 DEF SyncInv
    <3>2. CASE ~eol
      <4>1. file' = [file EXCEPT ![Len(file)] = Corrupt]
        BY <2>3, <3>2 DEF Written
      <4>2. /\ DOMAIN file' = DOMAIN file /\ Len(file') = Len(file)
            /\ \A i \in DOMAIN file : i # Len(file) => file'[i] = file[i]
        BY <4>1, <2>0, <2>1, ExceptSeq
      <4>. QED
        BY <4>2, <3>2 DEF SyncInv
    <3>. QED
      BY <3>1, <3>2, <2>0
  <2>4. CASE /\ file' = Written(item[p]) /\ eol' = TRUE
             /\ clean' = IF eol THEN clean \cup {item[p]} ELSE clean
    <3>1. \A e \in clean : \E i \in DOMAIN file' : file'[i] = e
      BY <2>1, <2>3, <2>4
    <3>2. eol => \E i \in DOMAIN file' : file'[i] = item[p]
      <4> SUFFICES ASSUME eol PROVE \E i \in DOMAIN file' : file'[i] = item[p]
        OBVIOUS
      <4>1. file' = Append(file, item[p])
        BY <2>4 DEF Written
      <4>2. /\ DOMAIN file' = 1 .. Len(file) + 1 /\ Len(file) \in Nat
            /\ file'[Len(file) + 1] = item[p]
        BY <4>1, <2>0, <2>1, AppendProperties, LenProperties
      <4>. QED
        BY <4>2
    <3>3. \A e \in clean' : \E i \in DOMAIN file' : file'[i] = e
      BY <2>4, <3>1, <3>2
    <3>4. eol'
      BY <2>4
    <3>. QED
      BY <3>3, <3>4 DEF SyncInv
  <2>5. CASE /\ \E piece \in {Corrupt, item[p]} : file' = Written(piece)
             /\ UNCHANGED clean
    <3>1. \A e \in clean' : \E i \in DOMAIN file' : file'[i] = e /\ i # Len(file')
      BY <2>1, <2>3, <2>5, <2>0
    <3>. QED
      BY <3>1 DEF SyncInv
  <2>. QED
    BY <1>2, <2>2, <2>4, <2>5 DEF AppendToFile
<1>3. \/ UNCHANGED disk
      \/ \E p \in Recorders : AppendToFile(p)
  BY DEF Next, Record, Build, Lock, Publish, Send, SendOnClosed, Return,
         Subscribe, Receive, Unregister, Close, Crash, LoadLine, Loaded, vars
<1>. QED
  BY <1>1, <1>2, <1>3

\* Whatever appends fail and wherever the process is killed, an entry whose
\* write was synced on a line of its own is served again after any restart
\* (memory.go:21-23, 82-83).
THEOREM SyncedSurvive == Spec => []SyncedEntriesSurvive
<1>1. Init => SyncInv
  BY DEF Init, SyncInv
<1>2. IInv /\ SyncInv /\ [Next]_vars => SyncInv'
  BY SyncInvNext
<1>3. IInv /\ SyncInv => SyncedEntriesSurvive
  <2> SUFFICES ASSUME IInv, SyncInv, life = "up", NEW e \in clean
               PROVE  \/ e \in Recorded
                      \/ \E p \in Recorders : pc[p] = "publish" /\ item[p] = e
    BY DEF SyncedEntriesSurvive, Served
  <2>1. PICK i \in DOMAIN file : file[i] = e
    BY DEF SyncInv
  <2>2. file[i] # Corrupt
    BY <2>1 DEF IInv, Types, TypeOK, Corrupt, Entry
  <2>. QED
    BY <2>1, <2>2 DEF IInv, FileInv, Seen
<1>. QED
  BY <1>1, <1>2, <1>3, Invariance, PTL DEF Spec
=============================================================================
