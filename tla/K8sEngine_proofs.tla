--------------------------- MODULE K8sEngine_proofs ---------------------------
(* Theorems about K8sEngine, the refinement of Vault among them. *)
EXTENDS K8sEngine, SequenceTheorems, FiniteSetTheorems, TLAPS

Data == [Keys -> Contents \cup {Absent}]
Made == {"create", "update", "delete", "rename"}
Entries == [action : Made, path : Places, prev : Paths \cup {None}]

\* What the copy of c holds under key k.
Had(c, k) == copy[c] # None /\ copy[c].data[k] # Absent

\* A goroutine that is about to write has chosen the action its copy calls
\* for: this is what the version of the copy then guarantees of the Secret.
Chosen(c) ==
    LET key == KeyOf(req[c].path) IN
    /\ req[c].op = "save" => action[c] = IF Had(c, key) THEN "update" ELSE "create"
    /\ req[c].op = "delete" => action[c] = "delete" /\ Had(c, key)
    /\ req[c].op = "rename" =>
         /\ action[c] = "rename" /\ SecretOf(req[c].from) = S(c)
         /\ Had(c, KeyOf(req[c].from)) /\ ~Had(c, key)

\* Where a goroutine is, and the request it has.
Placed(c) ==
    /\ pc[c] = "idle" => req[c] = None
    /\ pc[c] # "idle" => req[c] \in Requests
    /\ pc[c] \in {"get", "put"} => KeyOf(req[c].path) \in Keys
    /\ pc[c] = "drop" => req[c].op = "delete" /\ KeyOf(req[c].path) = Whole
    /\ pc[c] = "put" => Chosen(c)
    /\ pc[c] = "record" => action[c] \in Made

IInv ==
    /\ TypeOK
    /\ log \in Seq(Entries) /\ lost \in Seq(Entries)
    /\ \A c \in Clients : Placed(c)

-----------------------------------------------------------------------------
(* Requests and entries *)

LEMMA Asked ==
    ASSUME NEW r \in Requests
    PROVE  /\ r.op \in {"save", "delete", "rename"} /\ r.path \in Places
           /\ r.op = "save" => r.path \in Paths /\ r.content \in Contents
           /\ r.op = "rename" => r.path \in Paths /\ r.from \in Paths
<1>1. r \in [op : {"save"}, path : Paths, content : Contents]
            \cup [op : {"delete"}, path : Places]
            \cup [op : {"rename"}, from : Paths, path : Paths]
  BY K8sAssumption
<1>2. Paths \subseteq Places
  BY DEF Paths, Places
<1> QED
  BY <1>1, <1>2

\* A path is the pair of its Secret and its key.
LEMMA Pairs ==
    /\ \A p \in Paths : SecretOf(p) \in Secrets /\ KeyOf(p) \in Keys
                        /\ p = <<SecretOf(p), KeyOf(p)>>
    /\ \A p \in Places : SecretOf(p) \in Secrets /\ (KeyOf(p) \in Keys => p \in Paths)
    /\ \A s \in Secrets, k \in Keys : <<s, k>> \in Paths
                                      /\ SecretOf(<<s, k>>) = s /\ KeyOf(<<s, k>>) = k
    /\ \A p, q \in Paths : SecretOf(p) = SecretOf(q) /\ KeyOf(p) = KeyOf(q) => p = q
BY DEF Paths, Places, SecretOf, KeyOf

LEMMA EntryType ==
    ASSUME IInv, NEW c \in Clients, req[c] \in Requests, action[c] \in Made
    PROVE  EntryOf(c) \in Entries /\ EntryOf(c) # None
<1>1. req[c].path \in Places
      /\ (IF req[c].op = "rename" THEN req[c].from ELSE None) \in Paths \cup {None}
  BY Asked
<1>2. EntryOf(c) \in Entries
  BY <1>1 DEF EntryOf, Entry, Entries
<1>3. None \notin Entries
  BY K8sAssumption DEF Entries, Made
<1> QED
  BY <1>2, <1>3

LEMMA EditedType ==
    ASSUME IInv, NEW c \in Clients, pc[c] = "put"
    PROVE  Edited(c) \in Data
<1>1. /\ req[c] \in Requests /\ Chosen(c)
      /\ copy[c] \in {None} \cup [data : Data, version : Nat]
  BY DEF IInv, Placed, TypeOK, Data
<1> DEFINE data == IF copy[c] = None THEN Missing ELSE copy[c].data
<1>2. data \in Data
  BY <1>1 DEF Missing, Data
<1> HIDE DEF data
<1>3. CASE req[c].op = "save"
  <2>1. Edited(c) = [data EXCEPT ![KeyOf(req[c].path)] = req[c].content]
    BY <1>3 DEF Edited, data
  <2> QED
    BY <2>1, <1>1, <1>2, <1>3, Asked DEF Data
<1>4. CASE req[c].op = "delete"
  <2>1. Edited(c) = [data EXCEPT ![KeyOf(req[c].path)] = Absent]
    BY <1>4 DEF Edited, data
  <2> QED
    BY <2>1, <1>2 DEF Data
<1>5. CASE req[c].op = "rename"
  <2>1. Edited(c) = [data EXCEPT ![KeyOf(req[c].path)] = data[KeyOf(req[c].from)],
                                 ![KeyOf(req[c].from)] = Absent]
    BY <1>5 DEF Edited, data
  <2>2. KeyOf(req[c].from) \in Keys
    BY <1>1, <1>5, Asked, Pairs
  <2> QED
    BY <2>1, <2>2, <1>2 DEF Data
<1> QED
  BY <1>1, <1>3, <1>4, <1>5, Asked

-----------------------------------------------------------------------------
(* The invariant *)

LEMMA Initially == Init => IInv
<1> SUFFICES ASSUME Init PROVE IInv
  OBVIOUS
<1>1. log \in Seq(Entries) /\ lost \in Seq(Entries)
  BY EmptySeq DEF Init
<1>2. TypeOK
  BY K8sAssumption DEF Init, TypeOK
<1>3. \A c \in Clients : Placed(c)
  BY DEF Init, Placed
<1> QED
  BY <1>1, <1>2, <1>3 DEF IInv

LEMMA InvNext == IInv /\ [Next]_vars => IInv'
<1> SUFFICES ASSUME IInv, [Next]_vars PROVE IInv'
  OBVIOUS
<1>0. /\ cluster \in [Secrets -> {None} \cup Data] /\ version \in [Secrets -> Nat]
      /\ pc \in [Clients -> {"idle", "get", "put", "drop", "record"}]
      /\ req \in [Clients -> {None} \cup Requests]
      /\ copy \in [Clients -> {None} \cup [data : Data, version : Nat]]
      /\ action \in [Clients -> {None} \cup Made]
      /\ calls \in 0 .. MaxCalls
      /\ log \in Seq(Entries) /\ lost \in Seq(Entries)
      /\ \A c \in Clients : Placed(c)
  BY DEF IInv, TypeOK, Data, Made
\* What a step leaves alone of the other goroutines.
<1>1. ASSUME NEW c \in Clients, NEW d \in Clients, c # d,
             \E x : pc' = [pc EXCEPT ![c] = x], \E x : req' = [req EXCEPT ![c] = x],
             \E x : copy' = [copy EXCEPT ![c] = x],
             \E x : action' = [action EXCEPT ![c] = x]
      PROVE  Placed(d)'
  <2>1. pc'[d] = pc[d] /\ req'[d] = req[d] /\ copy'[d] = copy[d] /\ action'[d] = action[d]
    BY <1>0, <1>1
  <2>2. Placed(d)
    BY <1>0
  <2>3. Chosen(d)' <=> Chosen(d)
    BY <2>1 DEF Chosen, Had, S
  <2> QED
    BY <2>1, <2>2, <2>3 DEF Placed
<1>2. ASSUME NEW c \in Clients, Call(c) PROVE IInv'
  <2>1. PICK r \in Requests :
          /\ req' = [req EXCEPT ![c] = r]
          /\ pc' = [pc EXCEPT ![c] = IF KeyOf(r.path) = Whole THEN "drop" ELSE "get"]
    BY <1>2 DEF Call
  <2>2. /\ calls < MaxCalls /\ calls' = calls + 1 /\ pc[c] = "idle"
        /\ UNCHANGED <<cluster, version, copy, action, log, lost>>
    BY <1>2 DEF Call
  <2>3. calls' \in 0 .. MaxCalls
    BY <1>0, <2>2, K8sAssumption
  <2>4. TypeOK'
    BY <1>0, <2>1, <2>2, <2>3 DEF TypeOK, Data, Made
  <2>5. KeyOf(r.path) \in Keys \cup {Whole}
        /\ (KeyOf(r.path) = Whole => r.op = "delete")
    <3>1. r.path \in Places /\ r.op \in {"save", "delete", "rename"}
      BY Asked
    <3>2. r.op # "delete" => KeyOf(r.path) \in Keys
      BY <3>1, Asked, Pairs
    <3> QED
      BY <3>1, <3>2, K8sAssumption DEF Places, KeyOf
  <2>6. Placed(c)'
    BY <1>0, <2>1, <2>5 DEF Placed
  <2>7. \A d \in Clients : Placed(d)'
    <3> TAKE d \in Clients
    <3>1. copy' = [copy EXCEPT ![c] = copy[c]] /\ action' = [action EXCEPT ![c] = action[c]]
      BY <2>2, <1>0
    <3> QED
      BY <1>1, <2>1, <2>6, <3>1
  <2> QED
    BY <1>0, <2>2, <2>4, <2>7 DEF IInv
<1>3. ASSUME NEW c \in Clients, GetToSave(c) \/ GetToDelete(c) \/ GetToRename(c)
      PROVE  IInv'
  <2>1. PICK act \in Made : pc[c] = "get" /\ Intend(c, act)
    BY <1>3 DEF GetToSave, GetToDelete, GetToRename, Made
  <2>2. /\ copy' = [copy EXCEPT ![c] = Fetched(S(c))]
        /\ action' = [action EXCEPT ![c] = act] /\ pc' = [pc EXCEPT ![c] = "put"]
        /\ UNCHANGED <<cluster, version, req, log, lost, calls>>
    BY <2>1 DEF Intend
  <2>3. req[c] \in Requests /\ KeyOf(req[c].path) \in Keys /\ S(c) \in Secrets
    BY <1>0, <2>1, Asked, Pairs DEF Placed, S
  <2>4. Fetched(S(c)) \in {None} \cup [data : Data, version : Nat]
    BY <1>0, <2>3 DEF Fetched
  <2>5. TypeOK'
    BY <1>0, <2>2, <2>4 DEF TypeOK, Data, Made
  <2>6. Chosen(c)'
    <3>1. \A k \in Keys : Had(c, k)' <=> Holds(S(c), k)
      <4> TAKE k \in Keys
      <4>1. copy'[c] = Fetched(S(c))
        BY <1>0, <2>2
      <4>2. CASE cluster[S(c)] = None
        BY <4>1, <4>2 DEF Had, Holds, Fetched
      <4>3. CASE cluster[S(c)] # None
        <5>1. Fetched(S(c)) = [data |-> cluster[S(c)], version |-> version[S(c)]]
          BY <4>3 DEF Fetched
        <5>2. Fetched(S(c)) \in [data : Data, version : Nat]
          BY <5>1, <4>3, <1>0, <2>3
        <5>3. Fetched(S(c)) # None
          BY <5>2, K8sAssumption DEF Data
        <5> QED
          BY <5>1, <5>3, <4>1, <4>3 DEF Had, Holds
      <4> QED
        BY <4>2, <4>3
    <3>2. req'[c] = req[c] /\ action'[c] = act /\ S(c)' = S(c)
      BY <1>0, <2>2 DEF S
    <3>3. CASE GetToSave(c)
      <4>1. /\ req[c].op = "save"
            /\ Intend(c, IF Holds(S(c), KeyOf(req[c].path)) THEN "update" ELSE "create")
        BY <3>3 DEF GetToSave
      <4>2. action'[c] = IF Holds(S(c), KeyOf(req[c].path)) THEN "update" ELSE "create"
        BY <4>1, <1>0 DEF Intend
      <4> QED
        BY <4>1, <4>2, <3>1, <3>2, <2>3 DEF Chosen
    <3>4. CASE GetToDelete(c)
      <4>1. /\ req[c].op = "delete" /\ Holds(S(c), KeyOf(req[c].path))
            /\ Intend(c, "delete")
        BY <3>4 DEF GetToDelete
      <4>2. action'[c] = "delete"
        BY <4>1, <1>0 DEF Intend
      <4> QED
        BY <4>1, <4>2, <3>1, <3>2, <2>3 DEF Chosen
    <3>5. CASE GetToRename(c)
      <4>1. /\ req[c].op = "rename" /\ SecretOf(req[c].from) = S(c)
            /\ Holds(S(c), KeyOf(req[c].from)) /\ ~Holds(S(c), KeyOf(req[c].path))
            /\ Intend(c, "rename")
        BY <3>5 DEF GetToRename
      <4>2. action'[c] = "rename"
        BY <4>1, <1>0 DEF Intend
      <4>3. KeyOf(req[c].from) \in Keys
        BY <4>1, <2>3, Asked, Pairs
      <4> QED
        BY <4>1, <4>2, <4>3, <3>1, <3>2, <2>3 DEF Chosen
    <3> QED
      BY <1>3, <3>3, <3>4, <3>5
  <2>7. Placed(c)'
    BY <1>0, <2>2, <2>3, <2>6 DEF Placed
  <2>8. \A d \in Clients : Placed(d)'
    <3> TAKE d \in Clients
    <3>1. req' = [req EXCEPT ![c] = req[c]]
      BY <2>2, <1>0
    <3> QED
      BY <1>1, <2>2, <2>7, <3>1
  <2> QED
    BY <1>0, <2>2, <2>5, <2>8 DEF IInv
<1>4. ASSUME NEW c \in Clients, Update(c) \/ Drop(c) PROVE IInv'
  <2>1. /\ pc' = [pc EXCEPT ![c] = "record"] /\ pc[c] \in {"put", "drop"}
        /\ UNCHANGED <<req, copy, log, lost, calls>>
    BY <1>4 DEF Update, Drop
  <2>2. req[c] \in Requests /\ S(c) \in Secrets
    BY <1>0, <2>1, Asked, Pairs DEF Placed, S
  <2>3. /\ cluster' \in [Secrets -> {None} \cup Data] /\ version' \in [Secrets -> Nat]
        /\ action' \in [Clients -> {None} \cup Made] /\ action'[c] \in Made
        /\ \E x : action' = [action EXCEPT ![c] = x]
    <3>1. CASE Update(c)
      <4>1. /\ pc[c] = "put" /\ action' = action
            /\ cluster' = [cluster EXCEPT ![S(c)] = Edited(c)]
            /\ version' = [version EXCEPT ![S(c)] = @ + 1]
        BY <3>1 DEF Update, Put
      <4>2. Edited(c) \in Data
        BY <4>1, EditedType
      <4>3. action[c] \in Made
        BY <1>0, <4>1, <2>2, Asked DEF Placed, Chosen, Made
      <4>4. action' = [action EXCEPT ![c] = action[c]]
        BY <1>0, <4>1
      <4>5. cluster' \in [Secrets -> {None} \cup Data]
        BY <1>0, <4>1, <4>2
      <4>6. version' \in [Secrets -> Nat]
        BY <1>0, <4>1, <2>2
      <4>7. action' \in [Clients -> {None} \cup Made] /\ action'[c] \in Made
        BY <1>0, <4>1, <4>3
      <4> QED
        BY <4>4, <4>5, <4>6, <4>7
    <3>2. CASE Drop(c)
      <4>1. /\ cluster' = [cluster EXCEPT ![S(c)] = None] /\ version' = version
            /\ action' = [action EXCEPT ![c] = "delete"]
        BY <3>2 DEF Drop
      <4> QED
        BY <1>0, <4>1 DEF Made
    <3> QED
      BY <1>4, <3>1, <3>2
  <2>4. TypeOK'
    BY <1>0, <2>1, <2>3 DEF TypeOK, Data, Made
  <2>5. Placed(c)'
    BY <1>0, <2>1, <2>2, <2>3 DEF Placed
  <2>6. \A d \in Clients : Placed(d)'
    <3> TAKE d \in Clients
    <3>1. req' = [req EXCEPT ![c] = req[c]] /\ copy' = [copy EXCEPT ![c] = copy[c]]
      BY <2>1, <1>0
    <3> QED
      BY <1>1, <2>1, <2>3, <2>5, <3>1
  <2> QED
    BY <1>0, <2>1, <2>4, <2>6 DEF IInv
<1>5. ASSUME NEW c \in Clients, Error(c) \/ Record(c) \/ TimedOut(c) PROVE IInv'
  <2>1. /\ pc' = [pc EXCEPT ![c] = "idle"] /\ req' = [req EXCEPT ![c] = None]
        /\ copy' = [copy EXCEPT ![c] = None] /\ action' = [action EXCEPT ![c] = None]
        /\ UNCHANGED <<cluster, version, calls>>
    BY <1>5 DEF Error, Record, TimedOut, Finish
  <2>2. log' \in Seq(Entries) /\ lost' \in Seq(Entries)
    <3>1. CASE Error(c)
      BY <3>1, <1>0 DEF Error
    <3>2. CASE Record(c) \/ TimedOut(c)
      <4>1. pc[c] = "record" /\ log' \in {log, Append(log, EntryOf(c))}
            /\ lost' \in {lost, Append(lost, EntryOf(c))}
        BY <3>2 DEF Record, TimedOut
      <4>2. EntryOf(c) \in Entries
        BY <4>1, <1>0, EntryType DEF Placed
      <4>3. Append(log, EntryOf(c)) \in Seq(Entries) /\ Append(lost, EntryOf(c)) \in Seq(Entries)
        BY <4>2, <1>0, AppendProperties
      <4> QED
        BY <4>1, <4>3, <1>0
    <3> QED
      BY <1>5, <3>1, <3>2
  <2>3. TypeOK'
    BY <1>0, <2>1 DEF TypeOK, Data, Made
  <2>4. Placed(c)'
    BY <1>0, <2>1 DEF Placed
  <2>5. \A d \in Clients : Placed(d)'
    BY <1>1, <2>1, <2>4
  <2> QED
    BY <2>2, <2>3, <2>5 DEF IInv
<1>6. CASE UNCHANGED vars
  <2>1. UNCHANGED <<cluster, version, pc, req, copy, action, log, lost, calls>>
    BY <1>6 DEF vars
  <2> QED
    BY <2>1 DEF IInv, TypeOK, Placed, Chosen, Had, S
<1> QED
  BY <1>2, <1>3, <1>4, <1>5, <1>6 DEF Next

LEMMA Invariance == Spec => []IInv
BY Initially, InvNext, PTL DEF Spec

\* The variables of the engine keep their types, for any number of requests,
\* Secrets, keys and contents.
THEOREM TypeCorrect == Spec => []TypeOK
<1>1. IInv => TypeOK
  BY DEF IInv
<1> QED
  BY Invariance, <1>1, PTL
-----------------------------------------------------------------------------
(* What a step of the engine is in terms of the vault *)

Reqs == [c \in Clients |-> Abstract(req[c])]
Effects == [c \in Clients |-> IF pc[c] = "record" THEN EntryOf(c) ELSE None]

\* The request of the contract that stands for one of the engine.
LEMMA Abstracted ==
    ASSUME NEW r \in Requests
    PROVE  /\ Abstract(r) # None /\ Abstract(r).op = r.op /\ Abstract(r).path = r.path
           /\ r.op = "save" => Abstract(r).content = r.content
           /\ r.op = "rename" => Abstract(r).from = r.from
           /\ r.op = "delete" => Abstract(r).gone = Gone(r) /\ Gone(r) \in SUBSET Paths
<1>1. r # None
  BY K8sAssumption
<1>2. CASE r.op = "delete"
  <2>1. Abstract(r) = [op |-> "delete", path |-> r.path, gone |-> Gone(r)]
    BY <1>1, <1>2 DEF Abstract
  <2>2. r.path \in Places
    BY Asked
  <2>3. Gone(r) \in SUBSET Paths
    <3>1. CASE KeyOf(r.path) = Whole
      BY <2>2, <3>1, Pairs DEF Gone, Paths
    <3>2. CASE KeyOf(r.path) # Whole
      <4>1. KeyOf(r.path) \in Keys
        BY <2>2, <3>2 DEF Places, KeyOf
      <4> QED
        BY <4>1, <2>2, <3>2, Pairs DEF Gone
    <3> QED
      BY <3>1, <3>2
  <2>4. Abstract(r) \in [op : {"delete"}, path : Places, gone : SUBSET Paths]
    BY <2>1, <2>2, <2>3
  <2>5. Abstract(r) # None
    BY <2>4, K8sAssumption
  <2> QED
    BY <2>1, <2>3, <2>5, <1>2
<1>3. CASE r.op # "delete"
  BY <1>1, <1>3 DEF Abstract
<1> QED
  BY <1>2, <1>3

LEMMA Holding ==
    ASSUME IInv, NEW s \in Secrets, NEW k \in Keys
    PROVE  /\ Stored[<<s, k>>] = IF cluster[s] = None THEN Absent ELSE cluster[s][k]
           /\ Holds(s, k) <=> Stored[<<s, k>>] # Absent
<1>1. <<s, k>> \in Paths /\ <<s, k>>[1] = s /\ <<s, k>>[2] = k
  BY Pairs DEF SecretOf, KeyOf
<1>2. Stored[<<s, k>>] = IF cluster[s] = None THEN Absent ELSE cluster[s][k]
  BY <1>1 DEF Stored
<1> QED
  BY <1>2 DEF Holds

\* A write replaces the notes of one Secret and no other.
LEMMA Written ==
    ASSUME IInv, NEW s \in Secrets, NEW data \in {None} \cup Data,
           cluster' = [cluster EXCEPT ![s] = data]
    PROVE  /\ Stored' \in [Paths -> Contents \cup {Absent}]
           /\ \A p \in Paths : Stored'[p] =
                IF SecretOf(p) # s THEN Stored[p]
                ELSE IF data = None THEN Absent ELSE data[KeyOf(p)]
<1>0. cluster \in [Secrets -> {None} \cup Data]
  BY DEF IInv, TypeOK, Data
<1>1. ASSUME NEW p \in Paths
      PROVE  Stored'[p] = IF SecretOf(p) # s THEN Stored[p]
                          ELSE IF data = None THEN Absent ELSE data[KeyOf(p)]
  <2>1. p[1] \in Secrets /\ p[2] \in Keys
    BY Pairs DEF SecretOf, KeyOf
  <2>2. /\ Stored'[p] = IF cluster'[p[1]] = None THEN Absent ELSE cluster'[p[1]][p[2]]
        /\ Stored[p] = IF cluster[p[1]] = None THEN Absent ELSE cluster[p[1]][p[2]]
    BY DEF Stored
  <2> QED
    BY <1>0, <2>1, <2>2 DEF SecretOf, KeyOf
<1>2. \A p \in Paths : Stored[p] \in Contents \cup {Absent}
  <2> TAKE p \in Paths
  <2>1. p[1] \in Secrets /\ p[2] \in Keys
    BY Pairs DEF SecretOf, KeyOf
  <2>2. cluster[p[1]] # None => cluster[p[1]][p[2]] \in Contents \cup {Absent}
    BY <2>1, <1>0 DEF Data
  <2> QED
    BY <2>2 DEF Stored
<1>3. \A p \in Paths : Stored'[p] \in Contents \cup {Absent}
  <2> TAKE p \in Paths
  <2>1. KeyOf(p) \in Keys
    BY Pairs
  <2>2. data # None => data[KeyOf(p)] \in Contents \cup {Absent}
    BY <2>1 DEF Data
  <2> QED
    BY <1>1, <1>2, <2>2
<1>4. Stored' = [p \in Paths |-> Stored'[p]]
  BY DEF Stored
<1> QED
  BY <1>1, <1>3, <1>4

\* What c holds a copy of is what the vault holds when the write is accepted.
LEMMA Current ==
    ASSUME IInv, NEW c \in Clients, pc[c] = "put", Accepts(S(c), copy[c])
    PROVE  /\ req[c] \in Requests /\ S(c) \in Secrets
           /\ \A k \in Keys :
                /\ (IF copy[c] = None THEN Missing ELSE copy[c].data)[k] = Stored[<<S(c), k>>]
                /\ Had(c, k) <=> Stored[<<S(c), k>>] # Absent
<1>0. /\ cluster \in [Secrets -> {None} \cup Data] /\ version \in [Secrets -> Nat]
      /\ Placed(c)
  BY DEF IInv, TypeOK, Data
<1>1. req[c] \in Requests /\ S(c) \in Secrets
  BY <1>0, Asked, Pairs DEF Placed, S
<1>2. CASE cluster[S(c)] = None
  <2>1. copy[c] = None
    BY <1>2 DEF Accepts, Fetched
  <2>2. \A k \in Keys : Stored[<<S(c), k>>] = Absent
    BY <1>1, <1>2, Holding
  <2> QED
    BY <1>1, <2>1, <2>2 DEF Missing, Had
<1>3. CASE cluster[S(c)] # None
  <2>1. copy[c] = [data |-> cluster[S(c)], version |-> version[S(c)]]
    BY <1>3 DEF Accepts, Fetched
  <2>2. copy[c] \in [data : Data, version : Nat]
    BY <2>1, <1>3, <1>0, <1>1
  <2>3. copy[c] # None
    BY <2>2, K8sAssumption DEF Data
  <2>4. \A k \in Keys : Stored[<<S(c), k>>] = cluster[S(c)][k]
    BY <1>1, <1>3, Holding
  <2> QED
    BY <1>1, <2>1, <2>3, <2>4 DEF Had
<1> QED
  BY <1>2, <1>3

\* A write is the change its request asks for, made to the vault as it is at
\* that moment, and the action to be recorded is the one that happens.
LEMMA UpdateIsTheChange ==
    ASSUME IInv, NEW c \in Clients, Update(c)
    PROVE  LET r == req[c] IN
           /\ r \in Requests /\ r.path \in Paths /\ action[c] \in Made
           /\ r.op = "save" =>
                /\ Stored' = [Stored EXCEPT ![r.path] = r.content]
                /\ action[c] = IF Stored[r.path] = Absent THEN "create" ELSE "update"
           /\ r.op = "delete" =>
                /\ Stored' = [Stored EXCEPT ![r.path] = Absent]
                /\ action[c] = "delete" /\ Stored[r.path] # Absent
           /\ r.op = "rename" =>
                /\ Stored' = [Stored EXCEPT ![r.path] = Stored[r.from], ![r.from] = Absent]
                /\ action[c] = "rename"
                /\ Stored[r.from] # Absent /\ Stored[r.path] = Absent
<1> DEFINE r == req[c]
           key == KeyOf(r.path)
           data == IF copy[c] = None THEN Missing ELSE copy[c].data
<1>1. /\ pc[c] = "put" /\ Accepts(S(c), copy[c])
      /\ cluster' = [cluster EXCEPT ![S(c)] = Edited(c)]
  BY DEF Update, Put
<1>2. r \in Requests /\ S(c) \in Secrets /\ key \in Keys /\ Chosen(c)
  BY <1>1, Current DEF IInv, Placed
<1>3. \A k \in Keys : /\ data[k] = Stored[<<S(c), k>>]
                      /\ Had(c, k) <=> Stored[<<S(c), k>>] # Absent
  BY <1>1, Current
<1>4. Edited(c) \in Data /\ Edited(c) # None
  BY <1>1, EditedType, K8sAssumption DEF Data
<1>5. /\ Stored' \in [Paths -> Contents \cup {Absent}]
      /\ \A p \in Paths : Stored'[p] =
           IF SecretOf(p) # S(c) THEN Stored[p] ELSE Edited(c)[KeyOf(p)]
  BY <1>1, <1>2, <1>4, Written
<1>6. r.path \in Paths /\ r.path = <<S(c), key>>
  BY <1>2, Asked, Pairs DEF S
<1>7. Stored = [p \in Paths |-> Stored[p]] /\ DOMAIN Stored = Paths
  BY DEF Stored
<1>8. data \in Data
  BY DEF IInv, TypeOK, Data, Missing
<1>9. ASSUME NEW p \in Paths, SecretOf(p) = S(c)
      PROVE  KeyOf(p) \in Keys /\ p = <<S(c), KeyOf(p)>> /\ data[KeyOf(p)] = Stored[p]
  BY <1>3, <1>9, Pairs
<1>10. CASE r.op = "save"
  <2>1. Edited(c) = [data EXCEPT ![key] = r.content]
    BY <1>10 DEF Edited
  <2>2. r.content \in Contents
    BY <1>2, <1>10, Asked
  <2> HIDE DEF data, r
  <2>3. ASSUME NEW p \in Paths
        PROVE  Stored'[p] = IF p = r.path THEN r.content ELSE Stored[p]
    <3>1. CASE p = r.path
      <4>1. SecretOf(p) = S(c) /\ KeyOf(p) = key
        BY <3>1, <1>2, <1>6, Pairs DEF key
      <4>2. Edited(c)[key] = r.content
        BY <2>1, <1>2, <1>8 DEF Data
      <4> QED
        BY <3>1, <4>1, <4>2, <1>5
    <3>2. CASE p # r.path /\ SecretOf(p) = S(c)
      <4>1. KeyOf(p) \in Keys /\ KeyOf(p) # key /\ data[KeyOf(p)] = Stored[p]
        BY <3>2, <1>6, <1>9
      <4>2. Edited(c)[KeyOf(p)] = data[KeyOf(p)]
        BY <4>1, <2>1, <1>8 DEF Data
      <4> QED
        BY <3>2, <4>1, <4>2, <1>5
    <3>3. CASE SecretOf(p) # S(c)
      BY <3>3, <1>2, <1>5, <1>6, Pairs
    <3> QED
      BY <3>1, <3>2, <3>3
  <2>4. Stored' = [Stored EXCEPT ![r.path] = r.content]
    BY <2>3, <1>5, <1>7
  <2>5. action[c] = IF Stored[r.path] = Absent THEN "create" ELSE "update"
    BY <1>2, <1>3, <1>6, <1>10 DEF Chosen, r
  <2> QED
    BY <2>4, <2>5, <1>2, <1>6, <1>10 DEF Made, r
<1>11. CASE r.op = "delete"
  <2>1. Edited(c) = [data EXCEPT ![key] = Absent]
    BY <1>11 DEF Edited
  <2> HIDE DEF data, r
  <2>2. ASSUME NEW p \in Paths
        PROVE  Stored'[p] = IF p = r.path THEN Absent ELSE Stored[p]
    <3>1. CASE p = r.path
      <4>1. SecretOf(p) = S(c) /\ KeyOf(p) = key
        BY <3>1, <1>2, <1>6, Pairs DEF key
      <4>2. Edited(c)[key] = Absent
        BY <2>1, <1>2, <1>8 DEF Data
      <4> QED
        BY <3>1, <4>1, <4>2, <1>5
    <3>2. CASE p # r.path /\ SecretOf(p) = S(c)
      <4>1. KeyOf(p) \in Keys /\ KeyOf(p) # key /\ data[KeyOf(p)] = Stored[p]
        BY <3>2, <1>6, <1>9
      <4>2. Edited(c)[KeyOf(p)] = data[KeyOf(p)]
        BY <4>1, <2>1, <1>8 DEF Data
      <4> QED
        BY <3>2, <4>1, <4>2, <1>5
    <3>3. CASE SecretOf(p) # S(c)
      BY <3>3, <1>2, <1>5, <1>6, Pairs
    <3> QED
      BY <3>1, <3>2, <3>3
  <2>3. Stored' = [Stored EXCEPT ![r.path] = Absent]
    BY <2>2, <1>5, <1>7
  <2>4. action[c] = "delete" /\ Stored[r.path] # Absent
    BY <1>2, <1>3, <1>6, <1>11 DEF Chosen, r
  <2> QED
    BY <2>3, <2>4, <1>2, <1>6, <1>11 DEF Made, r
<1>12. CASE r.op = "rename"
  <2> DEFINE old == KeyOf(r.from)
  <2>1. Edited(c) = [data EXCEPT ![key] = data[old], ![old] = Absent]
    BY <1>12 DEF Edited
  <2>2. /\ r.from \in Paths /\ old \in Keys /\ r.from = <<S(c), old>>
        /\ SecretOf(r.from) = S(c)
    BY <1>2, <1>12, Asked, Pairs DEF Chosen
  <2>3. action[c] = "rename" /\ Stored[r.from] # Absent /\ Stored[r.path] = Absent
    BY <1>2, <1>3, <1>6, <2>2, <1>12 DEF Chosen
  <2> HIDE DEF data, r
  <2>4. key # old
    BY <2>2, <2>3, <1>6
  <2>5. ASSUME NEW p \in Paths
        PROVE  Stored'[p] = IF p = r.from THEN Absent
                            ELSE IF p = r.path THEN Stored[r.from] ELSE Stored[p]
    <3>1. CASE p = r.from
      <4>1. Edited(c)[old] = Absent
        BY <2>1, <2>2, <1>8 DEF Data
      <4> QED
        BY <3>1, <4>1, <2>2, <1>5
    <3>2. CASE p = r.path
      <4>1. SecretOf(p) = S(c) /\ KeyOf(p) = key
        BY <3>2, <1>2, <1>6, Pairs DEF key
      <4>2. Edited(c)[key] = data[old]
        BY <2>1, <2>2, <2>4, <1>2, <1>8 DEF Data
      <4>3. data[old] = Stored[r.from]
        BY <1>3, <2>2
      <4>4. p # r.from
        BY <3>2, <2>3
      <4> QED
        BY <3>2, <4>1, <4>2, <4>3, <4>4, <1>5
    <3>3. CASE p # r.path /\ p # r.from /\ SecretOf(p) = S(c)
      <4>1. KeyOf(p) \in Keys /\ KeyOf(p) # key /\ data[KeyOf(p)] = Stored[p]
        BY <3>3, <1>6, <1>9
      <4>2. KeyOf(p) # old
        BY <3>3, <2>2, <1>9
      <4>3. Edited(c)[KeyOf(p)] = data[KeyOf(p)]
        BY <4>1, <4>2, <2>1, <1>8 DEF Data
      <4> QED
        BY <3>3, <4>1, <4>3, <1>5
    <3>4. CASE SecretOf(p) # S(c)
      BY <3>4, <1>2, <1>5, <1>6, <2>2, Pairs
    <3> QED
      BY <3>1, <3>2, <3>3, <3>4
  <2>6. Stored' = [Stored EXCEPT ![r.path] = Stored[r.from], ![r.from] = Absent]
    BY <2>2, <2>5, <1>5, <1>6, <1>7
  <2> QED
    BY <2>2, <2>3, <2>6, <1>2, <1>6, <1>12 DEF Made, r
<1> QED
  BY <1>2, <1>10, <1>11, <1>12, Asked
\* Dropping a Secret removes every note in it at once.
LEMMA DropIsTheChange ==
    ASSUME IInv, NEW c \in Clients, Drop(c)
    PROVE  LET r == req[c] IN
           /\ r \in Requests /\ r.op = "delete" /\ r.path \in Places \ Paths
           /\ Gone(r) = {p \in Paths : SecretOf(p) = S(c)}
           /\ Stored' = [p \in Paths |-> IF p \in Gone(r) THEN Absent ELSE Stored[p]]
<1> DEFINE r == req[c]
<1>1. pc[c] = "drop" /\ cluster' = [cluster EXCEPT ![S(c)] = None]
  BY DEF Drop
<1>2. r \in Requests /\ r.op = "delete" /\ KeyOf(r.path) = Whole
  BY <1>1 DEF IInv, Placed
<1>3. S(c) \in Secrets /\ r.path \in Places \ Paths
  BY <1>2, Asked, Pairs, K8sAssumption DEF S
<1>4. Gone(r) = {p \in Paths : SecretOf(p) = S(c)}
  <2>1. Gone(r) = {S(c)} \X Keys
    BY <1>2 DEF Gone, S
  <2>2. \A p \in Paths : SecretOf(p) = S(c) => p \in {S(c)} \X Keys
    BY DEF Paths, SecretOf
  <2>3. \A p \in {S(c)} \X Keys : p \in Paths /\ SecretOf(p) = S(c)
    BY <1>3 DEF Paths, SecretOf
  <2> QED
    BY <2>1, <2>2, <2>3
<1>5. /\ Stored' \in [Paths -> Contents \cup {Absent}]
      /\ \A p \in Paths : Stored'[p] = IF SecretOf(p) # S(c) THEN Stored[p] ELSE Absent
  BY <1>1, <1>3, Written
<1>6. Stored' = [p \in Paths |-> IF p \in Gone(r) THEN Absent ELSE Stored[p]]
  BY <1>4, <1>5
<1> QED
  BY <1>2, <1>3, <1>4, <1>6

\* How requests and effects of the contract change when those of c do.
LEMMA Mapped ==
    ASSUME IInv, NEW c \in Clients, IInv',
           \E x : pc' = [pc EXCEPT ![c] = x], \E x : req' = [req EXCEPT ![c] = x],
           \E x : action' = [action EXCEPT ![c] = x]
    PROVE  /\ Reqs' = [Reqs EXCEPT ![c] = Abstract(req'[c])]
           /\ Effects' = [Effects EXCEPT ![c] = IF pc'[c] = "record" THEN EntryOf(c)' ELSE None]
<1>1. \A d \in Clients : d # c => pc'[d] = pc[d] /\ req'[d] = req[d] /\ action'[d] = action[d]
  BY DEF IInv, TypeOK
<1>2. \A d \in Clients : d # c => EntryOf(d)' = EntryOf(d)
  BY <1>1 DEF EntryOf
<1>3. Reqs' = [Reqs EXCEPT ![c] = Abstract(req'[c])]
  <2>1. Reqs' = [d \in Clients |-> Abstract(req'[d])]
    BY DEF Reqs, Abstract, Gone, KeyOf, SecretOf
  <2> QED
    BY <1>1, <2>1 DEF Reqs
<1>4. Effects' = [Effects EXCEPT ![c] = IF pc'[c] = "record" THEN EntryOf(c)' ELSE None]
  BY <1>1, <1>2 DEF Effects
<1> QED
  BY <1>3, <1>4

LEMMA Simulation == IInv /\ IInv' /\ [Next]_vars => [V!Next]_(V!vars)
<1> SUFFICES ASSUME IInv, IInv', [Next]_vars PROVE [V!Next]_(V!vars)
  OBVIOUS
<1>0. /\ pc \in [Clients -> {"idle", "get", "put", "drop", "record"}]
      /\ req \in [Clients -> {None} \cup Requests]
      /\ action \in [Clients -> {None} \cup Made]
      /\ \A c \in Clients : Placed(c)
  BY DEF IInv, TypeOK, Made
<1>a. \A c \in Clients : Reqs[c] = Abstract(req[c])
                         /\ Effects[c] = IF pc[c] = "record" THEN EntryOf(c) ELSE None
  BY DEF Reqs, Effects
<1>b. \A c \in Clients : pc[c] # "idle" => req[c] \in Requests /\ Reqs[c] # None
  BY <1>0, <1>a, Abstracted DEF Placed
<1>1. ASSUME NEW c \in Clients, Call(c) PROVE V!Call(c)
  <2>1. PICK r \in Requests : req' = [req EXCEPT ![c] = r]
    BY <1>1 DEF Call
  <2>2. /\ pc[c] = "idle" /\ calls < MaxCalls /\ calls' = calls + 1
        /\ UNCHANGED <<cluster, action, log, lost>>
        /\ \E x \in {"drop", "get"} : pc' = [pc EXCEPT ![c] = x]
    BY <1>1 DEF Call
  <2>3. Reqs' = [Reqs EXCEPT ![c] = Abstract(r)] /\ Effects' = Effects
    <3>1. action' = [action EXCEPT ![c] = action[c]]
      BY <1>0, <2>2
    <3>2. Reqs' = [Reqs EXCEPT ![c] = Abstract(req'[c])]
          /\ Effects' = [Effects EXCEPT ![c] = IF pc'[c] = "record" THEN EntryOf(c)' ELSE None]
      BY <2>1, <2>2, <3>1, Mapped
    <3>3. req'[c] = r /\ pc'[c] # "record"
      BY <1>0, <2>1, <2>2
    <3>4. Effects[c] = None
      BY <1>a, <2>2
    <3> QED
      BY <3>2, <3>3, <3>4 DEF Effects
  <2>4. Reqs[c] = None
    BY <1>0, <1>a, <2>2 DEF Placed, Abstract
  <2>5. Stored' = Stored
    BY <2>2 DEF Stored
  <2>6. \E x \in {Abstract(q) : q \in Requests} : Reqs' = [Reqs EXCEPT ![c] = x]
    BY <2>3
  <2> QED
    BY <2>2, <2>3, <2>4, <2>5, <2>6 DEF V!Call, Reqs, Effects
<1>2. ASSUME NEW c \in Clients, GetToSave(c) \/ GetToDelete(c) \/ GetToRename(c)
      PROVE  UNCHANGED V!vars
  <2>1. PICK act : pc[c] = "get" /\ Intend(c, act)
    BY <1>2 DEF GetToSave, GetToDelete, GetToRename
  <2>2. /\ action' = [action EXCEPT ![c] = act] /\ pc' = [pc EXCEPT ![c] = "put"]
        /\ UNCHANGED <<cluster, req, log, lost, calls>>
    BY <2>1 DEF Intend
  <2>3. req' = [req EXCEPT ![c] = req[c]]
    BY <1>0, <2>2
  <2>4. Reqs' = [Reqs EXCEPT ![c] = Abstract(req'[c])]
        /\ Effects' = [Effects EXCEPT ![c] = IF pc'[c] = "record" THEN EntryOf(c)' ELSE None]
    BY <2>2, <2>3, Mapped
  <2>5. Reqs' = Reqs /\ Effects' = Effects
    <3>1. req'[c] = req[c] /\ pc'[c] # "record" /\ Effects[c] = None
      BY <1>0, <1>a, <2>1, <2>2
    <3> QED
      BY <3>1, <2>4 DEF Reqs, Effects
  <2>6. Stored' = Stored
    BY <2>2 DEF Stored
  <2> QED
    BY <2>2, <2>5, <2>6 DEF V!vars, Reqs, Effects
<1>3. ASSUME NEW c \in Clients, Update(c) PROVE V!Save(c) \/ V!Delete(c) \/ V!Rename(c)
  <2>1. /\ pc[c] = "put" /\ pc' = [pc EXCEPT ![c] = "record"]
        /\ UNCHANGED <<req, action, log, lost, calls>>
    BY <1>3 DEF Update
  <2>2. req' = [req EXCEPT ![c] = req[c]] /\ action' = [action EXCEPT ![c] = action[c]]
    BY <1>0, <2>1
  <2>3. Reqs' = Reqs /\ Effects' = [Effects EXCEPT ![c] = EntryOf(c)]
    <3>1. Reqs' = [Reqs EXCEPT ![c] = Abstract(req'[c])]
          /\ Effects' = [Effects EXCEPT ![c] = IF pc'[c] = "record" THEN EntryOf(c)' ELSE None]
      BY <2>1, <2>2, Mapped
    <3>2. req'[c] = req[c] /\ pc'[c] = "record" /\ EntryOf(c)' = EntryOf(c)
      BY <1>0, <2>1 DEF EntryOf
    <3> QED
      BY <3>1, <3>2 DEF Reqs
  <2>4. Reqs[c] # None /\ Reqs[c].op = req[c].op /\ Reqs[c].path = req[c].path
        /\ Effects[c] = None /\ req[c] \in Requests
    BY <1>a, <1>b, <2>1, Abstracted
  <2>5. CASE req[c].op = "save"
    <3>1. /\ Stored' = [Stored EXCEPT ![Reqs[c].path] = Reqs[c].content]
          /\ action[c] = IF Stored[Reqs[c].path] = Absent THEN "create" ELSE "update"
      BY <1>3, <1>a, <2>4, <2>5, UpdateIsTheChange, Abstracted
    <3>2. Effects' = [Effects EXCEPT ![c] = V!Entry(
              IF Stored[Reqs[c].path] = Absent THEN "create" ELSE "update", Reqs[c].path, None)]
      BY <2>3, <2>4, <2>5, <3>1 DEF EntryOf, Entry, V!Entry
    <3> QED
      BY <2>1, <2>3, <2>4, <2>5, <3>1, <3>2 DEF V!Save, V!Asked, Reqs, Effects
  <2>6. CASE req[c].op = "delete"
    <3>1. Stored[Reqs[c].path] # Absent /\ action[c] = "delete"
          /\ Stored' = [Stored EXCEPT ![Reqs[c].path] = Absent]
      BY <1>3, <1>a, <2>4, <2>6, UpdateIsTheChange, Abstracted
    <3>2. Reqs[c].gone = {Reqs[c].path}
      <4>1. Reqs[c].gone = Gone(req[c])
        BY <1>a, <2>4, <2>6, Abstracted
      <4>2. KeyOf(req[c].path) # Whole
        BY <1>0, <2>1, K8sAssumption DEF Placed
      <4> QED
        BY <4>1, <4>2, <2>4 DEF Gone
    <3>3. Stored' = [p \in Paths |-> IF p \in Reqs[c].gone THEN Absent ELSE Stored[p]]
      BY <3>1, <3>2 DEF Stored
    <3>4. Effects' = [Effects EXCEPT ![c] = V!Entry("delete", Reqs[c].path, None)]
      BY <2>3, <2>4, <2>6, <3>1 DEF EntryOf, Entry, V!Entry
    <3> QED
      BY <2>1, <2>3, <2>4, <2>6, <3>1, <3>3, <3>4 DEF V!Delete, V!Asked, Reqs, Effects
  <2>7. CASE req[c].op = "rename"
    <3>1. /\ Stored[Reqs[c].from] # Absent /\ Stored[Reqs[c].path] = Absent
          /\ action[c] = "rename"
          /\ Stored' = [Stored EXCEPT ![Reqs[c].path] = Stored[Reqs[c].from],
                                      ![Reqs[c].from] = Absent]
      BY <1>3, <1>a, <2>4, <2>7, UpdateIsTheChange, Abstracted
    <3>2. Effects' = [Effects EXCEPT ![c] = V!Entry("rename", Reqs[c].path, Reqs[c].from)]
      <4>1. Reqs[c].from = req[c].from
        BY <1>a, <2>4, <2>7, Abstracted
      <4> QED
        BY <4>1, <2>3, <2>4, <2>7, <3>1 DEF EntryOf, Entry, V!Entry
    <3> QED
      BY <2>1, <2>3, <2>4, <2>7, <3>1, <3>2 DEF V!Rename, V!Asked, Reqs, Effects
  <2> QED
    BY <2>4, <2>5, <2>6, <2>7, Asked
<1>4. ASSUME NEW c \in Clients, Drop(c) PROVE V!Delete(c)
  <2>1. /\ pc[c] = "drop" /\ pc' = [pc EXCEPT ![c] = "record"]
        /\ action' = [action EXCEPT ![c] = "delete"]
        /\ UNCHANGED <<req, log, lost, calls>>
    BY <1>4 DEF Drop
  <2>2. /\ req[c] \in Requests /\ req[c].op = "delete" /\ req[c].path \in Places \ Paths
        /\ Stored' = [p \in Paths |-> IF p \in Gone(req[c]) THEN Absent ELSE Stored[p]]
    BY <1>4, DropIsTheChange
  <2>3. Reqs' = Reqs /\ Effects' = [Effects EXCEPT ![c] = V!Entry("delete", req[c].path, None)]
    <3>1. req' = [req EXCEPT ![c] = req[c]]
      BY <1>0, <2>1
    <3>2. Reqs' = [Reqs EXCEPT ![c] = Abstract(req'[c])]
          /\ Effects' = [Effects EXCEPT ![c] = IF pc'[c] = "record" THEN EntryOf(c)' ELSE None]
      BY <2>1, <3>1, Mapped
    <3>3. req'[c] = req[c] /\ pc'[c] = "record" /\ action'[c] = "delete"
      BY <1>0, <2>1
    <3>4. EntryOf(c)' = V!Entry("delete", req[c].path, None)
      BY <2>2, <3>3 DEF EntryOf, Entry, V!Entry
    <3> QED
      BY <3>2, <3>3, <3>4 DEF Reqs
  <2>4. Reqs[c] # None /\ Reqs[c].op = "delete" /\ Reqs[c].path = req[c].path
        /\ Reqs[c].gone = Gone(req[c]) /\ Effects[c] = None
    BY <1>a, <1>b, <2>1, <2>2, Abstracted
  <2>5. Reqs[c].path \in Paths => Stored[Reqs[c].path] # Absent
    BY <2>2, <2>4
  <2>6. /\ Stored' = [p \in Paths |-> IF p \in Reqs[c].gone THEN Absent ELSE Stored[p]]
        /\ Effects' = [Effects EXCEPT ![c] = V!Entry("delete", Reqs[c].path, None)]
    BY <2>2, <2>3, <2>4
  <2> QED
    BY <2>1, <2>3, <2>4, <2>5, <2>6 DEF V!Delete, V!Asked, Reqs, Effects
<1>5. ASSUME NEW c \in Clients, Error(c) \/ Record(c) \/ TimedOut(c)
      PROVE  V!Reject(c) \/ V!Record(c) \/ V!Lose(c)
  <2>1. /\ pc' = [pc EXCEPT ![c] = "idle"] /\ req' = [req EXCEPT ![c] = None]
        /\ action' = [action EXCEPT ![c] = None] /\ pc[c] # "idle"
        /\ UNCHANGED <<cluster, calls>>
    BY <1>5 DEF Error, Record, TimedOut, Finish
  <2>2. Reqs' = [Reqs EXCEPT ![c] = None] /\ Effects' = [Effects EXCEPT ![c] = None]
    <3>1. Reqs' = [Reqs EXCEPT ![c] = Abstract(req'[c])]
          /\ Effects' = [Effects EXCEPT ![c] = IF pc'[c] = "record" THEN EntryOf(c)' ELSE None]
      BY <2>1, Mapped
    <3>2. req'[c] = None /\ pc'[c] # "record"
      BY <1>0, <2>1
    <3> QED
      BY <3>1, <3>2 DEF Abstract
  <2>3. Stored' = Stored /\ Reqs[c] # None
    BY <2>1, <1>b DEF Stored
  <2>4. CASE Error(c)
    <3>1. pc[c] # "record" /\ log' = log /\ lost' = lost
      BY <2>4 DEF Error
    <3>2. Effects[c] = None /\ Effects' = Effects
      BY <3>1, <2>2, <1>a DEF Effects
    <3> QED
      BY <2>1, <2>2, <2>3, <3>1, <3>2 DEF V!Reject, Reqs, Effects
  <2>5. CASE Record(c) \/ TimedOut(c)
    <3>1. pc[c] = "record" /\ req[c] \in Requests /\ action[c] \in Made
      BY <2>5, <1>0 DEF Record, TimedOut, Placed
    <3>2. Effects[c] = EntryOf(c) /\ Effects[c] # None
      BY <3>1, <1>a, EntryType
    <3>3. CASE Record(c)
      <4>1. log' = Append(log, Effects[c]) /\ lost' = lost
        BY <3>2, <3>3 DEF Record
      <4>2. Reqs[c].op = "save" => Stored[Reqs[c].path] # Partial
        <5>1. Reqs[c].op = req[c].op /\ Reqs[c].path = req[c].path
          BY <3>1, <1>a, Abstracted
        <5>2. \A p \in Paths : Stored[p] \in Contents \cup {Absent}
          <6> TAKE p \in Paths
          <6>1. p[1] \in Secrets /\ p[2] \in Keys
            BY Pairs DEF SecretOf, KeyOf
          <6>2. cluster[p[1]] # None => cluster[p[1]][p[2]] \in Contents \cup {Absent}
            BY <6>1 DEF IInv, TypeOK
          <6> QED
            BY <6>2 DEF Stored
        <5> QED
          BY <5>1, <5>2, <3>1, Asked, K8sAssumption, ZenonT(60)
      <4> QED
        BY <2>1, <2>2, <2>3, <3>2, <4>1, <4>2 DEF V!Record, Reqs, Effects
    <3>4. CASE TimedOut(c)
      <4>1. lost' = Append(lost, Effects[c]) /\ log' = log
        BY <3>2, <3>4 DEF TimedOut
      <4> QED
        BY <2>1, <2>2, <2>3, <3>2, <4>1 DEF V!Lose, Reqs, Effects
    <3> QED
      BY <2>5, <3>3, <3>4
  <2> QED
    BY <1>5, <2>4, <2>5
<1>6. CASE UNCHANGED vars
  <2>1. UNCHANGED <<cluster, pc, req, action, log, lost, calls>>
    BY <1>6 DEF vars
  <2>2. Stored' = Stored /\ Reqs' = Reqs /\ Effects' = Effects
    BY <2>1 DEF Stored, Reqs, Effects, EntryOf
  <2> QED
    BY <2>1, <2>2 DEF V!vars, Reqs, Effects
<1> QED
  BY <1>1, <1>2, <1>3, <1>4, <1>5, <1>6 DEF Next, V!Next

LEMMA InitialVault == Init => V!Init
<1> SUFFICES ASSUME Init PROVE V!Init
  OBVIOUS
<1>1. Stored = [p \in Paths |-> Absent]
  BY Pairs DEF Init, Stored, SecretOf
<1>2. Reqs = [c \in Clients |-> None] /\ Effects = [c \in Clients |-> None]
  BY DEF Init, Reqs, Effects, Abstract
<1> QED
  BY <1>1, <1>2 DEF Init, V!Init, Reqs, Effects

\* Get, edit and write back are one atomic change of the vault, made and
\* recorded as the contract describes it, however many requests edit however
\* many Secrets at once (k8s.go:123-244).
THEOREM Refinement == Spec => ImplementsVault
<1>1. Spec => V!Spec
  BY Invariance, Simulation, InitialVault, PTL DEF Spec, V!Spec
<1> QED
  BY <1>1 DEF ImplementsVault
-----------------------------------------------------------------------------
(* The audit trail *)

Hits(s, X) == {i \in DOMAIN s : s[i] \in X}
Pending(X) == {c \in Clients : pc[c] = "record" /\ EntryOf(c) \in X}

\* Entries of X recorded, lost, or about to be recorded.
Tally(X) == Cardinality(Hits(log, X)) + Cardinality(Hits(lost, X))
            + Cardinality(Pending(X))

AddsTo(p) == {e \in Entries : V!Adds(e, p)}
RemovesFrom(p) == {e \in Entries : V!Removes(e, p)}
SweepsOver(p) == {e \in Entries : V!Sweeps(e, p)}

Books == \A p \in Paths : Tally(SweepsOver(p)) = 0 =>
    Tally(AddsTo(p)) = Tally(RemovesFrom(p)) + IF Stored[p] = Absent THEN 0 ELSE 1

LEMMA HitsFinite ==
    ASSUME NEW s \in Seq(Entries), NEW X
    PROVE  IsFiniteSet(Hits(s, X)) /\ Cardinality(Hits(s, X)) \in Nat
<1>1. Len(s) \in Nat /\ DOMAIN s = 1 .. Len(s)
  BY LenProperties
<1>2. IsFiniteSet(1 .. Len(s))
  BY <1>1, FS_Interval
<1>3. Hits(s, X) \in SUBSET (1 .. Len(s))
  BY <1>1 DEF Hits
<1> QED
  BY <1>2, <1>3, FS_Subset, FS_CardinalityType

LEMMA HitsOfAppend ==
    ASSUME NEW s \in Seq(Entries), NEW e \in Entries, NEW X
    PROVE  /\ IsFiniteSet(Hits(s, X)) /\ Cardinality(Hits(s, X)) \in Nat
           /\ Cardinality(Hits(Append(s, e), X)) =
                Cardinality(Hits(s, X)) + IF e \in X THEN 1 ELSE 0
<1> DEFINE t == Append(s, e)
<1>1. /\ Len(s) \in Nat /\ DOMAIN s = 1 .. Len(s)
      /\ t \in Seq(Entries) /\ Len(t) = Len(s) + 1 /\ DOMAIN t = 1 .. Len(t)
      /\ (\A i \in 1 .. Len(s) : t[i] = s[i]) /\ t[Len(s) + 1] = e
  BY AppendProperties, LenProperties
<1> HIDE DEF t
<1>2. IsFiniteSet(Hits(s, X))
  BY HitsFinite
<1>3. Hits(t, X) = IF e \in X THEN Hits(s, X) \cup {Len(s) + 1} ELSE Hits(s, X)
  <2>1. \A i \in DOMAIN t : i \in 1 .. Len(s) \/ i = Len(s) + 1
    BY <1>1
  <2>2. Len(s) + 1 \in DOMAIN t /\ DOMAIN s \subseteq DOMAIN t
    BY <1>1
  <2> QED
    BY <1>1, <2>1, <2>2 DEF Hits
<1>4. Len(s) + 1 \notin Hits(s, X)
  BY <1>1 DEF Hits
<1>5. Cardinality(Hits(s, X) \cup {Len(s) + 1}) = Cardinality(Hits(s, X)) + 1
      /\ Cardinality(Hits(s, X)) \in Nat
  BY <1>2, <1>4, FS_AddElement, FS_CardinalityType
<1> QED
  BY <1>2, <1>3, <1>5 DEF t

LEMMA PendingFinite ==
    ASSUME NEW X
    PROVE  IsFiniteSet(Pending(X)) /\ Cardinality(Pending(X)) \in Nat
<1>1. Pending(X) \in SUBSET Clients /\ IsFiniteSet(Clients)
  BY K8sAssumption DEF Pending
<1> QED
  BY <1>1, FS_Subset, FS_CardinalityType

\* The pending entries change by the one of c at most.
LEMMA PendingNext ==
    ASSUME IInv, NEW c \in Clients, NEW X,
           \E x : pc' = [pc EXCEPT ![c] = x], \E x : req' = [req EXCEPT ![c] = x],
           \E x : action' = [action EXCEPT ![c] = x]
    PROVE  /\ pc'[c] = "record" /\ pc[c] # "record" =>
                Cardinality(Pending(X))' =
                  Cardinality(Pending(X)) + IF EntryOf(c)' \in X THEN 1 ELSE 0
           /\ pc'[c] # "record" /\ pc[c] = "record" =>
                Cardinality(Pending(X))' =
                  Cardinality(Pending(X)) - IF EntryOf(c) \in X THEN 1 ELSE 0
           /\ pc'[c] # "record" /\ pc[c] # "record" => Pending(X)' = Pending(X)
<1>1. \A d \in Clients : d # c => pc'[d] = pc[d] /\ req'[d] = req[d] /\ action'[d] = action[d]
  BY DEF IInv, TypeOK
<1>2. \A d \in Clients : d # c => EntryOf(d)' = EntryOf(d)
  BY <1>1 DEF EntryOf
<1>3. \A d \in Clients : d # c => (d \in Pending(X)' <=> d \in Pending(X))
  BY <1>1, <1>2 DEF Pending
<1>4. /\ c \in Pending(X)' <=> (pc'[c] = "record" /\ EntryOf(c)' \in X)
      /\ c \in Pending(X) <=> (pc[c] = "record" /\ EntryOf(c) \in X)
      /\ Pending(X) \subseteq Clients /\ Pending(X)' \subseteq Clients
  BY DEF Pending
<1>5. IsFiniteSet(Pending(X)) /\ Cardinality(Pending(X)) \in Nat
  BY PendingFinite
<1>6. CASE c \in Pending(X)' /\ c \notin Pending(X)
  <2>1. Pending(X)' = Pending(X) \cup {c}
    BY <1>3, <1>4, <1>6
  <2>2. Cardinality(Pending(X) \cup {c}) = Cardinality(Pending(X)) + 1
    BY <1>5, <1>6, FS_AddElement
  <2>3. Cardinality(Pending(X))' = Cardinality(Pending(X)) + 1
    BY <2>1, <2>2
  <2> QED
    BY <1>4, <1>5, <1>6, <2>3
<1>7. CASE c \notin Pending(X)' /\ c \in Pending(X)
  <2>1. Pending(X)' = Pending(X) \ {c}
    BY <1>3, <1>4, <1>7
  <2>2. Cardinality(Pending(X) \ {c}) = Cardinality(Pending(X)) - 1
    BY <1>5, <1>7, FS_RemoveElement
  <2>3. Cardinality(Pending(X))' = Cardinality(Pending(X)) - 1
    BY <2>1, <2>2
  <2> QED
    BY <1>4, <1>5, <1>7, <2>3
<1>8. CASE c \in Pending(X)' <=> c \in Pending(X)
  <2>1. Pending(X)' = Pending(X)
    BY <1>3, <1>4, <1>8
  <2>2. Cardinality(Pending(X))' = Cardinality(Pending(X))
    BY <2>1
  <2> QED
    BY <1>4, <1>5, <1>8, <2>1, <2>2
<1> QED
  BY <1>6, <1>7, <1>8

\* A tally grows with a change, by the entry of that change, and with nothing
\* else: recording or losing an entry only moves it.
LEMMA TallyNext ==
    ASSUME IInv, IInv', [Next]_vars, NEW X
    PROVE  /\ Tally(X) \in Nat
           /\ \A c \in Clients : Update(c) \/ Drop(c) =>
                Tally(X)' = Tally(X) + IF EntryOf(c)' \in X THEN 1 ELSE 0
           /\ (\A c \in Clients : ~Update(c) /\ ~Drop(c)) =>
                Tally(X)' = Tally(X) /\ Stored' = Stored
<1>0. /\ pc \in [Clients -> {"idle", "get", "put", "drop", "record"}]
      /\ req \in [Clients -> {None} \cup Requests]
      /\ action \in [Clients -> {None} \cup Made]
      /\ log \in Seq(Entries) /\ lost \in Seq(Entries)
      /\ \A c \in Clients : Placed(c)
  BY DEF IInv, TypeOK, Made
<1> DEFINE L == Cardinality(Hits(log, X))
           M == Cardinality(Hits(lost, X))
           P == Cardinality(Pending(X))
<1>1. P \in Nat
  BY PendingFinite
<1>2. L \in Nat /\ M \in Nat
  <2>1. Cardinality(Hits(log, X)) \in Nat
    <3>1. \A e \in Entries : Cardinality(Hits(log, X)) \in Nat
      BY <1>0, HitsOfAppend
    <3>2. CASE Entries = {}
      <4>1. Hits(log, X) = {}
        BY <1>0, <3>2, ElementOfSeq, LenProperties DEF Hits
      <4> QED
        BY <4>1, FS_EmptySet
    <3> QED
      BY <3>1, <3>2
  <2>2. Cardinality(Hits(lost, X)) \in Nat
    <3>1. \A e \in Entries : Cardinality(Hits(lost, X)) \in Nat
      BY <1>0, HitsOfAppend
    <3>2. CASE Entries = {}
      <4>1. Hits(lost, X) = {}
        BY <1>0, <3>2, ElementOfSeq, LenProperties DEF Hits
      <4> QED
        BY <4>1, FS_EmptySet
    <3> QED
      BY <3>1, <3>2
  <2> QED
    BY <2>1, <2>2
<1>3. Tally(X) = L + M + P /\ Tally(X)' = L' + M' + P'
  BY DEF Tally
<1>4. ASSUME NEW c \in Clients, Update(c) \/ Drop(c)
      PROVE  Tally(X)' = Tally(X) + IF EntryOf(c)' \in X THEN 1 ELSE 0
  <2>1. /\ pc[c] # "record" /\ pc' = [pc EXCEPT ![c] = "record"]
        /\ req' = req /\ log' = log /\ lost' = lost
        /\ action' = action \/ action' = [action EXCEPT ![c] = "delete"]
    BY <1>4 DEF Update, Drop
  <2>2. /\ req' = [req EXCEPT ![c] = req[c]]
        /\ \E x : action' = [action EXCEPT ![c] = x]
    <3>1. action = [action EXCEPT ![c] = action[c]]
      BY <1>0
    <3> QED
      BY <1>0, <2>1, <3>1
  <2>3. pc'[c] = "record"
    BY <1>0, <2>1
  <2>4. P' = P + IF EntryOf(c)' \in X THEN 1 ELSE 0
    BY <2>1, <2>2, <2>3, PendingNext
  <2>5. L' = L /\ M' = M
    BY <2>1 DEF Hits
  <2> HIDE DEF L, M, P
  <2> QED
    BY <1>1, <1>2, <1>3, <2>4, <2>5
<1>5. ASSUME NEW c \in Clients, Call(c) \/ GetToSave(c) \/ GetToDelete(c) \/ GetToRename(c)
      PROVE  Tally(X)' = Tally(X) /\ Stored' = Stored
  <2>1. /\ UNCHANGED <<cluster, log, lost>> /\ pc[c] \in {"idle", "get"}
        /\ \E x \in {"get", "drop", "put"} : pc' = [pc EXCEPT ![c] = x]
        /\ req' = req \/ \E x : req' = [req EXCEPT ![c] = x]
        /\ action' = action \/ \E x : action' = [action EXCEPT ![c] = x]
    <3>1. CASE Call(c)
      BY <3>1 DEF Call
    <3>2. CASE GetToSave(c) \/ GetToDelete(c) \/ GetToRename(c)
      <4>1. PICK act : pc[c] = "get" /\ Intend(c, act)
        BY <3>2 DEF GetToSave, GetToDelete, GetToRename
      <4> QED
        BY <4>1 DEF Intend
    <3> QED
      BY <1>5, <3>1, <3>2
  <2>2. /\ \E x : req' = [req EXCEPT ![c] = x]
        /\ \E x : action' = [action EXCEPT ![c] = x]
    <3>1. req = [req EXCEPT ![c] = req[c]] /\ action = [action EXCEPT ![c] = action[c]]
      BY <1>0
    <3> QED
      BY <2>1, <3>1
  <2>3. pc'[c] # "record" /\ pc[c] # "record"
    BY <1>0, <2>1
  <2>4. Pending(X)' = Pending(X)
    BY <2>1, <2>2, <2>3, PendingNext
  <2>5. Stored' = Stored
    BY <2>1 DEF Stored
  <2> QED
    BY <2>1, <2>4, <2>5 DEF Tally, Hits
<1>6. ASSUME NEW c \in Clients, Error(c) \/ Record(c) \/ TimedOut(c)
      PROVE  Tally(X)' = Tally(X) /\ Stored' = Stored
  <2>1. /\ pc' = [pc EXCEPT ![c] = "idle"] /\ req' = [req EXCEPT ![c] = None]
        /\ action' = [action EXCEPT ![c] = None] /\ UNCHANGED cluster
    BY <1>6 DEF Error, Record, TimedOut, Finish
  <2>2. Stored' = Stored /\ pc'[c] # "record"
    BY <2>1, <1>0 DEF Stored
  <2>3. CASE Error(c)
    <3>1. pc[c] # "record" /\ log' = log /\ lost' = lost
      BY <2>3 DEF Error
    <3>2. Pending(X)' = Pending(X)
      BY <2>1, <2>2, <3>1, PendingNext
    <3> QED
      BY <2>2, <3>1, <3>2 DEF Tally, Hits
  <2>4. CASE Record(c) \/ TimedOut(c)
    <3> DEFINE n == IF EntryOf(c) \in X THEN 1 ELSE 0
    <3>1. pc[c] = "record" /\ EntryOf(c) \in Entries
      <4>1. pc[c] = "record"
        BY <2>4 DEF Record, TimedOut
      <4>2. req[c] \in Requests /\ action[c] \in Made
        BY <4>1, <1>0 DEF Placed
      <4> QED
        BY <4>1, <4>2, EntryType
    <3>2. P' = P - n
      BY <2>1, <2>2, <3>1, PendingNext
    <3>3. (L' = L + n /\ M' = M) \/ (L' = L /\ M' = M + n)
      <4>1. CASE Record(c)
        <5>1. log' = Append(log, EntryOf(c)) /\ lost' = lost
          BY <4>1 DEF Record
        <5>2. Cardinality(Hits(Append(log, EntryOf(c)), X)) = L + n
          BY <3>1, <1>0, HitsOfAppend
        <5> QED
          BY <5>1, <5>2 DEF Hits
      <4>2. CASE TimedOut(c)
        <5>1. lost' = Append(lost, EntryOf(c)) /\ log' = log
          BY <4>2 DEF TimedOut
        <5>2. Cardinality(Hits(Append(lost, EntryOf(c)), X)) = M + n
          BY <3>1, <1>0, HitsOfAppend
        <5> QED
          BY <5>1, <5>2 DEF Hits
      <4> QED
        BY <2>4, <4>1, <4>2
    <3>4. n \in Nat
      OBVIOUS
    <3> HIDE DEF n, L, M, P
    <3> QED
      BY <1>1, <1>2, <1>3, <2>2, <3>2, <3>3, <3>4
  <2> QED
    BY <1>6, <2>3, <2>4
<1>7. ASSUME UNCHANGED vars PROVE Tally(X)' = Tally(X) /\ Stored' = Stored
  <2>1. UNCHANGED <<cluster, pc, req, action, log, lost>>
    BY <1>7 DEF vars
  <2>2. Stored' = Stored /\ Pending(X)' = Pending(X)
    BY <2>1 DEF Stored, Pending, EntryOf
  <2> QED
    BY <2>1, <2>2 DEF Tally, Hits
<1>8. Tally(X) \in Nat
  <2> HIDE DEF L, M, P
  <2> QED
    BY <1>1, <1>2, <1>3
<1>9. ASSUME \A c \in Clients : ~Update(c) /\ ~Drop(c)
      PROVE  Tally(X)' = Tally(X) /\ Stored' = Stored
  <2>1. CASE Next
    <3>1. PICK c \in Clients :
            \/ Call(c) \/ GetToSave(c) \/ GetToDelete(c) \/ GetToRename(c)
            \/ Error(c) \/ Record(c) \/ TimedOut(c)
      BY <1>9, <2>1 DEF Next
    <3> QED
      BY <3>1, <1>5, <1>6
  <2> QED
    BY <2>1, <1>7
<1>10. \A c \in Clients : Update(c) \/ Drop(c) =>
         Tally(X)' = Tally(X) + IF EntryOf(c)' \in X THEN 1 ELSE 0
  BY <1>4
<1> HIDE DEF L, M, P
<1> QED
  BY <1>8, <1>9, <1>10
LEMMA BooksNext == IInv /\ IInv' /\ Books /\ [Next]_vars => Books'
<1> SUFFICES ASSUME IInv, IInv', Books, [Next]_vars, NEW p \in Paths,
                    Tally(SweepsOver(p))' = 0
             PROVE  Tally(AddsTo(p))' =
                      Tally(RemovesFrom(p))' + IF Stored'[p] = Absent THEN 0 ELSE 1
  BY DEF Books
<1> DEFINE a == Tally(AddsTo(p))
           r == Tally(RemovesFrom(p))
           s == Tally(SweepsOver(p))
           there == IF Stored[p] = Absent THEN 0 ELSE 1
<1>0. a \in Nat /\ r \in Nat /\ s \in Nat
  BY TallyNext
<1>1. AddsTo(p)' = AddsTo(p) /\ RemovesFrom(p)' = RemovesFrom(p)
      /\ SweepsOver(p)' = SweepsOver(p)
  BY DEF AddsTo, RemovesFrom, SweepsOver, V!Adds, V!Removes, V!Sweeps
<1>2. CASE \A c \in Clients : ~Update(c) /\ ~Drop(c)
  <2>1. a' = a /\ r' = r /\ s' = s /\ Stored' = Stored
    BY <1>1, <1>2, TallyNext
  <2> QED
    BY <2>1 DEF Books
\* The change of c adds its entry to the tallies it belongs to.
<1>3. ASSUME NEW c \in Clients, Update(c) \/ Drop(c)
      PROVE  LET e == EntryOf(c)' IN
             /\ a' = a + IF V!Adds(e, p) THEN 1 ELSE 0
             /\ r' = r + IF V!Removes(e, p) THEN 1 ELSE 0
             /\ ~V!Sweeps(e, p) /\ s = 0
  <2> DEFINE e == EntryOf(c)'
  <2>1. e \in Entries
    <3>1. pc[c] # "record" /\ pc' = [pc EXCEPT ![c] = "record"]
      BY <1>3 DEF Update, Drop
    <3>2. pc'[c] = "record"
      BY <3>1 DEF IInv, TypeOK
    <3>3. req'[c] \in Requests /\ action'[c] \in Made
      BY <3>2 DEF IInv, Placed
    <3> QED
      BY <3>3, Asked DEF EntryOf, Entry, Entries
  <2>2. /\ a' = a + IF e \in AddsTo(p) THEN 1 ELSE 0
        /\ r' = r + IF e \in RemovesFrom(p) THEN 1 ELSE 0
        /\ s' = s + IF e \in SweepsOver(p) THEN 1 ELSE 0
    BY <1>1, <1>3, TallyNext
  <2>3. /\ e \in AddsTo(p) <=> V!Adds(e, p)
        /\ e \in RemovesFrom(p) <=> V!Removes(e, p)
        /\ e \in SweepsOver(p) <=> V!Sweeps(e, p)
    BY <2>1 DEF AddsTo, RemovesFrom, SweepsOver
  <2> HIDE DEF a, r, s, e
  <2>4. s' = 0
    BY DEF s
  <2>5. e \notin SweepsOver(p) /\ s = 0
    BY <1>0, <2>2, <2>4
  <2> QED
    BY <2>2, <2>3, <2>5 DEF e
<1>4. ASSUME NEW c \in Clients, Update(c)
      PROVE  a' = r' + IF Stored'[p] = Absent THEN 0 ELSE 1
  <2> DEFINE q == req[c]
  <2>1. EntryOf(c)' = EntryOf(c)
    BY <1>4 DEF Update, EntryOf
  <2>2. /\ EntryOf(c).action = action[c] /\ EntryOf(c).path = q.path
        /\ q.op = "rename" => EntryOf(c).prev = q.from
    BY DEF EntryOf, Entry
  <2>3. /\ a' = a + IF V!Adds(EntryOf(c), p) THEN 1 ELSE 0
        /\ r' = r + IF V!Removes(EntryOf(c), p) THEN 1 ELSE 0
        /\ s = 0
    BY <1>3, <1>4, <2>1
  <2>4. a = r + there
    BY <2>3 DEF Books
  <2>5. /\ q \in Requests /\ q.path \in Paths /\ Stored = [x \in Paths |-> Stored[x]]
    BY <1>4, UpdateIsTheChange DEF Stored
  <2> HIDE DEF a, r, s
  <2>6. CASE q.op = "save"
    <3>1. /\ Stored' = [Stored EXCEPT ![q.path] = q.content]
          /\ action[c] = IF Stored[q.path] = Absent THEN "create" ELSE "update"
      BY <1>4, <2>6, UpdateIsTheChange
    <3>2. q.content # Absent
      BY <2>5, <2>6, Asked, K8sAssumption
    <3>3. Stored'[p] = IF p = q.path THEN q.content ELSE Stored[p]
      BY <2>5, <3>1
    <3>4. ~V!Removes(EntryOf(c), p)
          /\ (V!Adds(EntryOf(c), p) <=> p = q.path /\ Stored[q.path] = Absent)
      BY <2>2, <3>1 DEF V!Removes, V!Adds
    <3> QED
      BY <1>0, <2>3, <2>4, <3>2, <3>3, <3>4
  <2>7. CASE q.op = "delete"
    <3>1. /\ Stored' = [Stored EXCEPT ![q.path] = Absent]
          /\ action[c] = "delete" /\ Stored[q.path] # Absent
      BY <1>4, <2>7, UpdateIsTheChange
    <3>2. Stored'[p] = IF p = q.path THEN Absent ELSE Stored[p]
      BY <2>5, <3>1
    <3>3. ~V!Adds(EntryOf(c), p) /\ (V!Removes(EntryOf(c), p) <=> p = q.path)
      BY <2>2, <3>1 DEF V!Removes, V!Adds
    <3> QED
      BY <1>0, <2>3, <2>4, <3>1, <3>2, <3>3
  <2>8. CASE q.op = "rename"
    <3>1. /\ Stored' = [Stored EXCEPT ![q.path] = Stored[q.from], ![q.from] = Absent]
          /\ action[c] = "rename" /\ Stored[q.from] # Absent /\ Stored[q.path] = Absent
      BY <1>4, <2>8, UpdateIsTheChange
    <3>2. Stored'[p] = IF p = q.from THEN Absent
                       ELSE IF p = q.path THEN Stored[q.from] ELSE Stored[p]
      BY <2>5, <3>1
    <3>3. (V!Adds(EntryOf(c), p) <=> p = q.path) /\ (V!Removes(EntryOf(c), p) <=> p = q.from)
      BY <2>2, <2>8, <3>1 DEF V!Removes, V!Adds
    <3> QED
      BY <1>0, <2>3, <2>4, <3>1, <3>2, <3>3
  <2> QED
    BY <2>5, <2>6, <2>7, <2>8, Asked
\* A note that goes with its Secret is swept away.
<1>5. ASSUME NEW c \in Clients, Drop(c)
      PROVE  a' = r' + IF Stored'[p] = Absent THEN 0 ELSE 1
  <2> DEFINE q == req[c]
             e == EntryOf(c)'
  <2>1. /\ q \in Requests /\ q.op = "delete" /\ q.path \in Places \ Paths
        /\ Stored' = [x \in Paths |-> IF x \in Gone(q) THEN Absent ELSE Stored[x]]
    BY <1>5, DropIsTheChange
  <2>2. e.action = "delete" /\ e.path = q.path
    <3>1. action' = [action EXCEPT ![c] = "delete"] /\ req' = req
      BY <1>5 DEF Drop
    <3>2. action'[c] = "delete" /\ req'[c] = q
      BY <3>1 DEF IInv, TypeOK
    <3> QED
      BY <3>2 DEF EntryOf, Entry
  <2>3. /\ a' = a + IF V!Adds(e, p) THEN 1 ELSE 0
        /\ r' = r + IF V!Removes(e, p) THEN 1 ELSE 0
        /\ ~V!Sweeps(e, p) /\ s = 0
    BY <1>3, <1>5
  <2>4. ~V!Adds(e, p) /\ ~V!Removes(e, p) /\ e.path # p
    BY <2>1, <2>2 DEF V!Adds, V!Removes
  <2>5. p \notin Gone(q)
    <3>1. /\ Abstract(q) \in {Abstract(x) : x \in Requests}
          /\ Abstract(q).op = "delete" /\ Abstract(q).path = q.path
          /\ Abstract(q).gone = Gone(q)
      BY <2>1, Abstracted
    <3> QED
      BY <2>2, <2>3, <2>4, <3>1 DEF V!Sweeps
  <2>6. Stored'[p] = Stored[p]
    BY <2>1, <2>5
  <2>7. a = r + there
    BY <2>3 DEF Books
  <2> HIDE DEF a, r, s, e, q
  <2> QED
    BY <1>0, <2>3, <2>4, <2>6, <2>7
<1> QED
  BY <1>2, <1>4, <1>5

LEMMA BooksInitially == Init => Books
<1> SUFFICES ASSUME Init PROVE Books
  OBVIOUS
<1>1. \A X : Hits(log, X) = {} /\ Hits(lost, X) = {} /\ Pending(X) = {}
  BY DEF Init, Hits, Pending
<1>2. \A X : Tally(X) = 0
  BY <1>1, FS_EmptySet DEF Tally
<1>3. \A p \in Paths : Stored[p] = Absent
  BY Pairs DEF Init, Stored, SecretOf
<1> QED
  BY <1>2, <1>3 DEF Books

\* The contract brings a Cardinality of its own.
LEMMA SameCardinality == \A T : V!Cardinality(T) = Cardinality(T)
BY DEF V!Cardinality, Cardinality

\* Where the log is whole, the tallies are its counts.
LEMMA Counted ==
    ASSUME IInv, NEW p \in Paths
    PROVE  /\ V!AllInLog(V!Adds, p) => Tally(AddsTo(p)) = V!Count(V!Adds, p)
           /\ V!AllInLog(V!Removes, p) => Tally(RemovesFrom(p)) = V!Count(V!Removes, p)
           /\ V!AllInLog(V!Sweeps, p) => Tally(SweepsOver(p)) = V!Count(V!Sweeps, p)
<1> DEFINE effect == [c \in Clients |-> IF pc[c] = "record" THEN EntryOf(c) ELSE None]
<1>0. log \in Seq(Entries) /\ lost \in Seq(Entries)
  BY DEF IInv
<1>1. /\ \A i \in DOMAIN log : log[i] \in Entries
      /\ \A i \in DOMAIN lost : lost[i] \in Entries
  BY <1>0, ElementOfSeq, LenProperties
<1>2. \A c \in Clients : /\ effect[c] # None <=> pc[c] = "record"
                         /\ pc[c] = "record" => effect[c] = EntryOf(c) /\ EntryOf(c) \in Entries
  <2> TAKE c \in Clients
  <2>1. pc[c] = "record" => req[c] \in Requests /\ action[c] \in Made
    BY DEF IInv, Placed
  <2>2. pc[c] = "record" => EntryOf(c) \in Entries /\ EntryOf(c) # None
    BY <2>1, EntryType
  <2> QED
    BY <2>2
<1> HIDE DEF effect
<1>3. ASSUME NEW X, Hits(lost, X) = {}, Pending(X) = {}
      PROVE  Tally(X) = Cardinality(Hits(log, X))
  <2>1. Cardinality({}) = 0
    BY FS_EmptySet
  <2>2. Cardinality(Hits(log, X)) \in Nat
    BY <1>0, HitsFinite
  <2> QED
    BY <1>3, <2>1, <2>2 DEF Tally
<1>4. V!AllInLog(V!Adds, p) => Tally(AddsTo(p)) = V!Count(V!Adds, p)
  <2> SUFFICES ASSUME V!AllInLog(V!Adds, p) PROVE Tally(AddsTo(p)) = V!Count(V!Adds, p)
    OBVIOUS
  <2>1. Hits(lost, AddsTo(p)) = {}
    BY DEF V!AllInLog, Hits, AddsTo
  <2>2. Pending(AddsTo(p)) = {}
    BY <1>2 DEF V!AllInLog, Pending, AddsTo, effect
  <2>3. {i \in DOMAIN log : V!Adds(log[i], p)} = Hits(log, AddsTo(p))
    BY <1>1 DEF Hits, AddsTo
  <2> QED
    BY <1>3, <2>1, <2>2, <2>3, SameCardinality DEF V!Count
<1>5. V!AllInLog(V!Removes, p) => Tally(RemovesFrom(p)) = V!Count(V!Removes, p)
  <2> SUFFICES ASSUME V!AllInLog(V!Removes, p)
               PROVE  Tally(RemovesFrom(p)) = V!Count(V!Removes, p)
    OBVIOUS
  <2>1. Hits(lost, RemovesFrom(p)) = {}
    BY DEF V!AllInLog, Hits, RemovesFrom
  <2>2. Pending(RemovesFrom(p)) = {}
    BY <1>2 DEF V!AllInLog, Pending, RemovesFrom, effect
  <2>3. {i \in DOMAIN log : V!Removes(log[i], p)} = Hits(log, RemovesFrom(p))
    BY <1>1 DEF Hits, RemovesFrom
  <2> QED
    BY <1>3, <2>1, <2>2, <2>3, SameCardinality DEF V!Count
<1>6. V!AllInLog(V!Sweeps, p) => Tally(SweepsOver(p)) = V!Count(V!Sweeps, p)
  <2> SUFFICES ASSUME V!AllInLog(V!Sweeps, p)
               PROVE  Tally(SweepsOver(p)) = V!Count(V!Sweeps, p)
    OBVIOUS
  <2>1. Hits(lost, SweepsOver(p)) = {}
    BY DEF V!AllInLog, Hits, SweepsOver
  <2>2. Pending(SweepsOver(p)) = {}
    BY <1>2 DEF V!AllInLog, Pending, SweepsOver, effect
  <2>3. {i \in DOMAIN log : V!Sweeps(log[i], p)} = Hits(log, SweepsOver(p))
    BY <1>1 DEF Hits, SweepsOver
  <2> QED
    BY <1>3, <2>1, <2>2, <2>3, SameCardinality DEF V!Count
<1> QED
  BY <1>4, <1>5, <1>6

\* A note none of whose entries was lost or is still to be recorded, and that
\* was never swept away with its Secret, is in the cluster exactly when the log
\* created it once more often than it removed it, for any number of requests
\* (k8s.go:163-169, 194-200, 236-243).
THEOREM TrailBalances == Spec => []AuditBalance
<1>1. IInv /\ Books => AuditBalance
  BY Counted DEF Books, AuditBalance, V!AuditBalance
<1>2. Spec => [](IInv /\ Books)
  BY Initially, InvNext, BooksInitially, BooksNext, PTL DEF Spec
<1> QED
  BY <1>1, <1>2, PTL
=============================================================================
