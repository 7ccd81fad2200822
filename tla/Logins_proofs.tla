---------------------------- MODULE Logins_proofs ----------------------------
(***************************************************************************)
(* The two sides of POST /api/login: LoginThrottle, for every number of    *)
(* logins and names and every choice of the delays that ThrottleAssumption *)
(* allows, and MCPClient, which logs in whenever its token has expired,    *)
(* for every number of tool calls and of tokens.                           *)
(***************************************************************************)
EXTENDS LoginThrottle, MCPClient, SequenceTheorems, TLAPS

\* A refused login was refused on an entry that has run out when it was told
\* to come back; no failure lies in the future.
Refusals == \A l \in Logins :
    pc[l] = "refused" => name[l] \in Names /\ seen[l] # None
                         /\ seen[l].lockUntil <= told[l]
Past == \A k \in Names : \A i \in DOMAIN streak[k] : streak[k][i] <= now

\* The inductive invariant.  The schedule is part of it: what state holds is
\* only known to follow from the failures because it always did.
IInv == TypeOK /\ Refusals /\ Past /\ ScheduleFollowsFailures

-----------------------------------------------------------------------------
(* The operators *)

\* The backoff lies between the first delay and the ceiling.
LEMMA DelayBounds ==
    ASSUME NEW n \in Nat \ {0}
    PROVE  /\ Delay(n) \in Nat
           /\ BaseDelay <= Delay(n) /\ Delay(n) <= MaxDelay
<1> DEFINE m == IF n > 6 THEN 6 ELSE n
           d == BaseDelay * Doubled[m]
<1>1. m \in 1 .. 6
  OBVIOUS
<1>2. d \in Nat /\ BaseDelay <= d
  <2>1. CASE m = 1 BY <2>1, ThrottleAssumption DEF Doubled
  <2>2. CASE m = 2 BY <2>2, ThrottleAssumption DEF Doubled
  <2>3. CASE m = 3 BY <2>3, ThrottleAssumption DEF Doubled
  <2>4. CASE m = 4 BY <2>4, ThrottleAssumption DEF Doubled
  <2>5. CASE m = 5 BY <2>5, ThrottleAssumption DEF Doubled
  <2>6. CASE m = 6 BY <2>6, ThrottleAssumption DEF Doubled
  <2> HIDE DEF d, m
  <2> QED BY <1>1, <2>1, <2>2, <2>3, <2>4, <2>5, <2>6
<1>3. Delay(n) = IF d > MaxDelay THEN MaxDelay ELSE d
  BY DEF Delay
<1> HIDE DEF d, m
<1> QED
  BY <1>2, <1>3, ThrottleAssumption

\* One more failure never makes the backoff shorter.
LEMMA DelayGrows ==
    ASSUME NEW n \in Nat \ {0}
    PROVE  Delay(n) <= Delay(n + 1)
<1> DEFINE D(m) == BaseDelay * Doubled[m]
<1>1. \A m \in 1 .. 6 : D(m) \in Nat
  BY ThrottleAssumption DEF Doubled
<1>2. \A m \in 1 .. 5 : D(m) <= D(m + 1)
  BY ThrottleAssumption DEF Doubled
<1>3. /\ Delay(n) = LET d == D(IF n > 6 THEN 6 ELSE n)
                    IN  IF d > MaxDelay THEN MaxDelay ELSE d
      /\ Delay(n + 1) = LET d == D(IF n + 1 > 6 THEN 6 ELSE n + 1)
                        IN  IF d > MaxDelay THEN MaxDelay ELSE d
  BY DEF Delay
<1> HIDE DEF D
<1>4. CASE n < 6
  <2>1. D(n) \in Nat /\ D(n + 1) \in Nat /\ D(n) <= D(n + 1)
    BY <1>1, <1>2, <1>4
  <2> QED BY <1>3, <1>4, <2>1, ThrottleAssumption
<1>5. CASE n >= 6
  <2>1. Delay(n + 1) = Delay(n)
    BY <1>3, <1>5
  <2> QED BY <2>1, DelayBounds
<1> QED BY <1>4, <1>5

\* Rounding up to the next whole second always covers the wait.
LEMMA RetryAfterCovers ==
    ASSUME NEW wait \in Nat
    PROVE  RetryAfter(wait) \in Nat /\ wait < RetryAfter(wait)
<1>1. /\ wait \div Second \in Nat /\ wait % Second \in Nat
      /\ wait = Second * (wait \div Second) + (wait % Second)
      /\ wait % Second < Second
  BY ThrottleAssumption
<1>2. /\ Second * (wait \div Second) \in Nat
      /\ Second * (wait \div Second + 1) = Second * (wait \div Second) + Second
  BY <1>1, ThrottleAssumption
<1> QED
  BY <1>1, <1>2, ThrottleAssumption DEF RetryAfter

\* What is kept for a name has the type of an entry.
LEMMA EntryType ==
    ASSUME NEW n \in Nat \ {0}, NEW t \in Nat
    PROVE  /\ Entry(n, t) \in Kept
           /\ Entry(n, t).failures = n /\ Entry(n, t).lastFail = t
           /\ Entry(n, t).lockUntil = t + Delay(n)
BY DelayBounds DEF Entry, Kept

\* Only a name without failures is kept as None.
LEMMA KeptIsSomething == None \notin Kept
BY ThrottleAssumption DEF Kept

-----------------------------------------------------------------------------
(* The invariant *)

\* The schedule in the terms the actions use: a name is kept exactly if it has
\* failures, its entry is the one of the last failure and of their number.
LEMMA Schedule ==
    ASSUME IInv, NEW k \in Names, state[k] # None
    PROVE  /\ streak[k] # <<>> /\ state[k] \in Kept
           /\ state[k] = Entry(state[k].failures, state[k].lastFail)
           /\ state[k].lastFail = streak[k][Len(streak[k])]
           /\ state[k].lastFail <= now
           /\ state[k].lockUntil = state[k].lastFail + Delay(state[k].failures)
<1>1. streak[k] # <<>>
  BY DEF IInv, ScheduleFollowsFailures
<1>2. PICK i \in DOMAIN streak[k] :
        state[k] = Entry(Len(streak[k]) + 1 - i, streak[k][Len(streak[k])])
  BY <1>1 DEF IInv, ScheduleFollowsFailures
<1>3. streak[k] \in Seq(Nat)
  BY DEF IInv, TypeOK
<1>4. /\ Len(streak[k]) \in DOMAIN streak[k]
      /\ Len(streak[k]) + 1 - i \in Nat \ {0}
      /\ streak[k][Len(streak[k])] \in Nat
  BY <1>2, <1>3
<1>5. streak[k][Len(streak[k])] <= now
  BY <1>4 DEF IInv, Past
<1> QED
  BY <1>1, <1>2, <1>4, <1>5, EntryType

\* The first state satisfies the invariant.
LEMMA InitInv == Init => IInv
<1> SUFFICES ASSUME Init PROVE IInv
  OBVIOUS
<1>1. TypeOK
  BY ThrottleAssumption DEF Init, TypeOK
<1>2. Refusals /\ Past /\ ScheduleFollowsFailures
  BY DEF Init, Refusals, Past, ScheduleFollowsFailures
<1> QED
  BY <1>1, <1>2 DEF IInv

\* A step that leaves state and streak alone keeps the schedule.
LEMMA SameSchedule ==
    ASSUME ScheduleFollowsFailures, UNCHANGED <<state, streak>>
    PROVE  ScheduleFollowsFailures'
BY DEF ScheduleFollowsFailures, LastRunFrom, Entry, Delay

\* Arrive: a refused login is told a time its entry will have run out at.
LEMMA ArriveInv ==
    ASSUME IInv, NEW l \in Logins, NEW k \in Names, Arrive(l, k)
    PROVE  IInv'
<1>0. UNCHANGED <<now, state, streak>>
  BY DEF Arrive
<1>1. Past' /\ ScheduleFollowsFailures'
  <2>1. Past'
    BY <1>0 DEF IInv, Past
  <2>2. ScheduleFollowsFailures'
    BY <1>0, SameSchedule DEF IInv
  <2> QED BY <2>1, <2>2
<1>2. CASE Allowed(k)
  <2>1. TypeOK'
    <3>1. /\ pc' = [pc EXCEPT ![l] = "authenticating"]
          /\ name' = [name EXCEPT ![l] = k]
          /\ told' = [told EXCEPT ![l] = 0] /\ seen' = [seen EXCEPT ![l] = None]
      BY <1>2 DEF Arrive
    <3> QED BY <1>0, <3>1 DEF IInv, TypeOK
  <2>2. Refusals'
    BY <1>2 DEF IInv, TypeOK, Refusals, Arrive
  <2> QED BY <1>1, <2>1, <2>2 DEF IInv
<1>3. CASE ~Allowed(k)
  <2> DEFINE wait == state[k].lockUntil - now
  <2>1. state[k] # None /\ state[k] \in Kept /\ now \in Nat
        /\ state[k].lockUntil \in Nat /\ now < state[k].lockUntil
    BY <1>3, Schedule, ThrottleAssumption DEF IInv, TypeOK, Allowed, Kept
  <2>2. wait \in Nat /\ now + wait = state[k].lockUntil
    BY <2>1
  <2>3. /\ now + RetryAfter(wait) \in Nat
        /\ state[k].lockUntil <= now + RetryAfter(wait)
    BY <2>1, <2>2, RetryAfterCovers
  <2>4. /\ pc' = [pc EXCEPT ![l] = "refused"]
        /\ name' = [name EXCEPT ![l] = k]
        /\ told' = [told EXCEPT ![l] = now + RetryAfter(wait)]
        /\ seen' = [seen EXCEPT ![l] = state[k]]
        /\ UNCHANGED <<now, state, streak>>
    BY <1>3 DEF Arrive
  <2> HIDE DEF wait
  <2>5. TypeOK'
    BY <2>1, <2>3, <2>4 DEF IInv, TypeOK
  <2>6. Refusals'
    BY <2>1, <2>3, <2>4 DEF IInv, TypeOK, Refusals
  <2> QED BY <1>1, <2>5, <2>6 DEF IInv
<1> QED
  BY <1>2, <1>3

\* The entry a failure leaves is the one of the lengthened history.
LEMMA FailureExtendsRun ==
    ASSUME IInv, NEW l \in Logins, RecordFailure(l)
    PROVE  LET k == name[l]
               s == Append(streak[k], now)
           IN  /\ s \in Seq(Nat) /\ s # <<>>
               /\ state'[k] \in Kept
               /\ \E i \in DOMAIN s :
                    /\ LastRunFrom(s, i)
                    /\ state'[k] = Entry(Len(s) + 1 - i, s[Len(s)])
<1> DEFINE k == name[l]
           old == streak[k]
           s == Append(old, now)
<1>1. k \in Names /\ old \in Seq(Nat) /\ now \in Nat
  BY DEF IInv, TypeOK, RecordFailure
<1>2. /\ s \in Seq(Nat) /\ Len(s) = Len(old) + 1 /\ s[Len(s)] = now
      /\ \A j \in 1 .. Len(old) : s[j] = old[j]
      /\ Len(s) \in DOMAIN s /\ s # <<>>
  BY <1>1, AppendProperties
<1>3. state'[k] = Entry(IF Fresh(k) THEN 1 ELSE state[k].failures + 1, now)
  BY <1>1 DEF IInv, TypeOK, RecordFailure
<1> HIDE DEF k, s, old
<1>4. CASE state[k] = None
  <2>1. old = <<>>
    <3>1. ASSUME old # <<>> PROVE FALSE
      <4>1. PICK i \in DOMAIN old : state[k] = Entry(Len(old) + 1 - i, old[Len(old)])
        BY <1>1, <3>1 DEF IInv, ScheduleFollowsFailures, old
      <4>2. Len(old) + 1 - i \in Nat \ {0} /\ old[Len(old)] \in Nat
        BY <1>1, <4>1
      <4> QED BY <1>4, <4>1, <4>2, EntryType, KeptIsSomething
    <3> QED BY <3>1
  <2>2. Len(s) = 1 /\ LastRunFrom(s, 1)
    BY <1>2, <2>1 DEF LastRunFrom
  <2>3. Fresh(k)
    BY <1>4 DEF Fresh
  <2>4. state'[k] = Entry(Len(s) + 1 - 1, s[Len(s)])
    <3>1. Len(s) + 1 - 1 = 1
      BY <2>2
    <3>2. state'[k] = Entry(1, now)
      BY <1>3, <2>3
    <3>3. s[Len(s)] = now
      BY <1>2
    <3> QED BY <3>1, <3>2, <3>3
  <2>5. state'[k] \in Kept
    <3>1. state'[k] = Entry(1, now)
      BY <1>3, <2>3
    <3>2. 1 \in Nat \ {0}
      OBVIOUS
    <3> QED BY <1>1, <3>1, <3>2, EntryType
  <2> QED BY <1>2, <2>2, <2>4, <2>5 DEF k, s, old
<1>5. CASE state[k] # None
  <2>1. /\ old # <<>> /\ state[k] \in Kept
        /\ state[k].lastFail = old[Len(old)]
    BY <1>1, <1>5, Schedule DEF old
  <2>2. Len(old) \in Nat \ {0} /\ s[Len(s) - 1] = old[Len(old)]
    BY <1>1, <1>2, <2>1, SMTT(30)
  <2>3. Fresh(k) <=> s[Len(s)] - s[Len(s) - 1] > DecayAfter
    BY <1>2, <1>5, <2>1, <2>2 DEF Fresh
  <2>4. CASE Fresh(k)
    <3>1. LastRunFrom(s, Len(s))
      BY <1>2, <2>3, <2>4 DEF LastRunFrom
    <3>2. state'[k] = Entry(Len(s) + 1 - Len(s), s[Len(s)])
      BY <1>2, <1>3, <2>2, <2>4
    <3>3. state'[k] \in Kept
      <4>1. state'[k] = Entry(1, now)
        BY <1>3, <2>4
      <4>2. 1 \in Nat \ {0}
        OBVIOUS
      <4> QED BY <1>1, <4>1, <4>2, EntryType
    <3> QED BY <1>2, <3>1, <3>2, <3>3 DEF k, s, old
  <2>5. CASE ~Fresh(k)
    <3>1. PICK i \in DOMAIN old :
            LastRunFrom(old, i) /\ state[k] = Entry(Len(old) + 1 - i, old[Len(old)])
      BY <1>1, <2>1 DEF IInv, ScheduleFollowsFailures, old
    <3>2. i \in 1 .. Len(old) /\ i \in DOMAIN s
      BY <1>1, <1>2, <3>1, SMTT(30)
    <3>3. LastRunFrom(s, i)
      <4>1. i = 1 \/ s[i] - s[i - 1] > DecayAfter
        <5>1. i = 1 \/ old[i] - old[i - 1] > DecayAfter
          BY <3>1 DEF LastRunFrom
        <5>2. i # 1 => i - 1 \in 1 .. Len(old)
          BY <1>1, <3>2
        <5>3. i # 1 => s[i] = old[i] /\ s[i - 1] = old[i - 1]
          BY <1>2, <3>2, <5>2
        <5> QED BY <5>1, <5>3
      <4>2. ASSUME NEW j \in i + 1 .. Len(s), s[j] - s[j - 1] > DecayAfter
            PROVE  FALSE
        <5>1. CASE j = Len(s)
          BY <2>3, <2>5, <4>2, <5>1
        <5>2. CASE j # Len(s)
          <6>1. /\ j \in i + 1 .. Len(old) /\ j \in 1 .. Len(old)
                /\ j - 1 \in 1 .. Len(old)
            BY <1>1, <1>2, <3>2, <4>2, <5>2
          <6>2. s[j] = old[j] /\ s[j - 1] = old[j - 1]
            BY <1>2, <6>1
          <6> QED BY <3>1, <4>2, <6>1, <6>2 DEF LastRunFrom
        <5> QED BY <5>1, <5>2
      <4> QED BY <4>1, <4>2 DEF LastRunFrom
    <3>4. state[k].failures = Len(old) + 1 - i
          /\ Len(old) + 1 - i \in Nat \ {0}
      <4>1. Len(old) + 1 - i \in Nat \ {0} /\ old[Len(old)] \in Nat
        BY <1>1, <2>2, <3>2
      <4> QED BY <3>1, <4>1, EntryType
    <3>5. state'[k] = Entry(Len(s) + 1 - i, s[Len(s)])
      <4>1. state[k].failures + 1 = Len(s) + 1 - i
        BY <1>1, <1>2, <3>2, <3>4
      <4> QED BY <1>2, <1>3, <2>5, <4>1
    <3>6. state'[k] \in Kept
      <4>1. state'[k] = Entry(state[k].failures + 1, now)
        BY <1>3, <2>5
      <4>2. state[k].failures + 1 \in Nat \ {0}
        BY <3>4
      <4> QED BY <1>1, <4>1, <4>2, EntryType
    <3> QED BY <1>2, <3>2, <3>3, <3>5, <3>6 DEF k, s, old
  <2> QED BY <2>4, <2>5
<1> QED
  BY <1>4, <1>5

\* RecordFailure: only the name that failed is touched.
LEMMA FailureInv ==
    ASSUME IInv, NEW l \in Logins, RecordFailure(l)
    PROVE  IInv'
<1> DEFINE k == name[l]
           s == Append(streak[k], now)
<1>1. k \in Names /\ streak[k] \in Seq(Nat) /\ now \in Nat
  BY DEF IInv, TypeOK, RecordFailure
<1>2. /\ s \in Seq(Nat) /\ s # <<>> /\ state'[k] \in Kept
      /\ \E i \in DOMAIN s : LastRunFrom(s, i)
                             /\ state'[k] = Entry(Len(s) + 1 - i, s[Len(s)])
  BY FailureExtendsRun
<1>3. /\ streak' = [streak EXCEPT ![k] = s] /\ now' = now
      /\ \A q \in Names \ {k} : state'[q] = state[q]
      /\ state' \in [Names -> {None} \cup Kept]
  <2>1. DOMAIN state' = Names /\ \A q \in Names \ {k} : state'[q] = state[q]
    BY DEF IInv, TypeOK, RecordFailure
  <2>2. \A q \in Names : state'[q] \in {None} \cup Kept
    BY <1>2, <2>1 DEF IInv, TypeOK
  <2>3. state' = [q \in Names |-> state'[q]]
    BY DEF IInv, TypeOK, RecordFailure
  <2> QED BY <2>1, <2>2, <2>3 DEF RecordFailure
<1>4. \A i \in DOMAIN s : s[i] <= now
  BY <1>1, AppendProperties DEF IInv, Past
<1> HIDE DEF s, k
<1>5. TypeOK'
  <2>1. streak' \in [Names -> Seq(Nat)]
    BY <1>1, <1>2, <1>3 DEF IInv, TypeOK
  <2>2. /\ pc' = [pc EXCEPT ![l] = "idle"] /\ name' = [name EXCEPT ![l] = None]
        /\ UNCHANGED <<told, seen>>
    BY DEF RecordFailure, Return
  <2> QED BY <1>3, <2>1, <2>2 DEF IInv, TypeOK
<1>6. Refusals'
  BY DEF IInv, TypeOK, Refusals, RecordFailure, Return
<1>7. Past'
  BY <1>1, <1>3, <1>4 DEF IInv, TypeOK, Past
<1>8. ScheduleFollowsFailures'
  <2> SUFFICES ASSUME NEW q \in Names
               PROVE  IF streak'[q] = <<>> THEN state'[q] = None
                      ELSE \E i \in DOMAIN streak'[q] :
                             /\ LastRunFrom(streak'[q], i)
                             /\ state'[q] = Entry(Len(streak'[q]) + 1 - i,
                                                  streak'[q][Len(streak'[q])])
    BY DEF ScheduleFollowsFailures, LastRunFrom, Entry, Delay
  <2>1. CASE q = k
    <3>1. streak'[q] = s
      BY <1>1, <1>3, <2>1 DEF IInv, TypeOK
    <3> QED BY <1>2, <2>1, <3>1
  <2>2. CASE q # k
    <3>1. streak'[q] = streak[q] /\ state'[q] = state[q]
      BY <1>3, <2>2 DEF IInv, TypeOK
    <3> QED BY <3>1 DEF IInv, ScheduleFollowsFailures
  <2> QED BY <2>1, <2>2
<1> QED
  BY <1>5, <1>6, <1>7, <1>8 DEF IInv

\* RecordSuccess forgets the failures in both.
LEMMA SuccessInv ==
    ASSUME IInv, NEW l \in Logins, RecordSuccess(l)
    PROVE  IInv'
<1>1. name[l] \in Names
  BY DEF IInv, TypeOK, RecordSuccess
<1>2. /\ state' = [state EXCEPT ![name[l]] = None]
      /\ streak' = [streak EXCEPT ![name[l]] = <<>>] /\ now' = now
      /\ pc' = [pc EXCEPT ![l] = "idle"] /\ name' = [name EXCEPT ![l] = None]
      /\ UNCHANGED <<told, seen>>
  BY DEF RecordSuccess, Return
<1>3. TypeOK'
  BY <1>1, <1>2 DEF IInv, TypeOK
<1>4. Refusals' /\ Past'
  BY <1>1, <1>2 DEF IInv, TypeOK, Refusals, Past
<1>5. ScheduleFollowsFailures'
  <2> SUFFICES ASSUME NEW q \in Names
               PROVE  IF streak'[q] = <<>> THEN state'[q] = None
                      ELSE \E i \in DOMAIN streak'[q] :
                             /\ LastRunFrom(streak'[q], i)
                             /\ state'[q] = Entry(Len(streak'[q]) + 1 - i,
                                                  streak'[q][Len(streak'[q])])
    BY DEF ScheduleFollowsFailures, LastRunFrom, Entry, Delay
  <2>1. CASE q = name[l]
    BY <1>1, <1>2, <2>1 DEF IInv, TypeOK
  <2>2. CASE q # name[l]
    <3>1. streak'[q] = streak[q] /\ state'[q] = state[q]
      BY <1>2, <2>2 DEF IInv, TypeOK
    <3> QED BY <3>1 DEF IInv, ScheduleFollowsFailures
  <2> QED BY <2>1, <2>2
<1> QED
  BY <1>3, <1>4, <1>5 DEF IInv

\* Every step keeps the invariant.
LEMMA NextInv == IInv /\ [Next]_vars => IInv'
<1> SUFFICES ASSUME IInv, [Next]_vars PROVE IInv'
  OBVIOUS
<1>1. CASE Tick
  <2>1. now' = now + 1 /\ now < MaxTime
        /\ UNCHANGED <<state, pc, name, told, seen, streak>>
    BY <1>1 DEF Tick, requests
  <2>2. TypeOK'
    BY <2>1, ThrottleAssumption DEF IInv, TypeOK
  <2>3. Refusals'
    BY <2>1 DEF IInv, Refusals
  <2>4. Past'
    <3> SUFFICES ASSUME NEW k \in Names, NEW i \in DOMAIN streak[k]
                 PROVE  streak[k][i] <= now + 1
      BY <2>1 DEF Past
    <3>1. streak[k][i] \in Nat /\ streak[k][i] <= now /\ now \in Nat
      BY DEF IInv, TypeOK, Past
    <3> QED BY <3>1
  <2>5. ScheduleFollowsFailures'
    BY <2>1, SameSchedule DEF IInv
  <2> QED BY <2>2, <2>3, <2>4, <2>5 DEF IInv
<1>2. ASSUME NEW l \in Logins, NEW k \in Names, Arrive(l, k)
      PROVE  IInv'
  BY <1>2, ArriveInv
<1>3. ASSUME NEW l \in Logins, RecordFailure(l)
      PROVE  IInv'
  BY <1>3, FailureInv
<1>4. ASSUME NEW l \in Logins, RecordSuccess(l)
      PROVE  IInv'
  BY <1>4, SuccessInv
<1>5. ASSUME NEW l \in Logins, Unavailable(l)
      PROVE  IInv'
  <2>1. TypeOK'
    BY <1>5 DEF IInv, TypeOK, Unavailable, Return
  <2>2. Refusals' /\ Past'
    BY <1>5 DEF IInv, TypeOK, Refusals, Past, Unavailable, Return
  <2>3. ScheduleFollowsFailures'
    BY <1>5, SameSchedule DEF IInv, Unavailable
  <2> QED BY <2>1, <2>2, <2>3 DEF IInv
<1>6. CASE UNCHANGED vars
  <2>1. TypeOK' /\ Refusals' /\ Past'
    BY <1>6 DEF IInv, vars, TypeOK, Refusals, Past
  <2>2. ScheduleFollowsFailures'
    BY <1>6, SameSchedule DEF IInv, vars
  <2> QED BY <2>1, <2>2 DEF IInv
<1> QED
  BY <1>1, <1>2, <1>3, <1>4, <1>5, <1>6 DEF Next

THEOREM Invariance == Spec => []IInv
BY InitInv, NextInv, PTL DEF Spec

-----------------------------------------------------------------------------
(* What follows *)

\* The schedule of each name is a function of the times its logins failed at
\* (throttle.go:8-12), whatever logins for it and for others overlap.
THEOREM ScheduleIsSound == Spec => []ScheduleFollowsFailures
<1>1. IInv => ScheduleFollowsFailures
  BY DEF IInv
<1> QED
  BY Invariance, <1>1, PTL

\* The type of the throttle's state.
THEOREM TypeCorrect == Spec => []TypeOK
<1>1. IInv => TypeOK
  BY DEF IInv
<1> QED
  BY Invariance, <1>1, PTL

\* The header is rounded up by a second at most.
LEMMA RetryAfterRounds ==
    ASSUME NEW wait \in Nat
    PROVE  RetryAfter(wait) \in Nat /\ RetryAfter(wait) <= wait + Second
<1>1. /\ wait \div Second \in Nat /\ wait % Second \in Nat
      /\ wait = Second * (wait \div Second) + (wait % Second)
  BY ThrottleAssumption
<1>2. /\ Second * (wait \div Second) \in Nat
      /\ Second * (wait \div Second + 1) = Second * (wait \div Second) + Second
  BY <1>1, ThrottleAssumption
<1> QED
  BY <1>1, <1>2, ThrottleAssumption DEF RetryAfter

\* What is kept never locks a name out for longer than the ceiling.
LEMMA LocksAreShort ==
    ASSUME IInv, NEW k \in Names, state[k] # None
    PROVE  state[k].lockUntil \in Nat /\ state[k].lockUntil <= now + MaxDelay
<1>1. /\ state[k].lastFail <= now
      /\ state[k].lockUntil = state[k].lastFail + Delay(state[k].failures)
      /\ state[k] \in Kept /\ now \in Nat
  BY Schedule DEF IInv, TypeOK
<1>2. /\ state[k].failures \in Nat \ {0} /\ state[k].lastFail \in Nat
      /\ state[k].lockUntil \in Nat
  BY <1>1 DEF Kept
<1>3. Delay(state[k].failures) \in Nat /\ Delay(state[k].failures) <= MaxDelay
  BY <1>2, DelayBounds
<1> QED BY <1>1, <1>2, <1>3, ThrottleAssumption

ToldSoon == \A l \in Logins : told[l] <= now + MaxDelay + Second

\* A login is told on the lock of that moment; what it was told before is no
\* later now.
LEMMA ToldSoonNext == IInv /\ ToldSoon /\ [Next]_vars => ToldSoon'
<1> SUFFICES ASSUME IInv, ToldSoon, [Next]_vars PROVE ToldSoon'
  OBVIOUS
<1>0. /\ now \in Nat /\ told \in [Logins -> Nat]
      /\ MaxDelay \in Nat /\ Second \in Nat
  BY ThrottleAssumption DEF IInv, TypeOK
<1>1. CASE UNCHANGED told /\ (now' = now \/ now' = now + 1)
  BY <1>0, <1>1 DEF ToldSoon
<1>2. ASSUME NEW l \in Logins, NEW k \in Names, Arrive(l, k) PROVE ToldSoon'
  <2>1. CASE Allowed(k)
    <3>1. told' = [told EXCEPT ![l] = 0] /\ now' = now
      BY <1>2, <2>1 DEF Arrive
    <3> QED BY <1>0, <3>1 DEF ToldSoon
  <2>2. CASE ~Allowed(k)
    <3> DEFINE wait == state[k].lockUntil - now
    <3>1. told' = [told EXCEPT ![l] = now + RetryAfter(wait)] /\ now' = now
      BY <1>2, <2>2 DEF Arrive
    <3>2. state[k] # None /\ ~(state[k].lockUntil <= now)
      BY <2>2 DEF Allowed
    <3>3. wait \in Nat /\ wait <= MaxDelay
      BY <1>0, <3>2, LocksAreShort
    <3> HIDE DEF wait
    <3>4. RetryAfter(wait) \in Nat /\ RetryAfter(wait) <= MaxDelay + Second
      BY <1>0, <3>3, RetryAfterRounds
    <3>5. now + RetryAfter(wait) <= now + MaxDelay + Second
      BY <1>0, <3>4
    <3> QED BY <1>0, <3>1, <3>5 DEF ToldSoon
  <2> QED BY <2>1, <2>2
<1>3. CASE Tick
  BY <1>1, <1>3 DEF Tick, requests
<1>4. ASSUME NEW l \in Logins, RecordFailure(l) \/ RecordSuccess(l) \/ Unavailable(l)
      PROVE  ToldSoon'
  BY <1>1, <1>4 DEF RecordFailure, RecordSuccess, Unavailable, Return
<1>5. CASE UNCHANGED vars
  BY <1>1, <1>5 DEF vars, requests
<1> QED BY <1>2, <1>3, <1>4, <1>5 DEF Next

\* No name is locked for longer than throttleMaxDelay (throttle.go:16-20), and
\* no client is told to wait for more than a second longer (auth_routes.go:51).
THEOREM WaitsAreCapped == Spec => []WaitIsCapped
<1>1. Init => ToldSoon
  <2>1. 0 <= 0 + MaxDelay + Second
    BY ThrottleAssumption
  <2> QED BY <2>1 DEF Init, ToldSoon
<1>2. IInv /\ ToldSoon => WaitIsCapped
  BY LocksAreShort DEF WaitIsCapped, ToldSoon
<1> QED
  BY Invariance, <1>1, ToldSoonNext, <1>2, PTL DEF Spec

\* A login that comes back when Retry-After said is let in, unless another
\* attempt on the name has ended meanwhile (auth_routes.go:50-51).
THEOREM RetryAfterIsEnough == Spec => []RetryAfterSuffices
<1>1. IInv => RetryAfterSuffices
  <2> SUFFICES ASSUME IInv, NEW l \in Logins, pc[l] = "refused",
                      state[name[l]] = seen[l], told[l] <= now
               PROVE  Allowed(name[l])
    BY DEF RetryAfterSuffices
  <2>1. name[l] \in Names /\ seen[l] # None /\ seen[l].lockUntil <= told[l]
    BY DEF IInv, Refusals
  <2>2. seen[l].lockUntil \in Nat /\ told[l] \in Nat /\ now \in Nat
    BY <2>1 DEF IInv, TypeOK, Kept
  <2> QED BY <2>1, <2>2 DEF Allowed
<1> QED
  BY Invariance, <1>1, PTL

\* A failure never brings the end of the wait closer (throttle.go:70-85): the
\* quiet period that resets the count is at least as long as the ceiling.
THEOREM NeverShorter == Spec => FailuresNeverShortenTheWait
<1> DEFINE Step == \A k \in Names : state[k] # None /\ state'[k] # None
                                      => state[k].lockUntil <= state'[k].lockUntil
<1>1. IInv /\ [Next]_vars => [Step]_vars
  <2> SUFFICES ASSUME IInv, Next, NEW k \in Names, state[k] # None, state'[k] # None
               PROVE  state[k].lockUntil <= state'[k].lockUntil
    OBVIOUS
  <2>0. /\ state[k] \in Kept /\ state[k].lastFail <= now /\ now \in Nat
        /\ state[k].lockUntil = state[k].lastFail + Delay(state[k].failures)
        /\ state[k].failures \in Nat \ {0} /\ state[k].lastFail \in Nat
        /\ state[k].lockUntil \in Nat
    BY Schedule DEF IInv, TypeOK, Kept
  <2>1. CASE state'[k] = state[k]
    BY <2>0, <2>1
  <2>2. CASE state'[k] # state[k]
    <3>1. PICK l \in Logins : RecordFailure(l) /\ name[l] = k
      <4>1. ASSUME NEW l \in Logins, RecordFailure(l) \/ RecordSuccess(l)
            PROVE  RecordFailure(l) /\ name[l] = k
        BY <2>2, <4>1 DEF RecordFailure, RecordSuccess, IInv, TypeOK
      <4>2. \E l \in Logins : RecordFailure(l) \/ RecordSuccess(l)
        BY <2>2 DEF Next, Tick, Arrive, Unavailable
      <4> QED BY <4>1, <4>2
    <3>2. state'[k] = Entry(IF Fresh(k) THEN 1 ELSE state[k].failures + 1, now)
      BY <3>1 DEF RecordFailure, IInv, TypeOK
    <3>3. CASE Fresh(k)
      <4>1. state'[k].lockUntil = now + Delay(1)
        BY <2>0, <3>2, <3>3, EntryType
      <4>2. now - state[k].lastFail > DecayAfter
        BY <3>3 DEF Fresh
      <4>3. /\ Delay(1) \in Nat /\ Delay(state[k].failures) \in Nat
            /\ Delay(state[k].failures) <= MaxDelay
        BY <2>0, DelayBounds
      <4> QED BY <2>0, <4>1, <4>2, <4>3, ThrottleAssumption
    <3>4. CASE ~Fresh(k)
      <4>1. state'[k].lockUntil = now + Delay(state[k].failures + 1)
        BY <2>0, <3>2, <3>4, EntryType
      <4>2. /\ Delay(state[k].failures) <= Delay(state[k].failures + 1)
            /\ Delay(state[k].failures) \in Nat
            /\ Delay(state[k].failures + 1) \in Nat
        BY <2>0, DelayGrows, DelayBounds
      <4> QED BY <2>0, <4>1, <4>2
    <3> QED BY <3>3, <3>4
  <2> QED BY <2>1, <2>2
<1> QED
  BY Invariance, <1>1, PTL DEF Spec, FailuresNeverShortenTheWait

-----------------------------------------------------------------------------
(* The client of the MCP server *)

\* Tokens are numbered: whatever is cached or held has been issued.
Numbered ==
    /\ token \in 0 .. issued /\ expired \in SUBSET (1 .. issued)
    /\ \A c \in Calls :
         /\ before[c] <= issued
         /\ stage[c] \in {"store", "send", "answered"} => held[c] \in 1 .. issued

\* Until its request was answered, a call has had nothing carried out; the
\* first attempt can be followed by another only after a 401, which means
\* that nothing was.
Progress == \A c \in Calls :
    /\ stage[c] # "done" => outcome[c] = NoAnswer
    /\ stage[c] \in {"idle", "login", "store", "send"} =>
         applied[c] = 0 /\ attempts[c] \in 0 .. 1
    /\ stage[c] = "idle" => attempts[c] = 0
    /\ stage[c] = "answered" =>
         /\ attempts[c] \in 1 .. 2 /\ applied[c] \in 0 .. 1
         /\ answer[c] \in Results
         /\ answer[c] = "ok" => applied[c] = 1
         /\ answer[c] = "unauthorized" => applied[c] = 0

\* A second attempt is made with a token issued since the call began, and a
\* 401 means that the token the call holds has expired.
Refreshed == \A c \in Calls :
    /\ stage[c] = "store" => held[c] > before[c]
    /\ stage[c] = "send" /\ attempts[c] = 1 => held[c] > before[c]
    /\ stage[c] = "answered" /\ attempts[c] > 1 => held[c] > before[c]
    /\ stage[c] = "answered" /\ answer[c] = "unauthorized" => held[c] \in expired

ClientInv ==
    /\ ClientTypeOK /\ Numbered /\ Progress /\ Refreshed
    /\ OnceAndAsReported /\ RefreshIsTransparent

-----------------------------------------------------------------------------
LEMMA ClientInitially == ClientInit => ClientInv
<1> SUFFICES ASSUME ClientInit PROVE ClientInv
  OBVIOUS
<1> USE ClientAssumption DEF ClientInit
<1>1. ClientTypeOK
  BY DEF ClientTypeOK, Token
<1>2. Numbered /\ Progress /\ Refreshed
  BY DEF Numbered, Progress, Refreshed
<1>3. OnceAndAsReported /\ RefreshIsTransparent
  BY DEF OnceAndAsReported, RefreshIsTransparent
<1> QED
  BY <1>1, <1>2, <1>3 DEF ClientInv

LEMMA ClientTypesNext ==
    ASSUME ClientInv, [ClientNext]_clientVars PROVE ClientTypeOK'
<1> ClientTypeOK /\ Numbered /\ Progress
  BY DEF ClientInv
<1> USE ClientAssumption DEF ClientTypeOK, Token, Goto, Finish, server, Results
<1>1. ASSUME NEW c \in Calls, Begin(c) PROVE ClientTypeOK'
  BY <1>1 DEF Begin
<1>2. ASSUME NEW c \in Calls, LoginAnswered(c) PROVE ClientTypeOK'
  BY <1>2 DEF LoginAnswered
<1>3. ASSUME NEW c \in Calls, StoreToken(c) PROVE ClientTypeOK'
  <2>1. held[c] \in Token
    BY <1>3 DEF StoreToken, Numbered
  <2> QED BY <1>3, <2>1 DEF StoreToken
<1>4. ASSUME NEW c \in Calls, LoginFails(c) PROVE ClientTypeOK'
  BY <1>4 DEF LoginFails
<1>5. ASSUME NEW c \in Calls, Serve(c) PROVE ClientTypeOK'
  <2>1. attempts' \in [Calls -> 0 .. 2]
    BY <1>5 DEF Serve, Progress
  <2>2. applied' \in [Calls -> Nat]
    BY <1>5 DEF Serve
  <2>3. answer' \in [Calls -> {NoAnswer} \cup Results]
    BY <1>5 DEF Serve
  <2>4. stage' \in [Calls -> {"idle", "login", "store", "send", "answered", "done"}]
        /\ UNCHANGED <<token, issued, expired, held, outcome, before>>
    BY <1>5 DEF Serve
  <2> QED BY <2>1, <2>2, <2>3, <2>4
<1>6. ASSUME NEW c \in Calls, NetworkError(c) PROVE ClientTypeOK'
  BY <1>6 DEF NetworkError
<1>7. ASSUME NEW c \in Calls, Discard(c) PROVE ClientTypeOK'
  BY <1>7 DEF Discard
<1>8. ASSUME NEW c \in Calls, ReturnAnswer(c) PROVE ClientTypeOK'
  BY <1>8 DEF ReturnAnswer, Progress
<1>9. CASE Expire
  BY <1>9 DEF Expire
<1>10. CASE UNCHANGED clientVars
  BY <1>10 DEF clientVars
<1> QED
  BY <1>1, <1>2, <1>3, <1>4, <1>5, <1>6, <1>7, <1>8, <1>9, <1>10 DEF ClientNext

\* The rest of the invariant, one step after another.
LEMMA ClientRestNext ==
    ASSUME ClientInv, [ClientNext]_clientVars
    PROVE  /\ Numbered' /\ Progress' /\ Refreshed'
           /\ OnceAndAsReported' /\ RefreshIsTransparent'
<1> DEFINE Rest == /\ Numbered /\ Progress /\ Refreshed
                   /\ OnceAndAsReported /\ RefreshIsTransparent
<1> ClientTypeOK /\ Rest
  BY DEF ClientInv
<1> USE ClientAssumption
    DEF ClientTypeOK, Token, Goto, Finish, server, Results, Numbered, Progress,
        Refreshed, OnceAndAsReported, RefreshIsTransparent
<1>1. ASSUME NEW c \in Calls, Begin(c) PROVE Rest'
  BY <1>1 DEF Begin
<1>2. ASSUME NEW c \in Calls, LoginAnswered(c) PROVE Rest'
  BY <1>2 DEF LoginAnswered
<1>3. ASSUME NEW c \in Calls, StoreToken(c) PROVE Rest'
  BY <1>3 DEF StoreToken
<1>4. ASSUME NEW c \in Calls, LoginFails(c) PROVE Rest'
  BY <1>4 DEF LoginFails
<1>5. ASSUME NEW c \in Calls, Serve(c) PROVE Rest'
  BY <1>5 DEF Serve, Accepted
<1>6. ASSUME NEW c \in Calls, NetworkError(c) PROVE Rest'
  BY <1>6 DEF NetworkError
<1>7. ASSUME NEW c \in Calls, Discard(c) PROVE Rest'
  BY <1>7 DEF Discard
<1>8. ASSUME NEW c \in Calls, ReturnAnswer(c) PROVE Rest'
  BY <1>8 DEF ReturnAnswer
<1>9. CASE Expire
  BY <1>9 DEF Expire
<1>10. CASE UNCHANGED clientVars
  BY <1>10 DEF clientVars
<1> QED
  BY <1>1, <1>2, <1>3, <1>4, <1>5, <1>6, <1>7, <1>8, <1>9, <1>10 DEF ClientNext

LEMMA ClientInvariance == ClientSpec => []ClientInv
<1>1. ClientInv /\ [ClientNext]_clientVars => ClientInv'
  BY ClientTypesNext, ClientRestNext DEF ClientInv
<1> QED
  BY ClientInitially, <1>1, PTL DEF ClientSpec

-----------------------------------------------------------------------------
(* The theorems *)

\* The variables of the client keep their types; no call sends its request a
\* third time.
THEOREM ClientTypes == ClientSpec => []ClientTypeOK
<1>1. ClientInv => ClientTypeOK
  BY DEF ClientInv
<1> QED
  BY ClientInvariance, <1>1, PTL

\* For any number of calls, no request is carried out twice and no call
\* reports what was not done (main.go:205-211, 243-260).
THEOREM CarriedOutOnce == ClientSpec => []OnceAndAsReported
<1>1. ClientInv => OnceAndAsReported
  BY DEF ClientInv
<1> QED
  BY ClientInvariance, <1>1, PTL

\* However many calls share, discard and replace the cached token, a call
\* fails with 401 only if the token of its own login expired
\* (main.go:132-134).
THEOREM RefreshWorks == ClientSpec => []RefreshIsTransparent
<1>1. ClientInv => RefreshIsTransparent
  BY DEF ClientInv
<1> QED
  BY ClientInvariance, <1>1, PTL
=============================================================================
