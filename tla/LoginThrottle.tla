---------------------------- MODULE LoginThrottle ----------------------------
(***************************************************************************)
(* internal/auth/throttle.go and the login handler that uses it            *)
(* (internal/api/auth_routes.go): capped exponential backoff per user      *)
(* name.  A login is three steps with nothing held between them: Allow,    *)
(* Authenticate (a round trip to LDAP), then RecordFailure or              *)
(* RecordSuccess; any number of logins for one name may be under way.      *)
(*                                                                         *)
(* Time is counted in ticks, Second of them to a second.                   *)
(***************************************************************************)
EXTENDS Naturals, Sequences, FiniteSets

CONSTANTS
    Logins,       \* login requests in flight
    Names,        \* throttle keys
    None,
    Second,
    BaseDelay,    \* throttleBaseDelay (1 s)
    MaxDelay,     \* throttleMaxDelay (30 s)
    DecayAfter,   \* throttleDecayAfter (15 min)
    MaxTime,      \* bound on the clock
    MaxFailures   \* bound on the failures remembered by streak

ASSUME ThrottleAssumption ==
    /\ Second \in Nat \ {0} /\ BaseDelay \in Nat \ {0}
    /\ MaxDelay \in Nat /\ DecayAfter \in Nat
    /\ MaxTime \in Nat /\ MaxFailures \in Nat
    /\ BaseDelay <= MaxDelay /\ MaxDelay <= DecayAfter
    /\ None \notin [failures : Nat, lockUntil : Nat, lastFail : Nat]

VARIABLES
    now,
    state,        \* t.state: what is kept for each name, or None
    pc, name,     \* what each login does, and for which name
    told,         \* time a refused login was told to come back at
    seen,         \* history: the entry of t.state it was refused on
    streak        \* history: times of failures since the last success

vars == <<now, state, pc, name, told, seen, streak>>
requests == <<pc, name, told, seen>>

Init ==
    /\ now = 0
    /\ state = [k \in Names |-> None]
    /\ pc = [l \in Logins |-> "idle"]
    /\ name = [l \in Logins |-> None]
    /\ told = [l \in Logins |-> 0]
    /\ seen = [l \in Logins |-> None]
    /\ streak = [k \in Names |-> <<>>]

Tick ==
    /\ now < MaxTime
    /\ now' = now + 1
    /\ UNCHANGED <<state, requests, streak>>

-----------------------------------------------------------------------------
(* Allow *)

Allowed(k) == state[k] = None \/ state[k].lockUntil <= now

\* Variant: the wait rounded down to whole seconds.
RetryAfterFloor(wait) == Second * (wait \div Second)

\* The Retry-After header, in ticks.
RetryAfter(wait) == Second * (wait \div Second + 1)

Arrive(l, k) ==
    /\ pc[l] \in {"idle", "refused"}
    /\ name' = [name EXCEPT ![l] = k]
    /\ IF Allowed(k)
         THEN /\ pc' = [pc EXCEPT ![l] = "authenticating"]
              /\ told' = [told EXCEPT ![l] = 0]
              /\ seen' = [seen EXCEPT ![l] = None]
         ELSE /\ pc' = [pc EXCEPT ![l] = "refused"]
              /\ told' = [told EXCEPT ![l] =
                            now + RetryAfter(state[k].lockUntil - now)]
              /\ seen' = [seen EXCEPT ![l] = state[k]]
    /\ UNCHANGED <<now, state, streak>>

-----------------------------------------------------------------------------
(* RecordFailure, RecordSuccess *)

Doubled == <<1, 2, 4, 8, 16, 32>>

\* Variant: past the ceiling the delay starts over.
DelayRestarts(n) ==
    LET d == BaseDelay * Doubled[IF n > 6 THEN 6 ELSE n]
    IN  IF d > MaxDelay THEN BaseDelay ELSE d

\* Backoff after n failures in a row: doubled five times at most, then capped.
Delay(n) ==
    LET d == BaseDelay * Doubled[IF n > 6 THEN 6 ELSE n]
    IN  IF d > MaxDelay THEN MaxDelay ELSE d

\* Variant: the quiet period is measured from the end of the wait.
FreshAfterWait(k) == state[k] = None \/ now - state[k].lastFail > BaseDelay

\* The count starts again after a success or a quiet period.
Fresh(k) == state[k] = None \/ now - state[k].lastFail > DecayAfter

\* What is kept after n failures in a row, the last of them at t.
Entry(n, t) == [failures |-> n, lastFail |-> t, lockUntil |-> t + Delay(n)]

Return(l) ==
    /\ pc' = [pc EXCEPT ![l] = "idle"]
    /\ name' = [name EXCEPT ![l] = None]
    /\ UNCHANGED <<told, seen>>

RecordFailure(l) ==
    LET k == name[l] IN
    /\ pc[l] = "authenticating" /\ Len(streak[k]) < MaxFailures
    /\ state' = [state EXCEPT ![k] =
         Entry(IF Fresh(k) THEN 1 ELSE state[k].failures + 1, now)]
    /\ streak' = [streak EXCEPT ![k] = Append(@, now)]
    /\ Return(l)
    /\ UNCHANGED now

\* Variant: the entry is kept, with no failures.
SuccessZeroes(l) ==
    /\ pc[l] = "authenticating"
    /\ state' = [state EXCEPT ![name[l]] =
         IF @ = None THEN None ELSE [@ EXCEPT !.failures = 0]]
    /\ streak' = [streak EXCEPT ![name[l]] = <<>>]
    /\ Return(l)
    /\ UNCHANGED now

RecordSuccess(l) ==
    /\ pc[l] = "authenticating"
    /\ state' = [state EXCEPT ![name[l]] = None]
    /\ streak' = [streak EXCEPT ![name[l]] = <<>>]
    /\ Return(l)
    /\ UNCHANGED now

\* LDAP could not be asked: 502, and nothing is recorded.
Unavailable(l) ==
    /\ pc[l] = "authenticating"
    /\ Return(l)
    /\ UNCHANGED <<now, state, streak>>

Next ==
    \/ Tick
    \/ \E l \in Logins :
         \/ \E k \in Names : Arrive(l, k)
         \/ RecordFailure(l) \/ RecordSuccess(l) \/ Unavailable(l)

Spec == Init /\ [][Next]_vars

-----------------------------------------------------------------------------
(* Properties *)

Kept == [failures : Nat \ {0}, lockUntil : Nat, lastFail : Nat]

TypeOK ==
    /\ now \in 0 .. MaxTime
    /\ state \in [Names -> {None} \cup Kept]
    /\ pc \in [Logins -> {"idle", "authenticating", "refused"}]
    /\ name \in [Logins -> {None} \cup Names]
    /\ \A l \in Logins : pc[l] = "authenticating" => name[l] \in Names
    /\ told \in [Logins -> Nat]
    /\ seen \in [Logins -> {None} \cup Kept]
    /\ streak \in [Names -> Seq(Nat)]

\* Nobody is locked out for longer than the ceiling, however many failures of
\* however many concurrent logins the name has (throttle.go:16-20); and nobody is
\* told to come back later than a second after that, the second by which the
\* header rounds up (auth_routes.go:51).
WaitIsCapped ==
    /\ \A k \in Names : state[k] # None => state[k].lockUntil <= now + MaxDelay
    /\ \A l \in Logins : told[l] <= now + MaxDelay + Second

\* The failures that count are those from the i-th on: it came after a quiet
\* period, and none came after it.
LastRunFrom(s, i) ==
    LET Quiet(j) == s[j] - s[j - 1] > DecayAfter
    IN  (i = 1 \/ Quiet(i)) /\ \A j \in i + 1 .. Len(s) : ~Quiet(j)

\* The schedule of a name follows from when its logins failed, and from
\* nothing else (throttle.go:8-12): n failures in a row, the last at t, hold
\* the next login back until t + Delay(n).
ScheduleFollowsFailures == \A k \in Names :
    LET s == streak[k] IN
    IF s = <<>> THEN state[k] = None
    ELSE \E i \in DOMAIN s :
           LastRunFrom(s, i) /\ state[k] = Entry(Len(s) + 1 - i, s[Len(s)])

\* A failure never shortens the wait, not even when it starts a new count
\* after a quiet period (throttle.go:70-85).
FailuresNeverShortenTheWait ==
    [][\A k \in Names : state[k] # None /\ state'[k] # None
                          => state[k].lockUntil <= state'[k].lockUntil]_vars

\* Retry-After is enough: a login that comes back when it was told to is let
\* in, unless the name has failed or succeeded again meanwhile
\* (auth_routes.go:50-51).
RetryAfterSuffices == \A l \in Logins :
    pc[l] = "refused" /\ state[name[l]] = seen[l] /\ told[l] <= now
        => Allowed(name[l])
=============================================================================
