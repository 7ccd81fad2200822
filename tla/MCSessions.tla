----------------------------- MODULE MCSessions -----------------------------
(* A small instance of Sessions for TLC. *)
EXTENDS Sessions, TLC

\* Requests that set the teams differ in nothing but their name.
Requests == Permutations(Admins)

\* Bound: one Set at any time, a second only in the first second, and a third,
\* which may run alone after two that overlapped, only before the clock moves.
SetsEarly == /\ sets > 1 => now = 0
             /\ sets > 2 => part = 0

TwoMaps == {<<"a">>, <<"b", "b">>}

\* "ops" is listed for two roles, as an operator may do.
Lists == [adm |-> {"root"}, dev |-> {"ops"}, view |-> {"ops"}]

\* One map names the operators' group, the other the administrators', with a bar.
Named(m) ==
    [g \in Groups |->
        CASE m = <<"a">> /\ g = "ops" -> <<"Ops">>
          [] m = <<"b", "b">> /\ g = "root" -> <<"IT", "core">>
          [] OTHER -> <<"">>]
Naming == [m \in Maps \cup {NoMap} |-> IF m = NoMap THEN [g \in Groups |-> <<"">>] ELSE Named(m)]
Orgs == [u \in Users |-> <<"">>]
Nobody == <<"">>
=============================================================================
