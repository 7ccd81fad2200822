------------------------------ MODULE MCPClient ------------------------------
(***************************************************************************)
(* cmd/mcp-server/main.go: client, through which every tool call of an     *)
(* agent reaches the REST API.  One service account, one session token     *)
(* cached under a mutex and shared by all calls; a call that is answered   *)
(* 401 logs in again and repeats its request once.                         *)
(*                                                                         *)
(* The server is as internal/auth/session.go and api/auth_routes.go have   *)
(* it: a token is accepted until it expires (or the server is restarted    *)
(* with another secret).  Tokens are numbered as they are issued.          *)
(***************************************************************************)
EXTENDS Naturals, FiniteSets

CONSTANTS
    Calls,        \* tool calls, each made once
    MaxTokens,    \* bound on the tokens the server issues
    NoAnswer      \* the server has not answered, or the call not returned

ASSUME ClientAssumption ==
    /\ MaxTokens \in Nat \ {0}
    /\ NoAnswer \notin {"ok", "refused", "unauthorized"}

VARIABLES
    token,        \* c.token, 0 for ""
    issued,       \* tokens issued so far
    expired,      \* tokens the server no longer accepts
    stage,           \* where each call is
    held,         \* the call's own variable token
    attempts,     \* requests the call has sent
    answer,       \* what the server answered to the last one
    outcome,      \* what the call returned
    applied,      \* history: times the server carried the call's request out
    before        \* history: tokens issued before the call began

server == <<issued, expired, applied>>
clientVars == <<token, server, stage, held, attempts, answer, outcome, before>>

Token == 1 .. MaxTokens

\* main has logged in before it takes the first tool call.
ClientInit ==
    /\ token = 1 /\ issued = 1 /\ expired = {}
    /\ stage = [c \in Calls |-> "idle"]
    /\ held = [c \in Calls |-> 0]
    /\ attempts = [c \in Calls |-> 0]
    /\ answer = [c \in Calls |-> NoAnswer]
    /\ outcome = [c \in Calls |-> NoAnswer]
    /\ applied = [c \in Calls |-> 0]
    /\ before = [c \in Calls |-> 0]

Goto(c, label) == stage' = [stage EXCEPT ![c] = label]
Finish(c, result) == /\ Goto(c, "done")
                     /\ outcome' = [outcome EXCEPT ![c] = result]

-----------------------------------------------------------------------------
(* tokenOrLogin, login *)

\* cachedToken; an empty one makes the call log in.
Begin(c) ==
    /\ stage[c] = "idle"
    /\ before' = [before EXCEPT ![c] = issued]
    /\ held' = [held EXCEPT ![c] = token]
    /\ Goto(c, IF token = 0 THEN "login" ELSE "send")
    /\ UNCHANGED <<token, server, attempts, answer, outcome>>

\* POST /api/login succeeds.
LoginAnswered(c) ==
    /\ stage[c] = "login" /\ issued < MaxTokens
    /\ issued' = issued + 1
    /\ held' = [held EXCEPT ![c] = issued']
    /\ Goto(c, "store")
    /\ UNCHANGED <<token, expired, applied, attempts, answer, outcome, before>>

\* setToken(creds.Token), on the way out of login.
StoreToken(c) ==
    /\ stage[c] = "store"
    /\ token' = held[c]
    /\ Goto(c, "send")
    /\ UNCHANGED <<server, held, attempts, answer, outcome, before>>

\* The login is refused (throttled, wrong password, LDAP down) or unanswered.
LoginFails(c) ==
    /\ stage[c] = "login"
    /\ Finish(c, "error")
    /\ UNCHANGED <<token, server, held, attempts, answer, before>>

-----------------------------------------------------------------------------
(* attempt *)

Accepted(t) == t \in 1 .. issued /\ t \notin expired

\* The request reaches the server.  An error of the engine is answered 400, be
\* it a refusal or a failure after the change was made.
Serve(c) ==
    /\ stage[c] = "send"
    /\ attempts' = [attempts EXCEPT ![c] = @ + 1]
    /\ \/ /\ Accepted(held[c])
          /\ applied' = [applied EXCEPT ![c] = @ + 1]
          /\ \E a \in {"ok", "refused"} : answer' = [answer EXCEPT ![c] = a]
       \/ /\ Accepted(held[c])
          /\ answer' = [answer EXCEPT ![c] = "refused"]
          /\ UNCHANGED applied
       \/ /\ ~Accepted(held[c])
          /\ answer' = [answer EXCEPT ![c] = "unauthorized"]
          /\ UNCHANGED applied
    /\ Goto(c, "answered")
    /\ UNCHANGED <<token, issued, expired, held, outcome, before>>

\* Variant: a request without an answer is sent again.
NetworkRetry(c) ==
    /\ stage[c] \in {"send", "answered"}
    /\ IF attempts[c] < 2
         THEN Goto(c, "send") /\ UNCHANGED outcome
         ELSE Finish(c, "error")
    /\ UNCHANGED <<token, server, held, attempts, answer, before>>

\* The request or its answer is lost.
NetworkError(c) ==
    /\ stage[c] \in {"send", "answered"}
    /\ Finish(c, "error")
    /\ UNCHANGED <<token, server, held, attempts, answer, before>>

\* Variant: the second attempt takes whatever token is cached by then.
DiscardReusing(c) ==
    /\ stage[c] = "answered" /\ answer[c] = "unauthorized" /\ attempts[c] = 1
    /\ held' = [held EXCEPT ![c] = token]
    /\ Goto(c, IF token \in {0, held[c]} THEN "login" ELSE "send")
    /\ token' = IF token = held[c] THEN 0 ELSE token
    /\ UNCHANGED <<server, attempts, answer, outcome, before>>

\* Variant: every 401 is taken for the first.
DiscardAlways(c) ==
    /\ stage[c] = "answered" /\ answer[c] = "unauthorized"
    /\ token' = 0
    /\ Goto(c, "login")
    /\ UNCHANGED <<server, held, attempts, answer, outcome, before>>

\* The first 401: setToken(""), then a login of the call's own.
Discard(c) ==
    /\ stage[c] = "answered" /\ answer[c] = "unauthorized" /\ attempts[c] = 1
    /\ token' = 0
    /\ Goto(c, "login")
    /\ UNCHANGED <<server, held, attempts, answer, outcome, before>>

ReturnAnswer(c) ==
    /\ stage[c] = "answered" /\ (answer[c] # "unauthorized" \/ attempts[c] > 1)
    /\ Finish(c, answer[c])
    /\ UNCHANGED <<token, server, held, attempts, answer, before>>

-----------------------------------------------------------------------------

\* The lifetime of a token ends, or the server restarts with another secret.
Expire ==
    /\ \E gone \in SUBSET (1 .. issued \ expired) :
         gone # {} /\ expired' = expired \cup gone
    /\ UNCHANGED <<token, issued, applied, stage, held, attempts, answer,
                   outcome, before>>

ClientNext ==
    \/ Expire
    \/ \E c \in Calls :
         \/ Begin(c) \/ LoginAnswered(c) \/ StoreToken(c) \/ LoginFails(c)
         \/ Serve(c) \/ NetworkError(c) \/ Discard(c) \/ ReturnAnswer(c)

ClientSpec == ClientInit /\ [][ClientNext]_clientVars

-----------------------------------------------------------------------------
(* Properties *)

Results == {"ok", "refused", "unauthorized"}

ClientTypeOK ==
    /\ token \in {0} \cup Token /\ issued \in 0 .. MaxTokens
    /\ expired \in SUBSET Token
    /\ stage \in [Calls -> {"idle", "login", "store", "send", "answered",
                             "done"}]
    /\ held \in [Calls -> {0} \cup Token]
    /\ attempts \in [Calls -> 0 .. 2] /\ applied \in [Calls -> Nat]
    /\ answer \in [Calls -> {NoAnswer} \cup Results]
    /\ outcome \in [Calls -> {NoAnswer, "error"} \cup Results]
    /\ before \in [Calls -> 0 .. MaxTokens]

\* The repetition after a 401 never carries a change out twice, and a call
\* never reports what the server did not do: it says "saved" only if the save
\* was carried out, and "unauthorized" only if it was not
\* (main.go:205-211, 243-260).
OnceAndAsReported == \A c \in Calls :
    /\ applied[c] <= 1
    /\ outcome[c] = "ok" => applied[c] = 1
    /\ outcome[c] = "unauthorized" => applied[c] = 0

\* An agent sees a 401 only for a token issued, and expired, since the call
\* began, whatever the other calls did to the cached one meanwhile
\* (main.go:132-134, "transparently refreshed on a 401").
RefreshIsTransparent == \A c \in Calls :
    outcome[c] = "unauthorized" => held[c] > before[c] /\ held[c] \in expired
=============================================================================
