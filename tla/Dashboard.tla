----------------------------- MODULE Dashboard -----------------------------
(***************************************************************************)
(* The status cards of a dashboard page (api/integrations.go) over what    *)
(* S3Access answers: the Trino card submits a statement to see whether it  *)
(* is accepted, cancels it, and then asks OPA for the catalogs of the      *)
(* user's teams; the OPA card asks OPA on its own. Calls to Trino and OPA  *)
(* go with the page's request: when the browser leaves they are given up.  *)
(***************************************************************************)
EXTENDS S3Access

CONSTANTS
    Pages,
    RoleGroup,         \* user -> group configured for the role, or None
    OpaDocs,           \* [teams, groups]: what OPA may serve, None for nothing
    Catalogs           \* catalogs configured for accounts without teams

ASSUME DashboardAssumption == DOMAIN RoleGroup = Users

VARIABLES
    visitor,    \* page -> user
    opaDoc,
    stage,      \* page -> where its Trino request is
    queue,      \* pages whose statement the coordinator holds
    left,       \* pages whose browser has gone
    lost,       \* history: pages whose answer or cancel did not arrive
    upset,      \* history: pages between whose two looks OPA changed, or that OPA failed
    catalogs,   \* page -> catalogs on its Trino card, or None
    grants      \* page -> grants on its OPA card, Broken for an error, or None

dvars == <<visitor, opaDoc, stage, queue, left, lost, upset, catalogs, grants>>
allvars == <<s3vars, dvars>>

-----------------------------------------------------------------------------
(* The grants document *)

TeamCatalogs(doc, t) == IF t \in DOMAIN doc.teams THEN doc.teams[t] ELSE {}

allCatalogs(doc) == UNION {doc.teams[t] : t \in DOMAIN doc.teams}

ResolveTeams(doc, teams) ==
    {[team |-> t, catalogs |-> TeamCatalogs(doc, t)] : t \in teams}

\* Resolve: by the group of the user's role, "*" for every team.
ResolveGroup(doc, group) ==
    IF group = None \/ group \notin DOMAIN doc.groups THEN {}
    ELSE {[team |-> t,
           catalogs |-> IF t = "*" THEN allCatalogs(doc) ELSE TeamCatalogs(doc, t)]
          : t \in doc.groups[group]}

-----------------------------------------------------------------------------
(* The Trino card *)

At(p, here, next) == stage[p] = here /\ stage' = [stage EXCEPT ![p] = next]

Submit(p) ==
    /\ p \notin left /\ At(p, "new", "post")
    /\ UNCHANGED <<visitor, opaDoc, queue, left, lost, upset, catalogs, grants>>

Refuse(p) ==
    /\ At(p, "post", "opa")
    /\ UNCHANGED <<visitor, opaDoc, queue, left, lost, upset, catalogs, grants>>

Accept(p) ==
    /\ At(p, "post", "queued")
    /\ queue' = queue \cup {p}
    /\ UNCHANGED <<visitor, opaDoc, left, lost, upset, catalogs, grants>>

\* Variant: that the coordinator answered is all the card needs.
AnswerEnough(p) ==
    /\ p \notin left /\ At(p, "queued", "opa")
    /\ UNCHANGED <<visitor, opaDoc, queue, left, lost, upset, catalogs, grants>>

\* The coordinator's answer names the statement.
Answer(p) ==
    /\ p \notin left /\ At(p, "queued", "cancel")
    /\ UNCHANGED <<visitor, opaDoc, queue, left, lost, upset, catalogs, grants>>

Cancel(p) ==
    /\ p \notin left /\ At(p, "cancel", "opa")
    /\ queue' = queue \ {p}
    /\ UNCHANGED <<visitor, opaDoc, left, lost, upset, catalogs, grants>>

\* The answer does not come, has no id, or the cancel fails on its way there or
\* back: a timeout, an error, a browser that has gone.
Lose(p) ==
    /\ \/ At(p, "queued", "opa") /\ UNCHANGED queue
       \/ At(p, "cancel", "opa") /\ queue' \in {queue, queue \ {p}}
    /\ lost' = lost \cup {p}
    /\ UNCHANGED <<visitor, opaDoc, left, upset, catalogs, grants>>

\* The coordinator ends a statement nobody fetches.
Reap(p) ==
    /\ p \in queue
    /\ queue' = queue \ {p}
    /\ UNCHANGED <<visitor, opaDoc, stage, left, lost, upset, catalogs, grants>>

\* Variant: teams without a catalog are shown the general list, as the S3 card
\* does with its buckets.
CardCatalogsOrAll(p) ==
    LET shown == UNION {g.catalogs : g \in ResolveTeams(opaDoc, visitor[p].teams)}
    IN IF visitor[p].teams = {} \/ shown = {} THEN Catalogs ELSE shown

\* With teams, the union of their catalogs.
CardCatalogs(p) ==
    IF visitor[p].teams = {} THEN Catalogs
    ELSE UNION {g.catalogs : g \in ResolveTeams(opaDoc, visitor[p].teams)}

ShowCatalogs(p) ==
    /\ (opaDoc # None /\ p \notin left) \/ visitor[p].teams = {}
    /\ At(p, "opa", "done")
    /\ catalogs' = [catalogs EXCEPT ![p] = CardCatalogs(p)]
    /\ UNCHANGED <<visitor, opaDoc, queue, left, lost, upset, grants>>

\* Without an answer from OPA the general list, teams or not.
ShowAnyCatalogs(p) ==
    /\ visitor[p].teams # {} /\ At(p, "opa", "done")
    /\ catalogs' = [catalogs EXCEPT ![p] = Catalogs]
    /\ upset' = upset \cup {p}
    /\ UNCHANGED <<visitor, opaDoc, queue, left, lost, grants>>

-----------------------------------------------------------------------------
(* The OPA card *)

ShowGrants(p) ==
    /\ grants[p] = None /\ p \notin left /\ opaDoc # None
    /\ grants' = [grants EXCEPT ![p] =
           IF visitor[p].teams # {} THEN ResolveTeams(opaDoc, visitor[p].teams)
           ELSE ResolveGroup(opaDoc, RoleGroup[visitor[p]])]
    /\ UNCHANGED <<visitor, opaDoc, stage, queue, left, lost, upset, catalogs>>

ShowNoGrants(p) ==
    /\ grants[p] = None
    /\ grants' = [grants EXCEPT ![p] = Broken]
    /\ UNCHANGED <<visitor, opaDoc, stage, queue, left, lost, upset, catalogs>>

-----------------------------------------------------------------------------

\* The document OPA serves changes, or OPA goes away or comes back.
EditOpa ==
    /\ opaDoc' \in OpaDocs \ {opaDoc}
    /\ upset' = upset \cup {p \in Pages : (catalogs[p] = None) # (grants[p] = None)}
    /\ UNCHANGED <<visitor, stage, queue, left, lost, catalogs, grants>>

Leave(p) ==
    /\ p \notin left
    /\ left' = left \cup {p}
    /\ UNCHANGED <<visitor, opaDoc, stage, queue, lost, upset, catalogs, grants>>

DInit ==
    /\ S3Init
    /\ visitor \in [Pages -> Users] /\ opaDoc \in OpaDocs
    /\ stage = [p \in Pages |-> "new"]
    /\ queue = {} /\ left = {} /\ lost = {} /\ upset = {}
    /\ catalogs = [p \in Pages |-> None]
    /\ grants = [p \in Pages |-> None]

PageStep(p) ==
    \/ Submit(p) \/ Refuse(p) \/ Accept(p) \/ Answer(p) \/ Cancel(p) \/ Lose(p) \/ Reap(p)
    \/ ShowCatalogs(p) \/ ShowAnyCatalogs(p) \/ ShowGrants(p) \/ ShowNoGrants(p) \/ Leave(p)

DNext ==
    \/ S3Next /\ UNCHANGED dvars
    \/ Change /\ EditOpa /\ UNCHANGED <<policyDir, declaration, backend, mirror, report>>
    \/ \E p \in Pages : PageStep(p) /\ UNCHANGED s3vars

DSpec == DInit /\ [][DNext]_allvars

-----------------------------------------------------------------------------
(* Properties *)

Stages == {"new", "post", "queued", "cancel", "opa", "done"}
Drifts == [items : SUBSET [key : Keys, declared : SUBSET Policies,
                           actual : SUBSET Policies, kind : {"undeclared", "unapplied"}],
           declared : SUBSET Held, actual : SUBSET Attached]

DashboardTypeOK ==
    /\ policyDir \in PolicyDirs /\ declaration \in Declarations
    /\ backend \subseteq Attached
    /\ mirror # None =>
          /\ mirror.catalog \in PolicyDirs /\ Usable(mirror.catalog)
          /\ mirror.attachments \subseteq Held
    /\ report = None \/ report \in Drifts
    /\ changes \in 0 .. MaxChanges
    /\ visitor \in [Pages -> Users] /\ opaDoc \in OpaDocs
    /\ stage \in [Pages -> Stages]
    /\ queue \subseteq Pages /\ left \subseteq Pages
    /\ lost \subseteq Pages /\ upset \subseteq Pages
    /\ DOMAIN catalogs = Pages /\ DOMAIN grants = Pages

\* A check leaves no work on the system it checks: once the Trino request is
\* over, its statement is gone from the coordinator, unless its answer or its
\* cancel was lost, as happens to a browser that leaves (trino/client.go:66-74,
\* 80-91).
NothingLeftQueued ==
    \A p \in queue : stage[p] \in {"queued", "cancel"} \/ p \in lost

\* Two cards of one page, answered by two requests, say the same of an account
\* with teams: the catalogs on the Trino card are those of the teams on the OPA
\* card, unless OPA changed in between or did not answer one of them; and who
\* has no teams sees the configured catalogs (integrations.go:53-60, 71-80, 90-106).
CardsAgree ==
    \A p \in Pages :
        catalogs[p] # None =>
          IF visitor[p].teams = {} THEN catalogs[p] = Catalogs
          ELSE \/ grants[p] \in {None, Broken} \/ p \in upset
               \/ catalogs[p] = UNION {g.catalogs : g \in grants[p]}
=============================================================================
