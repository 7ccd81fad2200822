------------------------------ MODULE S3Access ------------------------------
(***************************************************************************)
(* What the server says of a user's S3 permissions (internal/s3iam): policy *)
(* documents and a declaration of who holds which of them, both read once   *)
(* at start, folded into capabilities per bucket, and compared on request   *)
(* with what the S3 backend has attached.                                   *)
(*                                                                          *)
(* An action or a resource is the string a document has; what it means to   *)
(* the backend is given by Matched and Covers, what the code makes of it by *)
(* the operators below. A document is the set of its statements.            *)
(***************************************************************************)
EXTENDS Integers

CONSTANTS
    Capability,     \* action of the table -> what it is shown as
    Matched,        \* action in a document -> actions the backend takes it for
    Starred,        \* actions in documents whose one wildcard is a "*" at the end
    RowOf,          \* resource -> bucket part of its ARN, None if it has none
    Covers,         \* resource -> buckets it is about
    Within,         \* bucket part of an ARN -> buckets it stands for
    Account,        \* the bucket part "*"
    Key,            \* spelling of a DN -> its normalised form
    Users,          \* [dn, groups, teams]: what a session carries
    Policies,
    Broken, None,
    PolicyDirs,     \* what the policy directory may hold
    Declarations,   \* what the declaration may say, None for an unusable file
    Attached,       \* what the backend may have attached
    BucketMap, Buckets,   \* configured lists: of a team; of everyone
    MaxChanges

Kinds == {"user", "group"}
Keys == {Key[dn] : dn \in DOMAIN Key}
Held == [kind : Kinds, key : Keys, policy : Policies]

ASSUME S3Assumption ==
    /\ \A f \in DOMAIN Capability : Matched[f] = {f}
    /\ \A r \in DOMAIN RowOf : RowOf[r] # None => Covers[r] \subseteq Within[RowOf[r]]
    /\ \A u \in Users : u.groups \subseteq DOMAIN Key /\ u.dn \in DOMAIN Key
    /\ \A d \in PolicyDirs : DOMAIN d \subseteq Policies
    /\ \A d \in PolicyDirs : \A p \in DOMAIN d : d[p] # Broken =>
          \A st \in d[p] : /\ st.negated \in BOOLEAN /\ st.condition \in BOOLEAN
                          /\ st.resources \subseteq DOMAIN RowOf
    /\ Attached \subseteq [kind : Kinds, dn : DOMAIN Key, policy : Policies]
    /\ \A d \in Declarations \ {None} : \A e \in d :
          /\ e.users \cup e.groups \subseteq DOMAIN Key
          /\ e.policy \in Policies \cup {None}
    /\ MaxChanges \in Nat

VARIABLES
    policyDir, declaration,   \* files
    backend,                  \* entries [kind, dn, policy] the S3 backend enforces
    mirror,                   \* what the running server read, or None
    report,                   \* last drift report, or None
    changes

s3vars == <<policyDir, declaration, backend, mirror, report, changes>>

-----------------------------------------------------------------------------
(* Policy documents *)

capabilitiesForAction(f) ==
    IF f \in DOMAIN Capability THEN {Capability[f]}
    ELSE IF f \in Starred THEN {Capability[a] : a \in Matched[f] \cap DOMAIN Capability}
    ELSE {}

Granted(st) == UNION {capabilitiesForAction(f) : f \in st.actions}

\* The statements that count.
Folded(doc) == {st \in doc : st.effect = "Allow" /\ ~st.negated}

\* fold: the pairs of bucket and capability that a document adds.
Fold(doc) ==
    UNION {({RowOf[r] : r \in st.resources} \ {None}) \X Granted(st) : st \in Folded(doc)}

\* Variant: an unknown action is reported only if the statement grants nothing.
UnsaidIfNothing(st) ==
    IF st.effect # "Allow" THEN {"Effect"}
    ELSE IF st.negated THEN {"NotAction"}
    ELSE (IF st.condition THEN {"Condition"} ELSE {})
         \cup {f \in st.actions : Granted(st) = {}}
         \cup {r \in st.resources : RowOf[r] = None /\ Granted(st) # {}}

\* fold: what it warns about in a statement.
Unsaid(st) ==
    IF st.effect # "Allow" THEN {"Effect"}
    ELSE IF st.negated THEN {"NotAction"}
    ELSE (IF st.condition THEN {"Condition"} ELSE {})
         \cup {f \in st.actions : capabilitiesForAction(f) = {}}
         \cup {r \in st.resources : RowOf[r] = None /\ Granted(st) # {}}

-----------------------------------------------------------------------------
(* Attachments *)

\* LoadAttachments: every entry under the normalised DN of its subjects.
Loaded(entries) ==
    UNION {{[kind |-> "user", key |-> Key[dn], policy |-> e.policy] : dn \in e.users}
           \cup {[kind |-> "group", key |-> Key[dn], policy |-> e.policy] : dn \in e.groups}
           : e \in entries}

Usable(dir) == DOMAIN dir # {} /\ \A p \in DOMAIN dir : dir[p] # Broken

Declared(d) == d # None /\ d # {} /\ \A e \in d : e.policy # None

Source(kind, dn, p) == [kind |-> kind, dn |-> dn, policy |-> p]

\* Attachments.Resolve: who holds which policy, as the session spells it.
Sources(held, u) ==
    {s \in [kind : Kinds, dn : {u.dn} \cup u.groups, policy : Policies] :
        /\ s.kind = "user" => s.dn = u.dn
        /\ s.kind = "group" => s.dn \in u.groups
        /\ [kind |-> s.kind, key |-> Key[s.dn], policy |-> s.policy] \in held}

-----------------------------------------------------------------------------
(* The card *)

\* Catalog.Resolve.
Known(m, sources) == {s \in sources : s.policy \in DOMAIN m.catalog}
Pairs(m, sources) == UNION {Fold(m.catalog[s.policy]) : s \in Known(m, sources)}
Via(m, sources, b) ==
    {s \in Known(m, sources) : \E c \in Fold(m.catalog[s.policy]) : c[1] = b}
Rows(m, sources) ==
    {[bucket |-> b, capabilities |-> {x[2] : x \in {x \in Pairs(m, sources) : x[1] = b}},
      via |-> Via(m, sources, b)] : b \in {x[1] : x \in Pairs(m, sources)}}
Warnings(m, sources) ==
    {<<s.policy, None, "document">> : s \in sources \ Known(m, sources)}
    \cup UNION {UNION {{<<s.policy, st, x>> : x \in Unsaid(st)} : st \in m.catalog[s.policy]}
                : s \in Known(m, sources)}

\* The bucket list: from the rows, else from the teams, else the general one.
ShownBuckets(m, u) ==
    LET derived == {row.bucket : row \in Rows(m, Sources(m.attachments, u))} \ {Account}
        ofTeams == UNION {BucketMap[t] : t \in u.teams \cap DOMAIN BucketMap}
    IN IF m # None /\ derived # {} THEN derived
       ELSE IF ofTeams # {} THEN ofTeams ELSE Buckets

-----------------------------------------------------------------------------
(* The drift check *)

\* Everything held under a DN, as a user or as a group.
HeldBy(held, k) == {h.policy : h \in {h \in held : h.key = k}}

\* The backend's view, turned from policies to normalised DNs.
Actual(entries) ==
    {[kind |-> e.kind, key |-> Key[e.dn], policy |-> e.policy] : e \in entries}

\* Variant: only what is declared is compared.
SubjectsDeclared(declared, actual) == {h.key : h \in declared}

Subjects(declared, actual) == {h.key : h \in declared \cup actual}

Items(declared, actual) ==
    {[key |-> k, declared |-> HeldBy(declared, k), actual |-> HeldBy(actual, k),
      kind |-> IF HeldBy(declared, k) = {} THEN "undeclared" ELSE "unapplied"]
     : k \in {k \in Subjects(declared, actual) : HeldBy(declared, k) # HeldBy(actual, k)}}

-----------------------------------------------------------------------------
(* Steps *)

\* Variant: what the directory holds is taken as it is.
ReadAnyDir(dir, d) ==
    IF Declared(d) THEN [catalog |-> dir, attachments |-> Loaded(d)] ELSE None

\* Both halves or neither.
Read(dir, d) ==
    IF Usable(dir) /\ Declared(d)
    THEN [catalog |-> dir, attachments |-> Loaded(d)]
    ELSE None

S3Init ==
    /\ policyDir \in PolicyDirs /\ declaration \in Declarations
    /\ backend \in {{}, Attached}
    /\ mirror = Read(policyDir, declaration)
    /\ report = None
    /\ changes = 0

Change == changes < MaxChanges /\ changes' = changes + 1

\* An operator edits the mounted files; the server does not look.
EditFiles ==
    /\ Change
    /\ policyDir' \in PolicyDirs /\ declaration' \in Declarations
    /\ UNCHANGED <<backend, mirror, report>>

\* Someone attaches or detaches a policy at the backend.
Attach ==
    /\ Change
    /\ \E e \in Attached :
          backend' = IF e \in backend THEN backend \ {e} ELSE backend \cup {e}
    /\ UNCHANGED <<policyDir, declaration, mirror, report>>

\* The server starts again.
Restart ==
    /\ mirror' = Read(policyDir, declaration)
    /\ UNCHANGED <<policyDir, declaration, backend, report, changes>>

\* GET /api/s3iam/drift.
CheckDrift ==
    /\ mirror # None
    /\ report' = [items |-> Items(mirror.attachments, Actual(backend)),
                  declared |-> mirror.attachments, actual |-> backend]   \* history
    /\ UNCHANGED <<policyDir, declaration, backend, mirror, changes>>

\* The backend refuses or cannot be reached: an error, never a report.
CheckFails ==
    /\ mirror # None
    /\ report' = None
    /\ UNCHANGED <<policyDir, declaration, backend, mirror, changes>>

S3Next == EditFiles \/ Attach \/ Restart \/ CheckDrift \/ CheckFails

-----------------------------------------------------------------------------
(* Properties *)

\* What a statement permits, Deny aside: action a on bucket b.
Permits(st, a, b) ==
    /\ st.effect = "Allow"
    /\ \/ st.negated
       \/ \E f \in st.actions, r \in st.resources : a \in Matched[f] /\ b \in Covers[r]

\* Nothing a user holds is left out in silence and nothing is made up: whatever
\* an attached document permits among the actions of the table is in a row with
\* its source, or the card warns of that very statement; a missing document, a
\* Deny and a condition are warned of; each capability of a row is permitted
\* somewhere in its bucket by a source the row names; and configured bucket
\* names never mix with derived ones (policy.go:13-15, 42-46, 178-185,
\* access.go:97-105, integrations.go:175-181).
CardIsHonest ==
    mirror # None =>
      \A u \in Users :
        LET sources == Sources(mirror.attachments, u)
            rows == Rows(mirror, sources)
            warned == {<<w[1], w[2]>> : w \in Warnings(mirror, sources)}
        IN /\ \A s \in sources :
                IF s.policy \notin DOMAIN mirror.catalog THEN <<s.policy, None>> \in warned
                ELSE \A st \in mirror.catalog[s.policy] :
                       \/ <<s.policy, st>> \in warned
                       \/ /\ st.effect = "Allow" /\ ~st.condition
                          /\ \A f \in st.actions, r \in st.resources :
                             \A a \in Matched[f] \cap DOMAIN Capability, b \in Covers[r] :
                                \E row \in rows : /\ b \in Within[row.bucket] /\ s \in row.via
                                                  /\ Capability[a] \in row.capabilities
           /\ \A row \in rows : \A c \in row.capabilities :
                \E s \in row.via, a \in DOMAIN Capability :
                   /\ Capability[a] = c
                   /\ \E st \in mirror.catalog[s.policy] :
                      \E f \in st.actions, r \in st.resources :
                         /\ st.effect = "Allow" /\ RowOf[r] = row.bucket
                         /\ a \in Matched[f]
           /\ \/ ShownBuckets(mirror, u) \subseteq {row.bucket : row \in rows}
              \/ \A row \in rows : row.bucket = Account

\* The policies a user has by what the backend enforces.
Enforced(entries, u) ==
    {e.policy : e \in {e \in entries : \/ e.kind = "user" /\ Key[e.dn] = Key[u.dn]
                                       \/ e.kind = "group" /\ Key[e.dn] \in {Key[g] : g \in u.groups}}}

\* A DN that one side has among the users and the other among the groups.
Misfiled(declared, actual, k) ==
    \E h \in declared, e \in actual : h.key = k /\ Key[e.dn] = k /\ h.kind # e.kind

\* A drift report can be relied on, in both directions: when a user's card is
\* drawn from other policies than the backend enforces, the report names one of
\* the user's DNs, unless one of them is misfiled; and a DN the report names has
\* a policy on one side only, to which the report gives the right direction when
\* nothing is declared (drift.go:17-24, 46-47, 105-153).
DriftTells ==
    report # None =>
      /\ \A u \in Users :
           LET mine == {Key[dn] : dn \in {u.dn} \cup u.groups}
           IN \/ {s.policy : s \in Sources(report.declared, u)} = Enforced(report.actual, u)
              \/ \E item \in report.items : item.key \in mine
              \/ \E k \in mine : Misfiled(report.declared, report.actual, k)
      /\ \A item \in report.items :
           /\ \E p \in Policies :
                (\E h \in report.declared : h.key = item.key /\ h.policy = p)
                # (\E e \in report.actual : Key[e.dn] = item.key /\ e.policy = p)
           /\ item.kind = "undeclared" => item.actual # {}
=============================================================================
