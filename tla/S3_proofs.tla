------------------------------ MODULE S3_proofs ------------------------------
(***************************************************************************)
(* Theorems about what the server does with the S3 service: S3Access and   *)
(* Dashboard, for any table of actions, any documents, declaration,        *)
(* backend, users, pages and grants, and BackupSyncer, for any tree, any   *)
(* calendar and any number of edits and faults.                            *)
(***************************************************************************)
EXTENDS Dashboard, BackupSyncer, TLAPS

-----------------------------------------------------------------------------
(* What a card says *)

LEMMA Capabilities ==
    ASSUME NEW f
    PROVE  /\ capabilitiesForAction(f) # {} =>
                \A a \in Matched[f] \cap DOMAIN Capability :
                    Capability[a] \in capabilitiesForAction(f)
           /\ \A c \in capabilitiesForAction(f) :
                \E a \in DOMAIN Capability : a \in Matched[f] /\ Capability[a] = c
<1>1. CASE f \in DOMAIN Capability
  <2>1. Matched[f] = {f} BY <1>1, S3Assumption DEF S3Assumption
  <2> QED BY <1>1, <2>1 DEF capabilitiesForAction
<1>2. CASE f \notin DOMAIN Capability /\ f \in Starred
  BY <1>2 DEF capabilitiesForAction
<1>3. CASE f \notin DOMAIN Capability /\ f \notin Starred
  BY <1>3 DEF capabilitiesForAction
<1> QED BY <1>1, <1>2, <1>3

\* A statement that is not warned of is folded whole.
LEMMA Said ==
    ASSUME NEW st, Unsaid(st) = {},
           st.negated \in BOOLEAN, st.condition \in BOOLEAN
    PROVE  /\ st.effect = "Allow" /\ ~st.negated /\ ~st.condition
           /\ \A f \in st.actions : capabilitiesForAction(f) # {}
           /\ \A r \in st.resources : RowOf[r] # None \/ Granted(st) = {}
<1>1. st.effect = "Allow" BY DEF Unsaid
<1>2. ~st.negated BY <1>1 DEF Unsaid
<1>3. Unsaid(st) = (IF st.condition THEN {"Condition"} ELSE {})
                   \cup {f \in st.actions : capabilitiesForAction(f) = {}}
                   \cup {r \in st.resources : RowOf[r] = None /\ Granted(st) # {}}
  BY <1>1, <1>2 DEF Unsaid
<1>4. /\ (IF st.condition THEN {"Condition"} ELSE {}) = {}
      /\ {f \in st.actions : capabilitiesForAction(f) = {}} = {}
      /\ {r \in st.resources : RowOf[r] = None /\ Granted(st) # {}} = {}
  BY <1>3
<1>5. ~st.condition BY <1>4
<1> QED BY <1>1, <1>2, <1>4, <1>5

\* What the mirror is read from.
Documents(m) == m.catalog \in PolicyDirs /\ Usable(m.catalog)

LEMMA Statements ==
    ASSUME NEW m, Documents(m), NEW p \in DOMAIN m.catalog, NEW st \in m.catalog[p]
    PROVE  /\ st.negated \in BOOLEAN /\ st.condition \in BOOLEAN
           /\ st.resources \subseteq DOMAIN RowOf
BY S3Assumption DEF S3Assumption, Documents, Usable

\* A pair folded from a known source is in the row of its bucket.
LEMMA PairIsShown ==
    ASSUME NEW m, NEW sources, NEW s \in Known(m, sources), NEW b, NEW c,
           <<b, c>> \in Fold(m.catalog[s.policy])
    PROVE  \E row \in Rows(m, sources) :
               row.bucket = b /\ s \in row.via /\ c \in row.capabilities
<1> DEFINE R == [bucket |-> b, capabilities |-> {x[2] : x \in {x \in Pairs(m, sources) : x[1] = b}},
                 via |-> Via(m, sources, b)]
<1>1. <<b, c>> \in Pairs(m, sources) BY DEF Pairs
<1>2. b \in {x[1] : x \in Pairs(m, sources)}
  <2>1. <<b, c>>[1] = b OBVIOUS
  <2> QED BY <1>1, <2>1
<1>3. c \in {x[2] : x \in {x \in Pairs(m, sources) : x[1] = b}}
  <2>1. <<b, c>>[1] = b /\ <<b, c>>[2] = c OBVIOUS
  <2> QED BY <1>1, <2>1
<1>4. s \in Via(m, sources, b)
  <2>1. <<b, c>>[1] = b OBVIOUS
  <2> QED BY <2>1 DEF Via
<1>5. R \in Rows(m, sources) BY <1>2 DEF Rows
<1> QED BY <1>3, <1>4, <1>5

\* ... and every capability of a row comes from one.
LEMMA RowIsFolded ==
    ASSUME NEW m, NEW sources, NEW row \in Rows(m, sources), NEW c \in row.capabilities
    PROVE  \E s \in row.via : \E st \in m.catalog[s.policy] :
             /\ st.effect = "Allow"
             /\ \E r \in st.resources : RowOf[r] = row.bucket
             /\ \E f \in st.actions : c \in capabilitiesForAction(f)
<1>1. PICK b \in {x[1] : x \in Pairs(m, sources)} :
        row = [bucket |-> b, capabilities |-> {x[2] : x \in {x \in Pairs(m, sources) : x[1] = b}},
               via |-> Via(m, sources, b)]
  BY DEF Rows
<1>2. /\ row.bucket = b /\ row.via = Via(m, sources, b)
      /\ row.capabilities = {x[2] : x \in {x \in Pairs(m, sources) : x[1] = b}}
  BY <1>1
<1>3. PICK x \in Pairs(m, sources) : x[1] = b /\ x[2] = c BY <1>2
<1>4. PICK s \in Known(m, sources) : x \in Fold(m.catalog[s.policy]) BY <1>3 DEF Pairs
<1>5. s \in Via(m, sources, b) BY <1>3, <1>4 DEF Via
<1>6. PICK st \in Folded(m.catalog[s.policy]) :
        x \in ({RowOf[r] : r \in st.resources} \ {None}) \X Granted(st)
  BY <1>4 DEF Fold
<1>7. x[1] \in {RowOf[r] : r \in st.resources} /\ x[2] \in Granted(st) BY <1>6
<1>8. st \in m.catalog[s.policy] /\ st.effect = "Allow" BY <1>6 DEF Folded
<1>9. \E f \in st.actions : c \in capabilitiesForAction(f) BY <1>3, <1>7 DEF Granted
<1>10. \E r \in st.resources : RowOf[r] = row.bucket BY <1>2, <1>3, <1>7
<1> QED BY <1>2, <1>5, <1>8, <1>9, <1>10

\* A source whose document is known has its statements shown, or warned of.
LEMMA StatementIsToldOf ==
    ASSUME NEW m, Documents(m), NEW sources, NEW s \in Known(m, sources),
           NEW st \in m.catalog[s.policy], Unsaid(st) = {}
    PROVE  /\ st.effect = "Allow" /\ ~st.condition
           /\ \A f \in st.actions, r \in st.resources :
              \A a \in Matched[f] \cap DOMAIN Capability, b \in Covers[r] :
                 \E row \in Rows(m, sources) : /\ b \in Within[row.bucket] /\ s \in row.via
                                               /\ Capability[a] \in row.capabilities
<1>1. /\ st.negated \in BOOLEAN /\ st.condition \in BOOLEAN
      /\ st.resources \subseteq DOMAIN RowOf
  BY Statements DEF Known
<1>2. /\ st.effect = "Allow" /\ ~st.negated /\ ~st.condition
      /\ \A f \in st.actions : capabilitiesForAction(f) # {}
      /\ \A r \in st.resources : RowOf[r] # None \/ Granted(st) = {}
  BY <1>1, Said
<1>3. ASSUME NEW f \in st.actions, NEW r \in st.resources,
             NEW a \in Matched[f] \cap DOMAIN Capability, NEW b \in Covers[r]
      PROVE  \E row \in Rows(m, sources) : /\ b \in Within[row.bucket] /\ s \in row.via
                                           /\ Capability[a] \in row.capabilities
  <2>1. capabilitiesForAction(f) # {} BY <1>2
  <2>2. Capability[a] \in capabilitiesForAction(f) BY <2>1, Capabilities
  <2>3. Capability[a] \in Granted(st) BY <2>2 DEF Granted
  <2>4. RowOf[r] # None BY <1>2, <2>3
  <2>5. b \in Within[RowOf[r]] BY <1>1, <2>4, S3Assumption DEF S3Assumption
  <2>6. st \in Folded(m.catalog[s.policy]) BY <1>2 DEF Folded
  <2>7. <<RowOf[r], Capability[a]>>
          \in ({RowOf[q] : q \in st.resources} \ {None}) \X Granted(st)
    BY <2>3, <2>4
  <2>8. <<RowOf[r], Capability[a]>> \in Fold(m.catalog[s.policy]) BY <2>6, <2>7 DEF Fold
  <2> QED BY <2>5, <2>8, PairIsShown
<1> QED BY <1>2, <1>3

\* What has a source in the card is in the warnings.
LEMMA Warned ==
    ASSUME NEW m, NEW sources, NEW s \in sources
    PROVE  /\ s.policy \notin DOMAIN m.catalog =>
                <<s.policy, None>> \in {<<w[1], w[2]>> : w \in Warnings(m, sources)}
           /\ \A st \in m.catalog[s.policy] :
                s.policy \in DOMAIN m.catalog /\ Unsaid(st) # {} =>
                  <<s.policy, st>> \in {<<w[1], w[2]>> : w \in Warnings(m, sources)}
<1>1. ASSUME s.policy \notin DOMAIN m.catalog
      PROVE  <<s.policy, None>> \in {<<w[1], w[2]>> : w \in Warnings(m, sources)}
  <2>1. s \in sources \ Known(m, sources) BY <1>1 DEF Known
  <2>2. <<s.policy, None, "document">> \in Warnings(m, sources) BY <2>1 DEF Warnings
  <2>3. /\ <<s.policy, None, "document">>[1] = s.policy
        /\ <<s.policy, None, "document">>[2] = None
    OBVIOUS
  <2> QED BY <2>2, <2>3
<1>2. ASSUME NEW st \in m.catalog[s.policy], s.policy \in DOMAIN m.catalog, Unsaid(st) # {}
      PROVE  <<s.policy, st>> \in {<<w[1], w[2]>> : w \in Warnings(m, sources)}
  <2>1. s \in Known(m, sources) BY <1>2 DEF Known
  <2>2. PICK x \in Unsaid(st) : TRUE BY <1>2
  <2>3. <<s.policy, st, x>> \in UNION {{<<s.policy, t, y>> : y \in Unsaid(t)} : t \in m.catalog[s.policy]}
    <3>1. <<s.policy, st, x>> \in {<<s.policy, st, y>> : y \in Unsaid(st)} BY <2>2
    <3> QED BY <3>1
  <2>4. <<s.policy, st, x>> \in Warnings(m, sources) BY <2>1, <2>3 DEF Warnings
  <2>5. <<s.policy, st, x>>[1] = s.policy /\ <<s.policy, st, x>>[2] = st OBVIOUS
  <2> QED BY <2>4, <2>5
<1> QED BY <1>1, <1>2

\* Nothing is known of sources but what they are.
LEMMA CardOfDocuments ==
    ASSUME mirror # None => Documents(mirror)
    PROVE  CardIsHonest
<1> SUFFICES ASSUME mirror # None, NEW u \in Users
             PROVE  LET sources == Sources(mirror.attachments, u)
                        rows == Rows(mirror, sources)
                        warned == {<<w[1], w[2]>> : w \in Warnings(mirror, sources)}
                    IN /\ \A s \in sources :
                            IF s.policy \notin DOMAIN mirror.catalog THEN <<s.policy, None>> \in warned
                            ELSE \A st \in mirror.catalog[s.policy] :
                                   \/ <<s.policy, st>> \in warned
                                   \/ /\ st.effect = "Allow" /\ ~st.condition
                                      /\ \A f \in st.actions, r \in st.resources :
                                         \A a \in Matched[f] \cap DOMAIN Capability, b \in Covers[r] :
                                            \E row \in rows : /\ b \in Within[row.bucket] /\ s \in row.via
                                                              /\ Capability[a] \in row.capabilities
                       /\ \A row \in rows : \A c \in row.capabilities :
                            \E s \in row.via, a \in DOMAIN Capability :
                               /\ Capability[a] = c
                               /\ \E st \in mirror.catalog[s.policy] :
                                  \E f \in st.actions, r \in st.resources :
                                     /\ st.effect = "Allow" /\ RowOf[r] = row.bucket
                                     /\ a \in Matched[f]
                       /\ \/ ShownBuckets(mirror, u) \subseteq {row.bucket : row \in rows}
                          \/ \A row \in rows : row.bucket = Account
  BY DEF CardIsHonest
<1> DEFINE sources == Sources(mirror.attachments, u)
           rows == Rows(mirror, sources)
           warned == {<<w[1], w[2]>> : w \in Warnings(mirror, sources)}
<1>1. ASSUME NEW s \in sources, s.policy \notin DOMAIN mirror.catalog
      PROVE  <<s.policy, None>> \in warned
  BY <1>1, Warned
<1>2. ASSUME NEW s \in sources, s.policy \in DOMAIN mirror.catalog,
             NEW st \in mirror.catalog[s.policy], <<s.policy, st>> \notin warned
      PROVE  /\ st.effect = "Allow" /\ ~st.condition
             /\ \A f \in st.actions, r \in st.resources :
                \A a \in Matched[f] \cap DOMAIN Capability, b \in Covers[r] :
                   \E row \in rows : /\ b \in Within[row.bucket] /\ s \in row.via
                                     /\ Capability[a] \in row.capabilities
  <2>1. Unsaid(st) = {} BY <1>2, Warned
  <2>2. s \in Known(mirror, sources) BY <1>2 DEF Known
  <2>3. Documents(mirror) OBVIOUS
  <2> HIDE DEF sources
  <2> QED BY <1>2, <2>1, <2>2, <2>3, StatementIsToldOf
<1>3. ASSUME NEW row \in rows, NEW c \in row.capabilities
      PROVE  \E s \in row.via, a \in DOMAIN Capability :
               /\ Capability[a] = c
               /\ \E st \in mirror.catalog[s.policy] :
                  \E f \in st.actions, r \in st.resources :
                     /\ st.effect = "Allow" /\ RowOf[r] = row.bucket
                     /\ a \in Matched[f]
  <2> HIDE DEF sources
  <2>1. PICK s \in row.via : \E st \in mirror.catalog[s.policy] :
             /\ st.effect = "Allow"
             /\ \E r \in st.resources : RowOf[r] = row.bucket
             /\ \E f \in st.actions : c \in capabilitiesForAction(f)
    BY RowIsFolded
  <2>2. PICK st \in mirror.catalog[s.policy] :
             /\ st.effect = "Allow"
             /\ \E r \in st.resources : RowOf[r] = row.bucket
             /\ \E f \in st.actions : c \in capabilitiesForAction(f)
    BY <2>1
  <2>3. PICK f \in st.actions : c \in capabilitiesForAction(f) BY <2>2
  <2>4. PICK a \in DOMAIN Capability : a \in Matched[f] /\ Capability[a] = c
    BY <2>3, Capabilities
  <2> QED BY <2>2, <2>4
<1>4. \/ ShownBuckets(mirror, u) \subseteq {row.bucket : row \in rows}
      \/ \A row \in rows : row.bucket = Account
  <2> HIDE DEF rows
  <2> DEFINE derived == {row.bucket : row \in rows} \ {Account}
  <2>1. CASE derived # {}
    <3>1. ShownBuckets(mirror, u) = derived BY <2>1 DEF ShownBuckets, rows
    <3> QED BY <3>1
  <2>2. CASE derived = {} BY <2>2
  <2> QED BY <2>1, <2>2
<1> QED BY <1>1, <1>2, <1>3, <1>4

-----------------------------------------------------------------------------
(* What a drift report says *)

\* What a check compared.
Compared(rep) ==
    /\ rep.declared \subseteq Held /\ rep.actual \subseteq Attached
    /\ rep.items = Items(rep.declared, Actual(rep.actual))

LEMMA Alike ==
    ASSUME NEW declared, NEW entries, NEW k,
           ~ \E item \in Items(declared, Actual(entries)) : item.key = k
    PROVE  HeldBy(declared, k) = HeldBy(Actual(entries), k)
<1> DEFINE actual == Actual(entries)
           I == [key |-> k, declared |-> HeldBy(declared, k), actual |-> HeldBy(actual, k),
                 kind |-> IF HeldBy(declared, k) = {} THEN "undeclared" ELSE "unapplied"]
<1> HIDE DEF actual
<1>1. CASE k \in Subjects(declared, actual)
  <2>1. SUFFICES ASSUME HeldBy(declared, k) # HeldBy(actual, k) PROVE FALSE BY DEF actual
  <2>2. I \in Items(declared, actual) BY <1>1, <2>1 DEF Items
  <2>3. I.key = k OBVIOUS
  <2> QED BY <2>2, <2>3 DEF actual
<1>2. CASE k \notin Subjects(declared, actual)
  <2>1. /\ \A h \in declared : h.key # k
        /\ \A h \in actual : h.key # k
    BY <1>2 DEF Subjects
  <2>2. HeldBy(declared, k) = {} /\ HeldBy(actual, k) = {} BY <2>1 DEF HeldBy
  <2> QED BY <2>2 DEF actual
<1> QED BY <1>1, <1>2

\* Where nothing is misfiled and no item names k, both sides hold the same
\* under k, kind by kind.
LEMMA SameKind ==
    ASSUME NEW declared \in SUBSET Held, NEW entries \in SUBSET Attached, NEW k, NEW p,
           NEW kind,
           ~ \E item \in Items(declared, Actual(entries)) : item.key = k,
           ~ Misfiled(declared, entries, k)
    PROVE  [kind |-> kind, key |-> k, policy |-> p] \in declared
           <=> \E e \in entries : e.kind = kind /\ Key[e.dn] = k /\ e.policy = p
<1>1. HeldBy(declared, k) = HeldBy(Actual(entries), k) BY Alike
<1>2. ASSUME [kind |-> kind, key |-> k, policy |-> p] \in declared
      PROVE  \E e \in entries : e.kind = kind /\ Key[e.dn] = k /\ e.policy = p
  <2> DEFINE h == [kind |-> kind, key |-> k, policy |-> p]
  <2>1. h.key = k /\ h.policy = p /\ h.kind = kind OBVIOUS
  <2> HIDE DEF h
  <2>2. p \in HeldBy(declared, k) BY <1>2, <2>1 DEF HeldBy, h
  <2>3. p \in HeldBy(Actual(entries), k) BY <1>1, <2>2
  <2>4. PICK a \in Actual(entries) : a.key = k /\ a.policy = p BY <2>3 DEF HeldBy
  <2>5. PICK e \in entries : a = [kind |-> e.kind, key |-> Key[e.dn], policy |-> e.policy]
    BY <2>4 DEF Actual
  <2>6. Key[e.dn] = k /\ e.policy = p BY <2>4, <2>5
  <2>7. e.kind = kind BY <1>2, <2>1, <2>6 DEF Misfiled, h
  <2> QED BY <2>6, <2>7
<1>3. ASSUME NEW e \in entries, e.kind = kind, Key[e.dn] = k, e.policy = p
      PROVE  [kind |-> kind, key |-> k, policy |-> p] \in declared
  <2> DEFINE a == [kind |-> e.kind, key |-> Key[e.dn], policy |-> e.policy]
  <2>1. a \in Actual(entries) BY DEF Actual
  <2>2. a.key = k /\ a.policy = p BY <1>3
  <2> HIDE DEF a
  <2>3. p \in HeldBy(Actual(entries), k) BY <2>1, <2>2 DEF HeldBy
  <2>4. p \in HeldBy(declared, k) BY <1>1, <2>3
  <2>5. PICK h \in declared : h.key = k /\ h.policy = p BY <2>4 DEF HeldBy
  <2>6. h.kind = kind BY <1>3, <2>5 DEF Misfiled
  <2>7. h \in Held OBVIOUS
  <2>8. h = [kind |-> kind, key |-> k, policy |-> p] BY <2>5, <2>6, <2>7 DEF Held
  <2> QED BY <2>5, <2>8
<1> QED BY <1>2, <1>3

LEMMA CardsWithoutItems ==
    ASSUME NEW declared \in SUBSET Held, NEW entries \in SUBSET Attached, NEW u \in Users,
           \A k \in {Key[dn] : dn \in {u.dn} \cup u.groups} :
              /\ ~ \E item \in Items(declared, Actual(entries)) : item.key = k
              /\ ~ Misfiled(declared, entries, k)
    PROVE  {s.policy : s \in Sources(declared, u)} = Enforced(entries, u)
<1>1. ASSUME NEW s \in Sources(declared, u) PROVE s.policy \in Enforced(entries, u)
  <2>1. /\ s.kind \in {"user", "group"} /\ s.policy \in Policies
        /\ s.dn \in {u.dn} \cup u.groups
        /\ s.kind = "user" => s.dn = u.dn
        /\ s.kind = "group" => s.dn \in u.groups
        /\ [kind |-> s.kind, key |-> Key[s.dn], policy |-> s.policy] \in declared
    BY DEF Sources, Kinds
  <2>2. Key[s.dn] \in {Key[dn] : dn \in {u.dn} \cup u.groups} BY <2>1
  <2>3. PICK e \in entries : e.kind = s.kind /\ Key[e.dn] = Key[s.dn] /\ e.policy = s.policy
    BY <2>1, <2>2, SameKind
  <2>4. \/ e.kind = "user" /\ Key[e.dn] = Key[u.dn]
        \/ e.kind = "group" /\ Key[e.dn] \in {Key[g] : g \in u.groups}
    BY <2>1, <2>3
  <2> QED BY <2>3, <2>4 DEF Enforced
<1>2. ASSUME NEW e \in entries,
             NEW dn \in {u.dn} \cup u.groups, Key[e.dn] = Key[dn],
             \/ e.kind = "user" /\ dn = u.dn
             \/ e.kind = "group" /\ dn \in u.groups
      PROVE  \E s \in Sources(declared, u) : s.policy = e.policy
  <2>1. Key[dn] \in {Key[x] : x \in {u.dn} \cup u.groups} BY <1>2
  <2>2. [kind |-> e.kind, key |-> Key[dn], policy |-> e.policy] \in declared
    BY <1>2, <2>1, SameKind
  <2>3. e.policy \in Policies BY S3Assumption DEF S3Assumption
  <2> DEFINE s == [kind |-> e.kind, dn |-> dn, policy |-> e.policy]
  <2>4. s.kind = e.kind /\ s.dn = dn /\ s.policy = e.policy OBVIOUS
  <2>5. s \in [kind : Kinds, dn : {u.dn} \cup u.groups, policy : Policies]
    BY <1>2, <2>3 DEF Kinds
  <2> HIDE DEF s
  <2>6. s \in Sources(declared, u) BY <1>2, <2>2, <2>4, <2>5 DEF Sources
  <2> QED BY <2>4, <2>6
<1>3. ASSUME NEW p \in Enforced(entries, u) PROVE \E s \in Sources(declared, u) : s.policy = p
  <2>1. PICK e \in entries :
          /\ p = e.policy
          /\ \/ e.kind = "user" /\ Key[e.dn] = Key[u.dn]
             \/ e.kind = "group" /\ Key[e.dn] \in {Key[g] : g \in u.groups}
    BY DEF Enforced
  <2>2. CASE e.kind = "user" /\ Key[e.dn] = Key[u.dn] BY <1>2, <2>1, <2>2
  <2>3. CASE e.kind = "group" /\ Key[e.dn] \in {Key[g] : g \in u.groups}
    BY <1>2, <2>1, <2>3
  <2> QED BY <2>1, <2>2, <2>3
<1> QED BY <1>1, <1>3

LEMMA ItemsAreReal ==
    ASSUME NEW declared \in SUBSET Held, NEW entries \in SUBSET Attached,
           NEW item \in Items(declared, Actual(entries))
    PROVE  /\ \E p \in Policies :
                (\E h \in declared : h.key = item.key /\ h.policy = p)
                # (\E e \in entries : Key[e.dn] = item.key /\ e.policy = p)
           /\ item.kind = "undeclared" => item.actual # {}
<1> DEFINE actual == Actual(entries)
<1>1. PICK k \in Subjects(declared, actual) :
        /\ HeldBy(declared, k) # HeldBy(actual, k)
        /\ item = [key |-> k, declared |-> HeldBy(declared, k), actual |-> HeldBy(actual, k),
                   kind |-> IF HeldBy(declared, k) = {} THEN "undeclared" ELSE "unapplied"]
  BY DEF Items
<1>2. /\ item.key = k /\ item.actual = HeldBy(actual, k)
      /\ item.kind = "undeclared" => HeldBy(declared, k) = {}
  BY <1>1
<1>3. ASSUME NEW p
      PROVE  /\ p \in HeldBy(declared, k) <=> \E h \in declared : h.key = k /\ h.policy = p
             /\ p \in HeldBy(actual, k) <=> \E e \in entries : Key[e.dn] = k /\ e.policy = p
  <2>1. p \in HeldBy(declared, k) <=> \E h \in declared : h.key = k /\ h.policy = p
    BY DEF HeldBy
  <2>2. p \in HeldBy(actual, k) <=> \E h \in actual : h.key = k /\ h.policy = p
    BY DEF HeldBy
  <2>3. (\E h \in actual : h.key = k /\ h.policy = p)
        <=> \E e \in entries : Key[e.dn] = k /\ e.policy = p
    <3>1. ASSUME NEW h \in actual, h.key = k, h.policy = p
          PROVE  \E e \in entries : Key[e.dn] = k /\ e.policy = p
      <4>1. PICK e \in entries : h = [kind |-> e.kind, key |-> Key[e.dn], policy |-> e.policy]
        BY DEF Actual
      <4> QED BY <3>1, <4>1
    <3>2. ASSUME NEW e \in entries, Key[e.dn] = k, e.policy = p
          PROVE  \E h \in actual : h.key = k /\ h.policy = p
      <4> DEFINE h == [kind |-> e.kind, key |-> Key[e.dn], policy |-> e.policy]
      <4>1. h \in actual BY DEF Actual
      <4>2. h.key = k /\ h.policy = p BY <3>2
      <4> HIDE DEF h, actual
      <4> QED BY <4>1, <4>2
    <3> QED BY <3>1, <3>2
  <2> HIDE DEF actual
  <2> QED BY <2>1, <2>2, <2>3
<1>4. PICK p : ~(p \in HeldBy(declared, k) <=> p \in HeldBy(actual, k)) BY <1>1
<1>5. p \in Policies
  <2>1. \A h \in declared : h.policy \in Policies BY DEF Held
  <2>2. \A e \in entries : e.policy \in Policies BY S3Assumption DEF S3Assumption
  <2> QED BY <1>3, <1>4, <2>1, <2>2
<1>6. ~((\E h \in declared : h.key = k /\ h.policy = p)
        <=> (\E e \in entries : Key[e.dn] = k /\ e.policy = p))
  BY <1>3, <1>4
<1>7. (\E h \in declared : h.key = item.key /\ h.policy = p)
      # (\E e \in entries : Key[e.dn] = item.key /\ e.policy = p)
  BY <1>2, <1>6
<1>8. item.kind = "undeclared" => item.actual # {} BY <1>1, <1>2
<1> HIDE DEF actual
<1> QED BY <1>5, <1>7, <1>8

LEMMA ReportTells ==
    ASSUME report # None => Compared(report)
    PROVE  DriftTells
<1>1. ASSUME report # None, NEW u \in Users
      PROVE  LET mine == {Key[dn] : dn \in {u.dn} \cup u.groups}
             IN \/ {s.policy : s \in Sources(report.declared, u)} = Enforced(report.actual, u)
                \/ \E item \in report.items : item.key \in mine
                \/ \E k \in mine : Misfiled(report.declared, report.actual, k)
  BY <1>1, CardsWithoutItems DEF Compared
<1>2. ASSUME report # None, NEW item \in report.items
      PROVE  /\ \E p \in Policies :
                  (\E h \in report.declared : h.key = item.key /\ h.policy = p)
                  # (\E e \in report.actual : Key[e.dn] = item.key /\ e.policy = p)
             /\ item.kind = "undeclared" => item.actual # {}
  BY <1>2, ItemsAreReal DEF Compared
<1> QED BY <1>1, <1>2 DEF DriftTells

-----------------------------------------------------------------------------
(* Invariants of the steps *)

\* What the pages may see of OPA: the two cards are drawn from one document, or
\* the page is upset. A card that came first is still what the document says.
Told(p) ==
    /\ stage[p] # "done" => catalogs[p] = None
    /\ visitor[p].teams = {} => catalogs[p] \in {None, Catalogs}
    /\ visitor[p].teams # {} /\ p \notin upset =>
         LET current == ResolveTeams(opaDoc, visitor[p].teams)
         IN /\ catalogs[p] # None /\ grants[p] = None =>
                 catalogs[p] = UNION {g.catalogs : g \in current}
            /\ catalogs[p] = None /\ grants[p] \notin {None, Broken} => grants[p] = current
            /\ catalogs[p] # None /\ grants[p] \notin {None, Broken} =>
                 catalogs[p] = UNION {g.catalogs : g \in grants[p]}

S3TypeOK ==
    /\ policyDir \in PolicyDirs /\ declaration \in Declarations
    /\ backend \subseteq Attached
    /\ mirror # None =>
          /\ mirror.catalog \in PolicyDirs /\ Usable(mirror.catalog)
          /\ mirror.attachments \subseteq Held
    /\ report = None \/ (report \in Drifts /\ Compared(report))
    /\ changes \in 0 .. MaxChanges

PageTypeOK ==
    /\ visitor \in [Pages -> Users] /\ opaDoc \in OpaDocs
    /\ stage \in [Pages -> Stages]
    /\ queue \subseteq Pages /\ left \subseteq Pages
    /\ lost \subseteq Pages /\ upset \subseteq Pages
    /\ DOMAIN catalogs = Pages /\ DOMAIN grants = Pages

IInv ==
    /\ S3TypeOK /\ PageTypeOK
    /\ NothingLeftQueued
    /\ \A p \in Pages : Told(p)

-----------------------------------------------------------------------------
(* Policies and attachments *)

LEMMA ReadTypes ==
    ASSUME policyDir \in PolicyDirs, declaration \in Declarations,
           Read(policyDir, declaration) # None
    PROVE  /\ Read(policyDir, declaration).catalog \in PolicyDirs
           /\ Usable(Read(policyDir, declaration).catalog)
           /\ Read(policyDir, declaration).attachments \subseteq Held
<1>1. /\ Usable(policyDir) /\ Declared(declaration)
      /\ Read(policyDir, declaration)
           = [catalog |-> policyDir, attachments |-> Loaded(declaration)]
  BY DEF Read
<1>2. Loaded(declaration) \subseteq Held
  <2>1. ASSUME NEW e \in declaration, NEW dn, NEW kind \in Kinds,
               dn \in e.users \cup e.groups
        PROVE  [kind |-> kind, key |-> Key[dn], policy |-> e.policy] \in Held
    <3>1. declaration # None /\ e.policy # None BY <1>1 DEF Declared
    <3>2. dn \in DOMAIN Key /\ e.policy \in Policies
      BY <2>1, <3>1, S3Assumption DEF S3Assumption
    <3>3. Key[dn] \in Keys BY <3>2 DEF Keys
    <3> QED BY <3>2, <3>3 DEF Held
  <2>2. ASSUME NEW h \in Loaded(declaration) PROVE h \in Held
    <3>1. PICK e \in declaration :
            h \in {[kind |-> "user", key |-> Key[dn], policy |-> e.policy] : dn \in e.users}
                 \cup {[kind |-> "group", key |-> Key[dn], policy |-> e.policy] : dn \in e.groups}
      BY <2>2 DEF Loaded
    <3>2. CASE h \in {[kind |-> "user", key |-> Key[dn], policy |-> e.policy] : dn \in e.users}
      BY <2>1, <3>2 DEF Kinds
    <3>3. CASE h \in {[kind |-> "group", key |-> Key[dn], policy |-> e.policy] : dn \in e.groups}
      BY <2>1, <3>3 DEF Kinds
    <3> QED BY <3>1, <3>2, <3>3
  <2> QED BY <2>2
<1> QED BY <1>1, <1>2

LEMMA ActualTypes ==
    ASSUME backend \subseteq Attached
    PROVE  Actual(backend) \subseteq Held
<1>1. ASSUME NEW e \in backend
      PROVE  [kind |-> e.kind, key |-> Key[e.dn], policy |-> e.policy] \in Held
  <2>1. e.kind \in Kinds /\ e.dn \in DOMAIN Key /\ e.policy \in Policies
    BY S3Assumption DEF S3Assumption
  <2>2. Key[e.dn] \in Keys BY <2>1 DEF Keys
  <2> QED BY <2>1, <2>2 DEF Held
<1> QED BY <1>1 DEF Actual

LEMMA ItemTypes ==
    ASSUME NEW declared \in SUBSET Held, NEW actual \in SUBSET Held
    PROVE  Items(declared, actual) \in
             SUBSET [key : Keys, declared : SUBSET Policies,
                     actual : SUBSET Policies, kind : {"undeclared", "unapplied"}]
<1>1. ASSUME NEW k \in Subjects(declared, actual)
      PROVE  /\ k \in Keys
             /\ HeldBy(declared, k) \in SUBSET Policies
             /\ HeldBy(actual, k) \in SUBSET Policies
  <2>1. \A h \in declared \cup actual : h.key \in Keys /\ h.policy \in Policies BY DEF Held
  <2> QED BY <2>1 DEF Subjects, HeldBy
<1> QED BY <1>1 DEF Items

LEMMA S3Start == S3Init => S3TypeOK
<1> SUFFICES ASSUME S3Init PROVE S3TypeOK OBVIOUS
<1>1. /\ policyDir \in PolicyDirs /\ declaration \in Declarations
      /\ backend \subseteq Attached /\ report = None /\ changes = 0
      /\ mirror = Read(policyDir, declaration)
  BY DEF S3Init
<1>2. changes \in 0 .. MaxChanges BY <1>1, S3Assumption DEF S3Assumption
<1> QED BY <1>1, <1>2, ReadTypes DEF S3TypeOK

LEMMA S3Step ==
    ASSUME S3TypeOK, S3Next PROVE S3TypeOK'
<1> USE DEF S3TypeOK
<1>0. ASSUME Change PROVE changes' \in 0 .. MaxChanges
  BY <1>0, S3Assumption DEF S3Assumption, Change
<1>1. CASE EditFiles BY <1>0, <1>1 DEF EditFiles, Compared
<1>2. CASE Attach
  <2>1. backend' \subseteq Attached BY <1>2 DEF Attach
  <2> QED BY <1>0, <1>2, <2>1 DEF Attach, Compared
<1>3. CASE Restart
  <2>1. /\ mirror' = Read(policyDir, declaration)
        /\ UNCHANGED <<policyDir, declaration, backend, report, changes>>
    BY <1>3 DEF Restart
  <2>2. mirror' # None =>
          /\ mirror'.catalog \in PolicyDirs /\ Usable(mirror'.catalog)
          /\ mirror'.attachments \subseteq Held
    BY <2>1, ReadTypes
  <2>3. (report = None \/ (report \in Drifts /\ Compared(report)))'
    BY <2>1 DEF Compared
  <2> QED BY <2>1, <2>2, <2>3
<1>4. CASE CheckDrift
  <2> DEFINE rep == [items |-> Items(mirror.attachments, Actual(backend)),
                     declared |-> mirror.attachments, actual |-> backend]
  <2>1. /\ mirror # None /\ report' = rep
        /\ UNCHANGED <<policyDir, declaration, backend, mirror, changes>>
    BY <1>4 DEF CheckDrift
  <2>2. mirror.attachments \in SUBSET Held /\ Actual(backend) \in SUBSET Held
    BY <2>1, ActualTypes
  <2>3. rep.items \in SUBSET [key : Keys, declared : SUBSET Policies,
                              actual : SUBSET Policies, kind : {"undeclared", "unapplied"}]
    BY <2>2, ItemTypes
  <2>4. rep \in Drifts BY <2>2, <2>3 DEF Drifts
  <2>5. Compared(rep) BY <2>2 DEF Compared
  <2> HIDE DEF rep
  <2>6. report' \in Drifts /\ Compared(report') BY <2>1, <2>4, <2>5
  <2> QED BY <2>1, <2>6
<1>5. CASE CheckFails BY <1>5 DEF CheckFails
<1> QED BY <1>1, <1>2, <1>3, <1>4, <1>5 DEF S3Next

-----------------------------------------------------------------------------
(* Pages *)

LEMMA PageStart == DInit => IInv
<1> SUFFICES ASSUME DInit PROVE IInv OBVIOUS
<1>1. S3TypeOK BY S3Start DEF DInit
<1>2. PageTypeOK BY DEF DInit, PageTypeOK, Stages
<1>3. NothingLeftQueued BY DEF DInit, NothingLeftQueued
<1>4. \A p \in Pages : Told(p)
  <2>1. \A p \in Pages : catalogs[p] = None /\ grants[p] = None BY DEF DInit
  <2> QED BY <2>1 DEF Told
<1> QED BY <1>1, <1>2, <1>3, <1>4 DEF IInv

LEMMA Moved ==
    ASSUME NEW p \in Pages, PageTypeOK, NEW here, NEW next \in Stages, At(p, here, next)
    PROVE  /\ stage[p] = here /\ stage' \in [Pages -> Stages]
           /\ stage'[p] = next /\ \A q \in Pages \ {p} : stage'[q] = stage[q]
BY DEF At, PageTypeOK

\* A step of the Trino request before its end.
Middle(p) ==
    Submit(p) \/ Refuse(p) \/ Accept(p) \/ Answer(p) \/ Cancel(p) \/ Lose(p) \/ Reap(p) \/ Leave(p)

LEMMA MiddleQueue ==
    ASSUME NEW p \in Pages, PageTypeOK, NothingLeftQueued, Middle(p)
    PROVE  PageTypeOK' /\ NothingLeftQueued'
<1> USE DEF NothingLeftQueued
<1>0. "post" \in Stages /\ "queued" \in Stages /\ "cancel" \in Stages /\ "opa" \in Stages
  BY DEF Stages
<1>1. CASE Submit(p)
  <2>1. At(p, "new", "post") /\ UNCHANGED <<visitor, opaDoc, queue, left, lost, upset, catalogs, grants>>
    BY <1>1 DEF Submit
  <2>2. /\ stage[p] = "new" /\ stage' \in [Pages -> Stages]
        /\ \A q \in Pages \ {p} : stage'[q] = stage[q]
    BY <1>0, <2>1, Moved
  <2> QED BY <2>1, <2>2 DEF PageTypeOK
<1>2. CASE Refuse(p)
  <2>1. At(p, "post", "opa") /\ UNCHANGED <<visitor, opaDoc, queue, left, lost, upset, catalogs, grants>>
    BY <1>2 DEF Refuse
  <2>2. /\ stage[p] = "post" /\ stage' \in [Pages -> Stages]
        /\ \A q \in Pages \ {p} : stage'[q] = stage[q]
    BY <1>0, <2>1, Moved
  <2> QED BY <2>1, <2>2 DEF PageTypeOK
<1>3. CASE Accept(p)
  <2>1. /\ At(p, "post", "queued") /\ queue' = queue \cup {p}
        /\ UNCHANGED <<visitor, opaDoc, left, lost, upset, catalogs, grants>>
    BY <1>3 DEF Accept
  <2>2. /\ stage'[p] = "queued" /\ stage' \in [Pages -> Stages]
        /\ \A q \in Pages \ {p} : stage'[q] = stage[q]
    BY <1>0, <2>1, Moved
  <2> QED BY <2>1, <2>2 DEF PageTypeOK
<1>4. CASE Answer(p)
  <2>1. At(p, "queued", "cancel") /\ UNCHANGED <<visitor, opaDoc, queue, left, lost, upset, catalogs, grants>>
    BY <1>4 DEF Answer
  <2>2. /\ stage'[p] = "cancel" /\ stage' \in [Pages -> Stages]
        /\ \A q \in Pages \ {p} : stage'[q] = stage[q]
    BY <1>0, <2>1, Moved
  <2> QED BY <2>1, <2>2 DEF PageTypeOK
<1>5. CASE Cancel(p)
  <2>1. /\ At(p, "cancel", "opa") /\ queue' = queue \ {p}
        /\ UNCHANGED <<visitor, opaDoc, left, lost, upset, catalogs, grants>>
    BY <1>5 DEF Cancel
  <2>2. stage' \in [Pages -> Stages] /\ \A q \in Pages \ {p} : stage'[q] = stage[q]
    BY <1>0, <2>1, Moved
  <2> QED BY <2>1, <2>2 DEF PageTypeOK
<1>6. CASE Lose(p)
  <2>1. /\ At(p, "queued", "opa") \/ At(p, "cancel", "opa")
        /\ queue' \subseteq queue /\ lost' = lost \cup {p}
        /\ UNCHANGED <<visitor, opaDoc, left, upset, catalogs, grants>>
    BY <1>6 DEF Lose
  <2>2. stage' \in [Pages -> Stages] /\ \A q \in Pages \ {p} : stage'[q] = stage[q]
    BY <1>0, <2>1, Moved
  <2> QED BY <2>1, <2>2 DEF PageTypeOK
<1>7. CASE Reap(p) BY <1>7 DEF Reap, PageTypeOK
<1>8. CASE Leave(p) BY <1>8 DEF Leave, PageTypeOK
<1> QED BY <1>1, <1>2, <1>3, <1>4, <1>5, <1>6, <1>7, <1>8 DEF Middle

LEMMA MiddleTold ==
    ASSUME NEW p \in Pages, NEW q \in Pages, PageTypeOK, Middle(p), Told(q)
    PROVE  Told(q)'
<1>1. UNCHANGED <<visitor, opaDoc, upset, catalogs, grants>>
  BY DEF Middle, Submit, Refuse, Accept, Answer, Cancel, Lose, Reap, Leave
<1>2. stage[q] = "done" => stage'[q] = "done"
  <2>1. UNCHANGED stage \/ (stage[p] # "done" /\ \E x : stage' = [stage EXCEPT ![p] = x])
    BY DEF Middle, Submit, Refuse, Accept, Answer, Cancel, Lose, Reap, Leave, At
  <2> QED BY <2>1 DEF PageTypeOK
<1> QED BY <1>1, <1>2 DEF Told

LEMMA MiddleStep ==
    ASSUME IInv, NEW p \in Pages, Middle(p), UNCHANGED s3vars PROVE IInv'
<1>1. S3TypeOK' BY DEF IInv, S3TypeOK, s3vars, Compared
<1>2. PageTypeOK' /\ NothingLeftQueued' BY MiddleQueue DEF IInv
<1>3. \A q \in Pages : Told(q)' BY MiddleTold DEF IInv
<1> QED BY <1>1, <1>2, <1>3 DEF IInv

\* The end of the Trino request, with or without an answer from OPA.
LEMMA CatalogsStep ==
    ASSUME IInv, NEW p \in Pages, ShowCatalogs(p) \/ ShowAnyCatalogs(p), UNCHANGED s3vars
    PROVE  IInv'
<1>1. S3TypeOK' BY DEF IInv, S3TypeOK, s3vars, Compared
<1>2. /\ At(p, "opa", "done")
      /\ UNCHANGED <<visitor, opaDoc, queue, left, lost, grants>>
      /\ \E c : catalogs' = [catalogs EXCEPT ![p] = c]
      /\ upset' \in {upset, upset \cup {p}}
  BY DEF ShowCatalogs, ShowAnyCatalogs
<1>3. /\ stage[p] = "opa" /\ stage' \in [Pages -> Stages] /\ stage'[p] = "done"
      /\ \A q \in Pages \ {p} : stage'[q] = stage[q]
  BY <1>2, Moved DEF IInv, Stages
<1>4. PageTypeOK' BY <1>2, <1>3 DEF IInv, PageTypeOK
<1>5. NothingLeftQueued'
  <2>1. NothingLeftQueued /\ queue \subseteq Pages BY DEF IInv, PageTypeOK
  <2>2. queue' = queue /\ lost' = lost BY <1>2
  <2>3. ASSUME NEW q \in queue PROVE stage'[q] \in {"queued", "cancel"} \/ q \in lost
    BY <1>3, <2>1 DEF NothingLeftQueued
  <2> QED BY <2>2, <2>3 DEF NothingLeftQueued
<1>6. ASSUME NEW q \in Pages \ {p} PROVE Told(q)'
  <2>1. /\ stage'[q] = stage[q] /\ catalogs'[q] = catalogs[q]
        /\ (q \in upset' <=> q \in upset)
        /\ UNCHANGED <<visitor, opaDoc, grants>>
    BY <1>2, <1>3 DEF IInv, PageTypeOK
  <2>2. Told(q) BY DEF IInv
  <2> QED BY <2>1, <2>2 DEF Told
<1>7. Told(p)'
  <2> DEFINE current == ResolveTeams(opaDoc, visitor[p].teams)
  <2>1. catalogs[p] = None /\ Told(p) BY <1>3 DEF IInv, Told
  <2>2. grants[p] \notin {None, Broken} /\ visitor[p].teams # {} /\ p \notin upset => grants[p] = current
    BY <2>1 DEF Told
  <2>3. p \in DOMAIN catalogs BY DEF IInv, PageTypeOK
  <2>4. CASE ShowCatalogs(p)
    <3>1. catalogs'[p] = CardCatalogs(p) /\ upset' = upset BY <2>3, <2>4 DEF ShowCatalogs
    <3>2. CASE visitor[p].teams = {}
      <4>1. catalogs'[p] = Catalogs BY <3>1, <3>2 DEF CardCatalogs
      <4> QED BY <1>2, <1>3, <3>2, <4>1 DEF Told
    <3>3. CASE visitor[p].teams # {}
      <4>1. catalogs'[p] = UNION {g.catalogs : g \in current} BY <3>1, <3>3 DEF CardCatalogs
      <4> HIDE DEF current
      <4>2. p \notin upset' /\ grants'[p] \notin {None, Broken} => grants'[p] = current
        BY <1>2, <2>2, <3>1, <3>3
      <4>3. current = ResolveTeams(opaDoc', visitor'[p].teams) BY <1>2 DEF current
      <4> QED BY <1>2, <1>3, <3>3, <4>1, <4>2, <4>3 DEF Told
    <3> QED BY <3>2, <3>3
  <2>5. CASE ShowAnyCatalogs(p)
    <3>1. visitor[p].teams # {} /\ p \in upset' BY <2>5 DEF ShowAnyCatalogs
    <3> QED BY <1>2, <1>3, <3>1 DEF Told
  <2> QED BY <2>4, <2>5
<1> QED BY <1>1, <1>4, <1>5, <1>6, <1>7 DEF IInv

LEMMA GrantsStep ==
    ASSUME IInv, NEW p \in Pages, ShowGrants(p) \/ ShowNoGrants(p), UNCHANGED s3vars
    PROVE  IInv'
<1>1. S3TypeOK' BY DEF IInv, S3TypeOK, s3vars, Compared
<1>2. /\ grants[p] = None
      /\ UNCHANGED <<visitor, opaDoc, stage, queue, left, lost, upset, catalogs>>
      /\ \E g : grants' = [grants EXCEPT ![p] = g]
  BY DEF ShowGrants, ShowNoGrants
<1>3. PageTypeOK' BY <1>2 DEF IInv, PageTypeOK
<1>4. NothingLeftQueued' BY <1>2 DEF IInv, NothingLeftQueued
<1>5. ASSUME NEW q \in Pages \ {p} PROVE Told(q)'
  <2>1. grants'[q] = grants[q] BY <1>2 DEF IInv, PageTypeOK
  <2>2. Told(q) BY DEF IInv
  <2> QED BY <1>2, <2>1, <2>2 DEF Told
<1>6. Told(p)'
  <2> DEFINE current == ResolveTeams(opaDoc, visitor[p].teams)
  <2>1. Told(p) /\ p \in DOMAIN grants BY DEF IInv, PageTypeOK
  <2>2. CASE ShowNoGrants(p)
    <3>1. grants'[p] = Broken BY <2>1, <2>2 DEF ShowNoGrants
    <3>2. /\ stage[p] # "done" => catalogs[p] = None
          /\ visitor[p].teams = {} => catalogs[p] \in {None, Catalogs}
          /\ visitor[p].teams # {} /\ p \notin upset /\ catalogs[p] # None =>
               catalogs[p] = UNION {g.catalogs : g \in current}
      BY <1>2, <2>1 DEF Told
    <3>3. current = ResolveTeams(opaDoc', visitor'[p].teams) BY <1>2
    <3> HIDE DEF current
    <3> QED BY <1>2, <3>1, <3>2, <3>3 DEF Told
  <2>3. CASE ShowGrants(p)
    <3>1. visitor[p].teams # {} => grants'[p] = current BY <2>1, <2>3 DEF ShowGrants
    <3>2. /\ stage[p] # "done" => catalogs[p] = None
          /\ visitor[p].teams = {} => catalogs[p] \in {None, Catalogs}
          /\ visitor[p].teams # {} /\ p \notin upset /\ catalogs[p] # None =>
               catalogs[p] = UNION {g.catalogs : g \in current}
      BY <1>2, <2>1 DEF Told
    <3>3. current = ResolveTeams(opaDoc', visitor'[p].teams) BY <1>2
    <3> HIDE DEF current
    <3> QED BY <1>2, <3>1, <3>2, <3>3 DEF Told
  <2> QED BY <2>2, <2>3
<1> QED BY <1>1, <1>3, <1>4, <1>5, <1>6 DEF IInv

LEMMA OpaStep ==
    ASSUME IInv, Change, EditOpa, UNCHANGED <<policyDir, declaration, backend, mirror, report>>
    PROVE  IInv'
<1>1. S3TypeOK'
  <2>1. changes' \in 0 .. MaxChanges
    BY S3Assumption DEF S3Assumption, Change, IInv, S3TypeOK
  <2> QED BY <2>1 DEF IInv, S3TypeOK, Compared
<1>2. /\ opaDoc' \in OpaDocs /\ UNCHANGED <<visitor, stage, queue, left, lost, catalogs, grants>>
      /\ upset' = upset \cup {p \in Pages : (catalogs[p] = None) # (grants[p] = None)}
  BY DEF EditOpa
<1>3. PageTypeOK' BY <1>2 DEF IInv, PageTypeOK
<1>4. NothingLeftQueued' BY <1>2 DEF IInv, NothingLeftQueued
<1>5. ASSUME NEW p \in Pages PROVE Told(p)'
  <2>1. Told(p) BY DEF IInv
  <2>2. p \notin upset' => p \notin upset /\ ~((catalogs[p] = None) # (grants[p] = None))
    BY <1>2
  <2>3. p \notin upset' => (catalogs[p] = None <=> grants[p] = None) BY <2>2
  <2>4. p \notin upset' => p \notin upset BY <2>2
  <2>5. /\ stage[p] # "done" => catalogs[p] = None
        /\ visitor[p].teams = {} => catalogs[p] \in {None, Catalogs}
        /\ (visitor[p].teams # {} /\ p \notin upset) =>
             (catalogs[p] # None /\ grants[p] \notin {None, Broken} =>
                 catalogs[p] = UNION {g.catalogs : g \in grants[p]})
    BY <2>1 DEF Told
  <2> QED BY <1>2, <2>3, <2>4, <2>5 DEF Told
<1> QED BY <1>1, <1>3, <1>4, <1>5 DEF IInv

LEMMA FilesStep ==
    ASSUME IInv, [S3Next]_s3vars, UNCHANGED dvars PROVE IInv'
<1>1. S3TypeOK'
  <2>1. CASE S3Next BY <2>1, S3Step DEF IInv
  <2>2. CASE UNCHANGED s3vars BY <2>2 DEF IInv, S3TypeOK, s3vars, Compared
  <2> QED BY <2>1, <2>2
<1>2. UNCHANGED <<visitor, opaDoc, stage, queue, left, lost, upset, catalogs, grants>> BY DEF dvars
<1>3. PageTypeOK' /\ NothingLeftQueued' BY <1>2 DEF IInv, PageTypeOK, NothingLeftQueued
<1>4. ASSUME NEW p \in Pages PROVE Told(p)'
  <2>1. Told(p) BY DEF IInv
  <2> QED BY <1>2, <2>1 DEF Told
<1> QED BY <1>1, <1>3, <1>4 DEF IInv

LEMMA Step == IInv /\ [DNext]_allvars => IInv'
<1> SUFFICES ASSUME IInv, [DNext]_allvars PROVE IInv' OBVIOUS
<1>1. CASE S3Next /\ UNCHANGED dvars BY <1>1, FilesStep
<1>2. CASE Change /\ EditOpa /\ UNCHANGED <<policyDir, declaration, backend, mirror, report>>
  BY <1>2, OpaStep
<1>3. ASSUME NEW p \in Pages, PageStep(p), UNCHANGED s3vars PROVE IInv'
  <2>1. CASE Middle(p) BY <1>3, <2>1, MiddleStep
  <2>2. CASE ShowCatalogs(p) \/ ShowAnyCatalogs(p) BY <1>3, <2>2, CatalogsStep
  <2>3. CASE ShowGrants(p) \/ ShowNoGrants(p) BY <1>3, <2>3, GrantsStep
  <2> QED BY <1>3, <2>1, <2>2, <2>3 DEF PageStep, Middle
<1>4. CASE UNCHANGED allvars
  <2>1. UNCHANGED s3vars /\ UNCHANGED dvars BY <1>4 DEF allvars
  <2> QED BY <2>1, FilesStep
<1> QED BY <1>1, <1>2, <1>3, <1>4 DEF DNext

-----------------------------------------------------------------------------
(* Theorems *)

LEMMA Invariance == DSpec => []IInv
<1> QED BY PageStart, Step, PTL DEF DSpec

\* Types hold for any documents, pages and changes: in particular the server
\* never has half of a mirror (main.go:122-148).
THEOREM DashboardTypes == DSpec => []DashboardTypeOK
<1>1. IInv => DashboardTypeOK BY DEF IInv, S3TypeOK, PageTypeOK, DashboardTypeOK
<1> QED BY <1>1, Invariance, PTL

\* For any table, documents and resources, what a user holds is in the rows of
\* the card or in its warnings, and nothing is made up (policy.go:186-240,
\* access.go:106-145).
THEOREM CardsAreHonest == DSpec => []CardIsHonest
<1>1. IInv => CardIsHonest BY CardOfDocuments DEF IInv, S3TypeOK, Documents
<1> QED BY <1>1, Invariance, PTL

\* For any declaration and backend, a report without an item of a user means
\* that his card is drawn from what the backend enforces (drift.go:105-153).
THEOREM DriftIsTold == DSpec => []DriftTells
<1>1. IInv => DriftTells BY ReportTells DEF IInv, S3TypeOK
<1> QED BY <1>1, Invariance, PTL

\* For any number of pages, a statement whose cancel was not lost is gone when
\* the request ends (trino/client.go:66-91).
THEOREM QueueIsCleared == DSpec => []NothingLeftQueued
<1>1. IInv => NothingLeftQueued BY DEF IInv
<1> QED BY <1>1, Invariance, PTL

\* For any grants and pages, the two cards of a page agree unless OPA changed or
\* failed in between (integrations.go:71-80, 90-106).
THEOREM CardsAlwaysAgree == DSpec => []CardsAgree
<1>1. ASSUME IInv, NEW p \in Pages, catalogs[p] # None
      PROVE  IF visitor[p].teams = {} THEN catalogs[p] = Catalogs
             ELSE \/ grants[p] \in {None, Broken} \/ p \in upset
                  \/ catalogs[p] = UNION {g.catalogs : g \in grants[p]}
  BY <1>1 DEF IInv, Told
<1>2. IInv => CardsAgree BY <1>1 DEF CardsAgree
<1> QED BY <1>2, Invariance, PTL

-----------------------------------------------------------------------------
(* Backups *)

Underway == pc \in {"walk", "check", "put", "done"}
AtFile == pc \in {"check", "put"}

\* The walk stands at a file of the tree, and ends when none is left.
Walking ==
    /\ AtFile => cur \in Files
    /\ pc = "done" => todo = {}

\* PassMirrors for a pass under way: a file that was not touched is mirrored
\* unless its upload failed or the walk passed it over or has still to come by.
Behind ==
    Underway =>
      \A f \in Present \ (failed \cup unseen \cup changed) :
        f \in todo \/ (AtFile /\ f = cur) \/ bucket[prefix][f] = files[f]

SyncInv == TypeOK /\ Walking /\ Behind

-----------------------------------------------------------------------------
LEMMA SyncStart == Init => SyncInv
<1> SUFFICES ASSUME Init PROVE SyncInv
  OBVIOUS
<1> USE BackupAssumption DEF Init
<1>1. 0 \in Days /\ 0 \in 0 .. MaxEdits /\ 0 \in 0 .. MaxFaults
  BY DEF Days
<1>2. TypeOK
  BY <1>1 DEF TypeOK
<1>3. Walking /\ Behind
  BY DEF Walking, Behind, Underway, AtFile
<1> QED
  BY <1>2, <1>3 DEF SyncInv

\* What only counts, or says where the syncer stands, keeps its type.
LEMMA SyncTypes ==
    ASSUME TypeOK, Walking, [Next]_vars PROVE TypeOK'
<1> USE BackupAssumption DEF TypeOK, pass
<1>1. CASE Midnight
  <2>1. day' \in Days
    BY <1>1 DEF Midnight, Days
  <2> QED BY <1>1, <2>1 DEF Midnight
<1>2. ASSUME NEW f \in Files, Edit(f) PROVE TypeOK'
  <2>1. edits' \in 0 .. MaxEdits
    BY <1>2 DEF Edit
  <2>2. files' \in [Files -> Texts \cup {Absent}] /\ changed' \in SUBSET Files
    BY <1>2 DEF Edit
  <2> QED BY <1>2, <2>1, <2>2 DEF Edit
<1>3. CASE RestartSyncer
  <2>1. faults' \in 0 .. MaxFaults
    BY <1>3 DEF RestartSyncer
  <2> QED BY <1>3, <2>1 DEF RestartSyncer
<1>4. CASE BeginPass
  BY <1>4 DEF BeginPass, Present, NoFault
<1>5. CASE SkipPass
  <2>1. faults' \in 0 .. MaxFaults
    BY <1>5 DEF SkipPass, Fault
  <2> QED BY <1>5, <2>1 DEF SkipPass, Fault
<1>6. ASSUME NEW f \in Files, Visit(f) PROVE TypeOK'
  BY <1>6 DEF Visit
<1>7. CASE Check
  <2>1. faults' \in 0 .. MaxFaults
    <3>1. PICK answer \in {"same", "different", "error"} :
            CASE answer = "error" -> Fault
              [] answer = "same" ->
                   SameContent(files[cur], bucket[prefix][cur]) /\ NoFault
              [] answer = "different" ->
                   ~SameContent(files[cur], bucket[prefix][cur]) /\ NoFault
      BY <1>7, Zenon DEF Check
    <3>2. Fault \/ NoFault
      BY <3>1, Zenon
    <3> QED BY <3>2 DEF Fault, NoFault
  <2>2. pc' \in {"put", "walk"}
    BY <1>7 DEF Check
  <2>3. UNCHANGED <<day, files, bucket, pass, changed, edits>>
    BY <1>7 DEF Check
  <2> QED BY <2>1, <2>2, <2>3
<1>8. CASE Put
  <2>1. cur \in Files /\ prefix \in Days
    BY <1>8 DEF Put, Walking, AtFile
  <2>2. bucket' \in [Days -> [Files -> Texts \cup {Absent}]]
    BY <1>8, <2>1 DEF Put
  <2> QED BY <1>8, <2>2 DEF Put
<1>9. CASE PutFails
  <2>1. cur \in Files /\ prefix \in Days
    BY <1>9 DEF PutFails, Walking, AtFile
  <2>2. bucket' \in [Days -> [Files -> Texts \cup {Absent}]]
    BY <1>9, <2>1 DEF PutFails
  <2>3. faults' \in 0 .. MaxFaults
    BY <1>9 DEF PutFails, Fault, NoFault
  <2> QED BY <1>9, <2>1, <2>2, <2>3 DEF PutFails
<1>10. CASE EndPass
  BY <1>10 DEF EndPass
<1>11. CASE Again
  BY <1>11 DEF Again
<1>12. CASE VisitFails
  <2>1. faults' \in 0 .. MaxFaults
    BY <1>12 DEF VisitFails, Fault, NoFault
  <2>2. todo' \in SUBSET Files /\ unseen' \in SUBSET Files
    BY <1>12 DEF VisitFails
  <2> QED BY <1>12, <2>1, <2>2 DEF VisitFails
<1>13. CASE UNCHANGED vars
  BY <1>13 DEF vars
<1> QED
  BY <1>1, <1>2, <1>3, <1>4, <1>5, <1>6, <1>7, <1>8, <1>9, <1>10, <1>11,
     <1>12, <1>13 DEF Next, Run

LEMMA WalkingNext ==
    ASSUME TypeOK, Walking, [Next]_vars PROVE Walking'
<1> USE DEF Walking, AtFile, pass
<1>1. CASE Midnight \/ RestartSyncer \/ BeginPass \/ SkipPass \/ EndPass \/ Again
  BY <1>1 DEF Midnight, RestartSyncer, BeginPass, SkipPass, EndPass, Again
<1>2. ASSUME NEW f \in Files, Edit(f) \/ Visit(f) PROVE Walking'
  BY <1>2 DEF Edit, Visit
<1>3. CASE Check \/ Put \/ PutFails
  BY <1>3 DEF Check, Put, PutFails
<1>4. CASE VisitFails
  BY <1>4 DEF VisitFails
<1>5. CASE UNCHANGED vars
  BY <1>5 DEF vars
<1> QED
  BY <1>1, <1>2, <1>3, <1>4, <1>5 DEF Next, Run

LEMMA BehindNext ==
    ASSUME TypeOK, Walking, Behind, [Next]_vars PROVE Behind'
<1> USE DEF Behind, Underway, AtFile, Present, pass
\* Steps that leave the pass, the files and the objects alone, or begin anew.
<1>1. CASE Midnight \/ RestartSyncer \/ BeginPass \/ SkipPass \/ EndPass \/ Again
  BY <1>1 DEF Midnight, RestartSyncer, BeginPass, SkipPass, EndPass, Again
<1>2. ASSUME NEW f \in Files, Edit(f) PROVE Behind'
  <2>1. \A g \in Files \ {f} : files'[g] = files[g]
    BY <1>2 DEF Edit, TypeOK
  <2>2. changed' = changed \cup {f}
        /\ UNCHANGED <<bucket, pc, prefix, todo, cur, failed, unseen>>
    BY <1>2 DEF Edit
  <2> QED BY <2>1, <2>2
<1>3. ASSUME NEW f \in Files, Visit(f) PROVE Behind'
  BY <1>3 DEF Visit
<1>4. CASE Check
  <2>1. UNCHANGED <<files, bucket, prefix, todo, cur, failed, unseen, changed>>
    BY <1>4 DEF Check
  <2>2. \/ pc = "check" /\ pc' = "put"
        \/ /\ pc = "check" /\ pc' = "walk"
           /\ files[cur] = bucket[prefix][cur]
    BY <1>4 DEF Check, NeedsUpload, SameContent
  <2> QED BY <2>1, <2>2
<1>5. CASE Put
  <2>1. cur \in Files /\ prefix \in Days
    BY <1>5 DEF Put, Walking, TypeOK
  <2>2. /\ bucket'[prefix][cur] = files[cur]
        /\ \A g \in Files \ {cur} : bucket'[prefix][g] = bucket[prefix][g]
    BY <1>5, <2>1 DEF Put, TypeOK
  <2>3. pc = "put" /\ pc' = "walk"
        /\ UNCHANGED <<files, prefix, todo, cur, failed, unseen, changed>>
    BY <1>5 DEF Put
  <2> QED BY <2>2, <2>3
<1>6. CASE PutFails
  <2>1. cur \in Files /\ prefix \in Days
    BY <1>6 DEF PutFails, Walking, TypeOK
  <2>2. \A g \in Files \ {cur} : bucket'[prefix][g] = bucket[prefix][g]
    BY <1>6, <2>1 DEF PutFails, TypeOK
  <2>3. pc = "put" /\ pc' = "walk" /\ failed' = failed \cup {cur}
        /\ UNCHANGED <<files, prefix, todo, cur, unseen, changed>>
    BY <1>6 DEF PutFails
  <2> QED BY <2>2, <2>3
<1>7. CASE VisitFails
  <2>1. PICK S \in SUBSET todo : todo' = todo \ S /\ unseen' = unseen \cup S
    BY <1>7 DEF VisitFails
  <2>2. pc = "walk" /\ UNCHANGED <<files, bucket, pc, prefix, cur, failed, changed>>
    BY <1>7 DEF VisitFails
  <2> QED BY <2>1, <2>2
<1>8. CASE UNCHANGED vars
  BY <1>8 DEF vars
<1> QED
  BY <1>1, <1>2, <1>3, <1>4, <1>5, <1>6, <1>7, <1>8 DEF Next, Run

LEMMA SyncInvariance == Spec => []SyncInv
<1>1. SyncInv /\ [Next]_vars => SyncInv'
  BY SyncTypes, WalkingNext, BehindNext DEF SyncInv
<1> QED
  BY SyncStart, <1>1, PTL DEF Spec

-----------------------------------------------------------------------------
(* The theorems *)

\* The variables of the syncer keep their types.
THEOREM SyncerTypes == Spec => []TypeOK
<1>1. SyncInv => TypeOK
  BY DEF SyncInv
<1> QED
  BY SyncInvariance, <1>1, PTL

\* A pass that ends has mirrored, under the date it began on, every file that did
\* not fail, that the walk did not pass over and that was not touched meanwhile,
\* for any tree and any number of faults, restarts and passes before it
\* (syncer.go:20-25, 130-135).
THEOREM Mirrors == Spec => []PassMirrors
<1>1. SyncInv => PassMirrors
  BY DEF SyncInv, Walking, Behind, Underway, AtFile, PassMirrors
<1> QED
  BY SyncInvariance, <1>1, PTL

\* No step of the syncer, or of anything around it, takes an object away
\* (syncer.go:26-30).
THEOREM KeepsEverything == Spec => NothingIsDeleted
<1> DEFINE Kept == \A d \in Days, f \in Files :
                     bucket[d][f] # Absent => bucket'[d][f] # Absent
<1>1. SyncInv /\ [Next]_vars => [Kept]_vars
  <2> SUFFICES ASSUME SyncInv, Next, NEW d \in Days, NEW f \in Files,
                      bucket[d][f] # Absent
               PROVE  bucket'[d][f] # Absent
    OBVIOUS
  <2>1. CASE UNCHANGED bucket
    BY <2>1
  <2>2. CASE bucket' = [bucket EXCEPT ![prefix][cur] = files[cur]]
             /\ files[cur] # Absent
    <3>1. bucket \in [Days -> [Files -> Texts \cup {Absent}]]
      BY DEF SyncInv, TypeOK
    <3> QED BY <2>2, <3>1
  <2>3. UNCHANGED bucket \/ (bucket' = [bucket EXCEPT ![prefix][cur] = files[cur]]
                             /\ files[cur] # Absent)
    BY DEF Next, Run, Midnight, Edit, RestartSyncer, SkipPass, BeginPass, Visit, VisitFails,
           Check, Put, PutFails, EndPass, Again
  <2> QED BY <2>1, <2>2, <2>3
<1> QED
  BY SyncInvariance, <1>1, PTL DEF Spec, NothingIsDeleted
=============================================================================
