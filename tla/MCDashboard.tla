---------------------------- MODULE MCDashboard ----------------------------
(* A small instance of Dashboard for TLC. *)
EXTENDS Dashboard, TLC

Table == "s3:GetObject" :> "read" @@ "s3:PutObject" :> "write" @@ "s3:ListBucket" :> "list"

\* GetObjectAcl and ListAllMyBuckets are not in the table.
Meaning == [f \in DOMAIN Table |-> {f}]
           @@ "s3:Get*" :> {"s3:GetObject", "s3:GetObjectAcl"}
           @@ "s3:*Object" :> {"s3:GetObject", "s3:PutObject"}
           @@ "s3:ListAllMyBuckets" :> {"s3:ListAllMyBuckets"}
Prefixes == {"s3:Get*"}

Parts == "bi" :> "bi" @@ "bi/*" :> "bi" @@ "bi*" :> "bi*" @@ "*" :> "*" @@ "urn" :> None
Reach == "bi" :> {"bi"} @@ "bi/*" :> {"bi"} @@ "bi*" :> {"bi", "bi2"}
         @@ "*" :> {"bi", "bi2"} @@ "urn" :> {}
Stands == "bi" :> {"bi"} @@ "bi*" :> {"bi", "bi2"} @@ "*" :> {"bi", "bi2"}

Allow(actions, resources) ==
    [effect |-> "Allow", negated |-> FALSE, condition |-> FALSE,
     actions |-> actions, resources |-> resources]

Reader == {Allow({"s3:Get*", "s3:ListAllMyBuckets"}, {"bi/*", "urn"})}
Writer == {[Allow({"s3:PutObject"}, {"bi*"}) EXCEPT !.condition = TRUE],
           [Allow({"s3:GetObject"}, {"bi"}) EXCEPT !.effect = "Deny"]}
Odd == {Allow({"s3:ListBucket", "s3:*Object"}, {"*"}),
        [Allow({}, {"bi"}) EXCEPT !.negated = TRUE]}

Dirs == {<<>>, "p" :> Reader @@ "q" :> Writer, "p" :> Odd, "p" :> Reader @@ "q" :> Broken}

Spelling == "uid=a" :> "uid=a" @@ "UID=A" :> "uid=a" @@ "cn=g" :> "cn=g" @@ "CN=g" :> "cn=g"
            @@ "uid=b" :> "uid=b"
People == {[dn |-> "uid=a", groups |-> {"cn=g"}, teams |-> {"bi"}],
           [dn |-> "uid=b", groups |-> {"CN=g"}, teams |-> {}]}

Holds(p, users, groups) == [policy |-> p, users |-> users, groups |-> groups]
Sayings == {None, {Holds("q", {"UID=A"}, {})},
            {Holds("p", {}, {"CN=g"}), Holds("q", {"UID=A"}, {})},
            {Holds("p", {"cn=g"}, {}), Holds("q", {}, {"cn=g"})},
            {Holds(None, {"uid=a"}, {})}}
AtBackend == {Source("group", "cn=g", "p"), Source("group", "cn=g", "q"),
              Source("user", "uid=a", "q")}
TeamBuckets == "bi" :> {"bi"}

Groups == [u \in People |-> IF u.teams = {} THEN "ops" ELSE None]
Served == {None, [teams |-> "bi" :> {"hive"} @@ "ml" :> {"lake"}, groups |-> "ops" :> {"*"}],
           [teams |-> "ml" :> {"lake"}, groups |-> "ops" :> {"ml", "qa"}]}
=============================================================================
