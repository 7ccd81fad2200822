---------------------------- MODULE MCVaultGraph ----------------------------
(* A small instance of VaultGraph for TLC. *)
EXTENDS VaultGraph, TLC

Char(letter, w, lw) == [letter |-> letter, w |-> w, lw |-> lw]
Link(dir, name, code) == [to |-> [dir |-> dir, name |-> name], code |-> code]
To(dir, name) == [dir |-> dir, name |-> name]

\* "aab" in two-byte letters; and a text with letters wider in lower case.
Plain == [fields |-> {[key |-> "depends_on", form |-> "block",
                       values |-> <<<<To("d", "m"), To(None, "v1.2")>>, <<>>, <<To(None, "m")>>>>],
                      [key |-> "tags", form |-> "block", values |-> <<<<To(None, "m")>>>>]},
          links |-> {Link(None, "n", FALSE), Link("d", "pic", FALSE)},
          text |-> <<Char("z", 2, 2), Char("a", 1, 1), Char("b", 2, 2), Char("z", 2, 2), Char("z", 2, 2)>>]
Wide == [fields |-> {[key |-> "uses", form |-> "bare", values |-> <<<<To(None, "n"), To("d", "m")>>>>]},
         links |-> {Link("d", "n", TRUE), Link(None, "v1.2", FALSE)},
         text |-> [i \in 1 .. 6 |-> IF i = 5 THEN Char("a", 1, 1) ELSE IF i = 6 THEN Char("b", 2, 2)
                                    ELSE Char("y", 2, 3)]]

At(dir, name) == [dir |-> dir, name |-> name]
Vault(f) == [p \in Path |-> IF p \in DOMAIN f THEN f[p] ELSE Absent]
Some == {Vault(At(".", "n.md") :> Plain @@ At("d", "m.md") :> Wide),
         Vault(At("d", "n.md") :> Plain @@ At("d", "m.md") :> Plain),
         Vault(At(".", "n.md") :> Wide @@ At(".", "a.png") :> Plain @@ At("e", "n.md") :> Plain)}
Notes == {Plain, Wide}
Sought == <<"a", "b">>
Filed == "n" :> "n.md" @@ "m" :> "m.md" @@ "pic" :> "pic" @@ "v1.2" :> "v1.2"
=============================================================================
