---------------------------- MODULE MCLocalEngine ----------------------------
(* Small instances of LocalEngine for TLC. *)
EXTENDS LocalEngine, TLC

CONSTANTS u1, u2, n1, n2, n3, n4, d1

InNamespace == [n \in Notes |-> d1]
InRootOrNamespace == [n \in Notes |-> IF n = n4 THEN Root ELSE d1]

Short == <<"a">>
Long == <<"b", "b">>
OneText == {Long}
TwoTexts == {Short, Long}

On(notes) ==
    [op : {"save"}, path : notes, content : Contents]
    \cup [op : {"delete"}, path : notes]
    \cup [op : {"rename"}, from : notes, path : notes]

OnNamespaces == [op : {"namespace", "delete"}, path : Dirs]

\* Each client keeps to notes of its own; namespaces belong to everyone.
ApartRequests ==
    (u1 :> On({n1, n2}) \cup OnNamespaces)
    @@ (u2 :> On({n3, n4}) \cup OnNamespaces)

SharedRequests == [c \in Clients |-> On(Notes)]

Symmetry == Permutations(Clients) \cup Permutations(Notes)
=============================================================================
