----------------------------- MODULE MCK8sEngine -----------------------------
(* Small instances of K8sEngine for TLC. *)
EXTENDS K8sEngine, TLC

SaveReq(p, x) == [op |-> "save", path |-> p, content |-> x]
DeleteReq(p) == [op |-> "delete", path |-> p]
RenameReq(p, q) == [op |-> "rename", from |-> p, path |-> q]

NoteRequests ==
    {SaveReq(p, x) : p \in Paths, x \in Contents}
    \cup {DeleteReq(p) : p \in Paths}
    \cup {RenameReq(p, q) : p \in Paths, q \in Paths}

AllRequests == NoteRequests \cup {DeleteReq(<<s, Whole>>) : s \in Secrets}

Symmetry == Permutations(Clients) \cup Permutations(Keys)
            \cup Permutations(Secrets) \cup Permutations(Contents)
=============================================================================
