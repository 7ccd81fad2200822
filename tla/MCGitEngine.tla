----------------------------- MODULE MCGitEngine -----------------------------
(* Small instances of GitEngine for TLC. *)
EXTENDS GitEngine, TLC

SavesAndDeletes ==
    [op : {"save"}, path : Notes, text : Texts]
    \cup [op : {"delete"}, path : Notes]

AllRequests ==
    SavesAndDeletes \cup [op : {"rename"}, from : Notes, path : Notes]

Symmetry == Permutations(Users) \cup Permutations(Texts)
=============================================================================
