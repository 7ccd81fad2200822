--------------------------- MODULE MCAuditRecorder ---------------------------
(* Small instances of AuditRecorder for TLC. *)
EXTENDS AuditRecorder, TLC

Symmetry == Permutations(Recorders) \cup Permutations(Channels)
=============================================================================
