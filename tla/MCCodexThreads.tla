--------------------------- MODULE MCCodexThreads ---------------------------
(* CodexThreads on model values, without the symmetry its liveness forbids. *)
EXTENDS CodexThreads, TLC
=============================================================================
