----------------------------- MODULE MCPtyAttach -----------------------------
(* PtyAttach with the symmetry of its interchangeable tiles and rotations. *)
EXTENDS PtyAttach, TLC

Symmetry == Permutations(Tiles) \union Permutations(Rotations)
=============================================================================
