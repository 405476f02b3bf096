---------------------------- MODULE MCStreamTurn ----------------------------
(* StreamTurn with the symmetry of its interchangeable requests. *)
EXTENDS StreamTurn, TLC

\* Turns that hang up are not interchangeable with those that do not.
RequestSymmetry ==
    Permutations(Impatient) \union Permutations(Turns \ Impatient)
    \union Permutations(Interrupts) \union Permutations(Background)
=============================================================================
