----------------------------- MODULE MCOverflow -----------------------------
(* Instances of Overflow for TLC.                                          *)
EXTENDS Overflow, TLC

JoinsAlike == Permutations(Joins)

=============================================================================
