------------------------------- MODULE MCNmi -------------------------------
(* Instances of Nmi for TLC. *)
EXTENDS Nmi, TLC

Symmetry == Permutations(Cpu) \cup Permutations(Handler)
============================================================================
