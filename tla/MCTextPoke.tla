----------------------------- MODULE MCTextPoke -----------------------------
(* Instances of TextPoke for TLC. *)
EXTENDS TextPoke, TLC

\* CPUs, and instructions other than INT3, can be permuted.
Symmetry == Permutations(Cpu) \cup Permutations(Insn \ {INT3})
============================================================================
