------------------------------- MODULE MCTlb -------------------------------
(* Instances of Tlb for TLC. *)
EXTENDS Tlb, TLC

\* CPUs with the same part, mms and pages can be permuted.
Symmetry == Permutations(Flusher \ Switcher) \cup Permutations(Switcher \ Flusher)
            \cup Permutations(Flusher \cap Switcher)
            \cup Permutations(Mm) \cup Permutations(Page)
============================================================================
