------------------------------- MODULE MCMce -------------------------------
(* Instances of Mce for TLC. *)
EXTENDS Mce, TLC

CONSTANT c1

\* Bank 1 is the first CPU's own, bank 2 is shared by all.
MCSees == [c \in Cpu |-> IF c = c1 THEN {1, 2} ELSE {2}]
============================================================================
