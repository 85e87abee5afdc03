------------------------------ MODULE MCAsyncPf ------------------------------
\* Asynchronous page faults on two CPUs, for TLC.
EXTENDS AsyncPf

CONSTANTS t1, g1, g2, g3

\* Two frames share the last slot of the table, the third has the first one:
\* probing and deletion wrap around.
MCHash == [g \in Gfn |-> IF g = g3 THEN 0 ELSE ASYNC_PF_PER_VCPU - 1]

MCPages == [t \in Task |-> IF t = t1 THEN {g1, g3} ELSE {g2}]
=============================================================================
