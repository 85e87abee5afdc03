----------------------------- MODULE AtomicText -----------------------------
(***************************************************************************)
(* What live patching promises, alternative.c: to a CPU an instruction     *)
(* changes at once, from the old one to the new one, at a moment of its    *)
(* own between the request and the return of the patching function.  It    *)
(* never executes anything else, and never the old one again.              *)
(***************************************************************************)
CONSTANTS Cpu, Site, Insn, INT3

VARIABLES
    exec,       \* exec[c][s]: what CPU c executes when it gets to s
    want,       \* the instruction last requested for each site
    open        \* sites with a request that is not known to be complete

vars == <<exec, want, open>>

Init ==
    /\ want \in [Site -> Insn \ {INT3}]
    /\ exec = [c \in Cpu |-> want]
    /\ open = {}

\* Any CPUs may go over to the new instructions.
MaySwitch ==
    LET before == exec
        after == exec'
    IN \A c \in Cpu, s \in Site : after[c][s] \in {before[c][s], want'[s]}

Request(s, v) ==
    /\ s \notin open /\ open' = open \cup {s}
    /\ want' = [want EXCEPT ![s] = v]
    /\ MaySwitch

Switch ==
    /\ UNCHANGED <<want, open>>
    /\ MaySwitch

\* The patching function returns when every CPU has gone over.
Complete ==
    /\ open' \subseteq open
    /\ \A c \in Cpu, s \in open \ open' : exec[c][s] = want[s]
    /\ UNCHANGED <<exec, want>>

Next == Switch \/ Complete \/ \E s \in Site, v \in Insn : Request(s, v)

Spec == Init /\ [][Next]_vars
============================================================================
