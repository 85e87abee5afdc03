------------------------------ MODULE TextPoke ------------------------------
(***************************************************************************)
(* Live patching of kernel text with INT3, arch/x86/kernel/alternative.c:  *)
(* text_poke_queue(), text_poke_bp(), text_poke_finish() and the batch they*)
(* run, against CPUs that execute the text meanwhile and take the traps.   *)
(*                                                                         *)
(* An instruction is a head (its first byte) and a tail (the rest).  A CPU *)
(* executes from its own view of the text, which follows memory byte by    *)
(* byte at no particular time; sync_core() makes it current.               *)
(***************************************************************************)
EXTENDS Integers, Sequences, FiniteSets

CONSTANTS
    Cpu,
    Site,           \* addresses of patchable instructions
    LongSite,       \* those longer than the one byte of an INT3
    Insn,           \* instructions that get installed
    INT3,           \* INT3_INSN_OPCODE; a member of Insn if someone pokes it
    TP_VEC_MAX,
    MaxPokes        \* bound: instructions installed in a behaviour

ASSUME TextPokeAssumption ==
    /\ Site \subseteq Nat /\ LongSite \subseteq Site /\ IsFiniteSet(Cpu)
    /\ TP_VEC_MAX \in Nat \ {0} /\ MaxPokes \in Nat

VARIABLES
    mem,        \* the text, per site [head, tail]
    view,       \* what each CPU fetches
    tp_vec, bp_vec, refs,       \* tp_vec[], bp_desc.vec and bp_desc.refs
    ppc, i,     \* the patcher, holder of text_mutex: phase and loop index
    do_sync,
    unsynced,   \* CPUs that have not run do_sync_core() yet
    pend,       \* entries text_poke_queue() still has to append
    pc, at,     \* each CPU: running or in poke_int3_handler(), and for which site
    want, was,  \* ghost: instruction last requested for, and before that at, a site
    pokes

patchVars == <<tp_vec, bp_vec, ppc, i, do_sync, pend, want, was, pokes>>
cpuVars   == <<pc, at>>
vars      == <<mem, view, refs, unsynced, patchVars, cpuVars>>

Loc == [addr : Site, insn : Insn]

Phases == {"idle", "int3", "sync_int3", "tail", "sync_tail", "head", "sync_head",
           "drop", "drain"}

Init ==
    /\ \E v \in Insn \ {INT3} :
          /\ want = [s \in Site |-> v] /\ was = want
          /\ mem = [s \in Site |-> [head |-> v, tail |-> v]]
    /\ view = [c \in Cpu |-> mem]
    /\ tp_vec = <<>> /\ bp_vec = <<>> /\ refs = 0
    /\ ppc = "idle" /\ i = 1 /\ do_sync = FALSE /\ unsynced = {} /\ pend = <<>>
    /\ pc = [c \in Cpu |-> "run"] /\ at = [c \in Cpu |-> CHOOSE s \in Site : TRUE]
    /\ pokes = 0

----------------------------------------------------------------------------
(* The patcher.                                                            *)

\* text_poke_bp_batch() up to the first poke.
StartBatch(vec) ==
    /\ bp_vec' = vec /\ refs' = 1
    /\ ppc' = "int3" /\ i' = 1

MutOrderFail(s, vec) == FALSE                   \* mutant: queue in any order

\* tp_order_fail(): the vector must stay sorted by address.
tp_order_fail(s, vec) == vec # <<>> /\ vec[Len(vec)].addr > s

MutVecFull(vec) == Len(vec) > TP_VEC_MAX        \* mutant: one entry too many

VecFull(vec) == Len(vec) = TP_VEC_MAX

\* text_poke_queue(): flush first if the vector is full or the address out of
\* order.  Callers queue an address once per batch.
text_poke_queue(s, v) ==
    /\ ppc = "idle" /\ pokes < MaxPokes
    /\ \A k \in 1 .. Len(tp_vec) : tp_vec[k].addr # s
    /\ pokes' = pokes + 1
    /\ want' = [want EXCEPT ![s] = v] /\ was' = [was EXCEPT ![s] = want[s]]
    /\ LET tp == [addr |-> s, insn |-> v]
       IN IF VecFull(tp_vec) \/ tp_order_fail(s, tp_vec)
          THEN StartBatch(tp_vec) /\ pend' = <<tp>> /\ UNCHANGED tp_vec
          ELSE tp_vec' = Append(tp_vec, tp) /\ UNCHANGED <<bp_vec, refs, ppc, i, pend>>
    /\ UNCHANGED <<mem, view, do_sync, unsynced, cpuVars>>

text_poke_finish ==
    /\ ppc = "idle" /\ tp_vec # <<>>
    /\ StartBatch(tp_vec)
    /\ UNCHANGED <<mem, view, tp_vec, do_sync, unsynced, pend, want, was, pokes, cpuVars>>

\* text_poke_bp(): a vector of one entry on the stack.
text_poke_bp(s, v) ==
    /\ ppc = "idle" /\ pokes < MaxPokes
    /\ \A k \in 1 .. Len(tp_vec) : tp_vec[k].addr # s
    /\ pokes' = pokes + 1
    /\ want' = [want EXCEPT ![s] = v] /\ was' = [was EXCEPT ![s] = want[s]]
    /\ StartBatch(<<[addr |-> s, insn |-> v]>>)
    /\ UNCHANGED <<mem, view, tp_vec, do_sync, unsynced, pend, cpuVars>>

\* One iteration of a loop of text_poke_bp_batch(): text_poke() of one part of
\* entry i, or nothing, then the next entry or the phase after the loop.
Loop(phase, writes, poked, synced, after) ==
    /\ ppc = phase /\ i <= Len(bp_vec)
    /\ mem' = IF writes THEN poked ELSE mem
    /\ LET sync == do_sync \/ writes
           last == i = Len(bp_vec)
       IN /\ i' = IF last THEN 1 ELSE i + 1
          /\ do_sync' = (sync /\ ~last)
          /\ ppc' = IF ~last THEN phase ELSE IF sync THEN synced ELSE after
          /\ unsynced' = IF last /\ sync THEN Cpu ELSE unsynced
    /\ UNCHANGED <<view, refs, tp_vec, bp_vec, pend, want, was, pokes, cpuVars>>

\* First step: an INT3 over the first byte.
WriteInt3 ==
    Loop("int3", TRUE, [mem EXCEPT ![bp_vec[i].addr].head = INT3], "sync_int3", "tail")

\* Second step: all but the first byte.
WriteTail ==
    Loop("tail", bp_vec[i].addr \in LongSite,
         [mem EXCEPT ![bp_vec[i].addr].tail = bp_vec[i].insn], "sync_tail", "head")

\* Third step: the first byte, unless it stays an INT3.
WriteHead ==
    Loop("head", bp_vec[i].insn # INT3,
         [mem EXCEPT ![bp_vec[i].addr].head = bp_vec[i].insn], "sync_head", "drop")

MutSynced == TRUE                               \* mutant: does not wait for the IPIs

\* text_poke_sync() waits for every CPU.
Synced == unsynced = {}

text_poke_sync ==
    /\ ppc \in {"sync_int3", "sync_tail", "sync_head"} /\ Synced
    /\ ppc' = CASE ppc = "sync_int3" -> "tail" [] ppc = "sync_tail" -> "head"
                [] ppc = "sync_head" -> "drop"
    /\ UNCHANGED <<mem, view, refs, unsynced, tp_vec, bp_vec, i, do_sync, pend, want, was,
                   pokes, cpuVars>>

\* Back in the caller: text_poke_flush() empties tp_vec if it was the vector,
\* text_poke_queue() appends its entry.
Return ==
    /\ tp_vec' = IF bp_vec = tp_vec THEN pend ELSE tp_vec
    /\ pend' = <<>> /\ ppc' = "idle"

MutDrained(r) == TRUE                           \* mutant: does not wait for handlers

Drained(r) == r = 0

\* mutant: waits without dropping the patcher's own reference
MutDropRef ==
    /\ ppc = "drop"
    /\ ppc' = "drain"
    /\ UNCHANGED <<mem, view, refs, unsynced, tp_vec, bp_vec, i, do_sync, pend, want, was,
                   pokes, cpuVars>>

\* Drop the patcher's reference and, unless it was the last, wait.
DropRef ==
    /\ ppc = "drop"
    /\ refs' = refs - 1
    /\ IF Drained(refs - 1) THEN Return ELSE ppc' = "drain" /\ UNCHANGED <<tp_vec, pend>>
    /\ UNCHANGED <<mem, view, unsynced, bp_vec, i, do_sync, want, was, pokes, cpuVars>>

Drain ==
    /\ ppc = "drain" /\ Drained(refs)
    /\ Return
    /\ UNCHANGED <<mem, view, refs, unsynced, bp_vec, i, do_sync, want, was, pokes, cpuVars>>

----------------------------------------------------------------------------
(* The CPUs.                                                               *)

\* The instruction fetch of a CPU notices the current value of one byte.
Snoop(c, s) ==
    /\ \/ view' = [view EXCEPT ![c][s].head = mem[s].head]
       \/ view' = [view EXCEPT ![c][s].tail = mem[s].tail]
    /\ view' # view
    /\ UNCHANGED <<mem, refs, unsynced, patchVars, cpuVars>>

\* do_sync_core(), in an IPI: not while a trap is handled with interrupts off.
do_sync_core(c) ==
    /\ c \in unsynced /\ pc[c] = "run"
    /\ unsynced' = unsynced \ {c}
    /\ view' = [view EXCEPT ![c] = mem]
    /\ UNCHANGED <<mem, refs, patchVars, cpuVars>>

\* The CPU executes an INT3 and enters poke_int3_handler().
Trap(c, s) ==
    /\ pc[c] = "run" /\ view[c][s].head = INT3
    /\ pc' = [pc EXCEPT ![c] = "int3"] /\ at' = [at EXCEPT ![c] = s]
    /\ UNCHANGED <<mem, view, refs, unsynced, patchVars>>

\* try_get_desc(); without a reference the trap is left to other handlers.
try_get_desc(c) ==
    /\ pc[c] = "int3"
    /\ IF refs = 0 THEN pc' = [pc EXCEPT ![c] = "unclaimed"] /\ UNCHANGED refs
       ELSE pc' = [pc EXCEPT ![c] = "search"] /\ refs' = refs + 1
    /\ UNCHANGED <<mem, view, unsynced, patchVars, at>>

\* mutant: goes on in the wrong half
MutBsearch(s, vec) ==
    LET f[base \in 0 .. Len(vec), num \in 0 .. Len(vec)] ==
          IF num = 0 THEN 0
          ELSE LET pivot == base + num \div 2 + 1
               IN IF vec[pivot].addr = s THEN pivot
                  ELSE IF vec[pivot].addr > s THEN f[pivot, (num - 1) \div 2]
                  ELSE f[base, num \div 2]
    IN f[0, Len(vec)]

\* __inline_bsearch() over vec for address s: an index, or 0.  (base, num) is the
\* part still searched.
bsearch(s, vec) ==
    LET f[base \in 0 .. Len(vec), num \in 0 .. Len(vec)] ==
          IF num = 0 THEN 0
          ELSE LET pivot == base + num \div 2 + 1
               IN IF vec[pivot].addr = s THEN pivot
                  ELSE IF vec[pivot].addr < s THEN f[pivot, (num - 1) \div 2]
                  ELSE f[base, num \div 2]
    IN f[0, Len(vec)]

\* Emulate the entry found; an INT3 someone poked is not consumed.
SearchVec(c) ==
    /\ pc[c] = "search"
    /\ LET k == bsearch(at[c], bp_vec)
       IN pc' = [pc EXCEPT ![c] = IF k # 0 /\ bp_vec[k].insn # INT3 THEN "emulated"
                                  ELSE "put_unclaimed"]
    /\ UNCHANGED <<mem, view, refs, unsynced, patchVars, at>>

put_desc(c) ==
    /\ pc[c] \in {"emulated", "put_unclaimed"}
    /\ refs' = refs - 1
    /\ pc' = [pc EXCEPT ![c] = IF pc[c] = "emulated" THEN "run" ELSE "unclaimed"]
    /\ UNCHANGED <<mem, view, unsynced, patchVars, at>>

\* The owner of an explicit INT3 (a kprobe, kgdb) handles it; nobody handles a
\* stray one.
OtherHandler(c) ==
    /\ pc[c] = "unclaimed" /\ INT3 \in {want[at[c]], was[at[c]]}
    /\ pc' = [pc EXCEPT ![c] = "run"]
    /\ UNCHANGED <<mem, view, refs, unsynced, patchVars, at>>

Handler(c) == try_get_desc(c) \/ SearchVec(c) \/ put_desc(c) \/ OtherHandler(c)

Batch == WriteInt3 \/ WriteTail \/ WriteHead \/ text_poke_sync \/ DropRef \/ Drain

Next ==
    \/ \E s \in Site, v \in Insn : text_poke_queue(s, v) \/ text_poke_bp(s, v)
    \/ text_poke_finish
    \/ Batch
    \/ \E c \in Cpu : do_sync_core(c) \/ Handler(c) \/ \E s \in Site : Snoop(c, s) \/ Trap(c, s)

Spec == Init /\ [][Next]_vars

\* The patcher runs, a trap is handled to its end, IPIs arrive although the CPU
\* keeps trapping in between.
FairSpec ==
    /\ Spec /\ WF_vars(Batch)
    /\ \A c \in Cpu : WF_vars(Handler(c)) /\ SF_vars(do_sync_core(c))

----------------------------------------------------------------------------
(* Properties.                                                             *)

\* Every variable has its type.
TypeOK ==
    /\ mem \in [Site -> [head : Insn \cup {INT3}, tail : Insn]]
    /\ view \in [Cpu -> [Site -> [head : Insn \cup {INT3}, tail : Insn]]]
    /\ tp_vec \in Seq(Loc) /\ Len(tp_vec) <= TP_VEC_MAX
    /\ bp_vec \in Seq(Loc) /\ pend \in Seq(Loc)
    /\ refs \in Nat
    /\ ppc \in Phases /\ i \in Nat \ {0} /\ do_sync \in BOOLEAN /\ unsynced \subseteq Cpu
    /\ pc \in [Cpu -> {"run", "int3", "search", "emulated", "put_unclaimed", "unclaimed"}]
    /\ at \in [Cpu -> Site] /\ want \in [Site -> Insn] /\ was \in [Site -> Insn]
    /\ pokes \in Nat

\* No CPU can execute a mixture of two instructions: what it fetches starts with
\* INT3 or is one whole instruction, at every moment of the three-step protocol.
NoTornFetch ==
    \A c \in Cpu, s \in LongSite :
        view[c][s].head = INT3 \/ view[c][s].head = view[c][s].tail

\* A trap the handler does not claim belongs to an INT3 someone asked for; the
\* patcher's own INT3s are always found by the binary search, whatever the order
\* in which addresses were queued, and emulated.
NoStrayTrap ==
    \A c \in Cpu : pc[c] = "unclaimed" => INT3 \in {want[at[c]], was[at[c]]}

\* While a handler may look at the vector the patcher stays inside the batch, so
\* the entries are not reused under it.
VectorPinned ==
    \A c \in Cpu : pc[c] = "search" => ppc # "idle" /\ refs > 0

\* What CPU c executes when it gets to s: what it fetches, or, at an INT3, what
\* poke_int3_handler() emulates.
Executes(c, s) ==
    LET f == view[c][s]
        k == IF refs > 0 THEN bsearch(s, bp_vec) ELSE 0
    IN IF f.head = INT3 THEN IF k # 0 THEN bp_vec[k].insn ELSE INT3
       ELSE IF s \in LongSite /\ f.tail # f.head THEN f ELSE f.head

Addrs(vec) == {vec[k].addr : k \in 1 .. Len(vec)}

Requested == Addrs(tp_vec) \cup Addrs(pend) \cup (IF ppc = "idle" THEN {} ELSE Addrs(bp_vec))

Text == INSTANCE AtomicText
            WITH exec <- [c \in Cpu |-> [s \in Site |-> Executes(c, s)]], open <- Requested

\* The three-step protocol with its traps implements instructions that change at
\* once: each CPU goes from the old instruction to the new one, never back and to
\* nothing in between, and a batch returns after all have.
ImplementsAtomicText == Text!Spec

\* Every batch ends, also while CPUs keep running into its INT3s.
BatchEnds == ppc # "idle" ~> ppc = "idle"
============================================================================
