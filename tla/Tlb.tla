-------------------------------- MODULE Tlb --------------------------------
(***************************************************************************)
(* TLB coherence on x86: arch/x86/mm/tlb.c with asm/tlbflush.h,            *)
(* asm/mmu_context.h and the CR3 macros of entry/calling.h.                *)
(*                                                                         *)
(* A page table entry is a version number, raised by every change.  A CPU  *)
(* may cache the current version under its current PCID at any moment.     *)
(* Every mm counts its flushes in tlb_gen, every CPU remembers per ASID    *)
(* slot the generation it has caught up to, and the code below decides who *)
(* has to flush what.  A step is atomic exactly when it touches at most    *)
(* one word that another CPU writes.                                       *)
(***************************************************************************)
EXTENDS Integers, FiniteSets

CONSTANTS
    Cpu,
    Mm,             \* slots of the mm_struct allocator, init_mm excluded
    Page,           \* user pages of an address space
    InitMm,         \* &init_mm
    Switching,      \* LOADED_MM_SWITCHING
    NoMm,           \* a NULL mm pointer
    TLB_NR_DYN_ASIDS,
    tlb_single_page_flush_ceiling,
    PCID, PTI, INVPCID,     \* X86_FEATURE_...
    MaxGen,         \* bound: flushes of one address space
    MaxVersion,     \* bound: changes of one page table entry
    MaxCtxId,       \* bound: address spaces ever created
    MaxBatch,       \* bound: unmaps deferred into one batch
    Flusher,        \* bound: the CPUs that initiate flushes
    FreedTables,    \* bound: the values of freed_tables they pass
    Switcher,       \* bound: the CPUs that leave init_mm
    KernelFlushed   \* bound: the CPUs that see kernel range flushes

ASSUME TlbAssumption ==
    /\ InitMm \notin Mm /\ Switching \notin Mm /\ NoMm \notin Mm
    /\ InitMm # Switching /\ NoMm # InitMm /\ NoMm # Switching
    /\ TLB_NR_DYN_ASIDS \in Nat /\ TLB_NR_DYN_ASIDS >= 2
    /\ tlb_single_page_flush_ceiling \in Nat
    /\ PCID \in BOOLEAN /\ PTI \in BOOLEAN /\ INVPCID \in BOOLEAN
    /\ MaxGen \in Nat /\ MaxVersion \in Nat /\ MaxCtxId \in Nat /\ MaxBatch \in Nat
    /\ Flusher \subseteq Cpu /\ FreedTables \subseteq BOOLEAN /\ Switcher \subseteq Cpu
    /\ KernelFlushed \subseteq Cpu

VARIABLES
    \* mm->context and the page tables, shared by all CPUs
    mm_ctx_id,          \* context.ctx_id, 0 for a slot that holds no mm
    last_mm_ctx_id,
    tlb_gen,            \* context.tlb_gen
    mm_cpumask,
    pte,                \* version of every entry
    floor,              \* ghost: oldest version a TLB at generation g may hold
    \* struct tlb_state and tlb_state_shared, one per CPU
    loaded_mm, loaded_mm_asid, next_asid, invalidate_other,
    ctx_id, ctx_gen,    \* ctxs[asid].ctx_id and .tlb_gen
    user_pcid_flush_mask,
    is_lazy,
    \* the processor
    cr3_mm, cr3_asid,
    usermode,           \* on the user half of the PTI page tables
    tlb, utlb,          \* entries cached under kern_pcid / user_pcid of an ASID
    kstale,             \* PCIDs that may hold a removed kernel translation
    \* control
    curr_mm,            \* current->mm
    pc,                 \* task context: the scheduler, or a flush being initiated
    sw,                 \* frame of switch_mm_irqs_off()
    h,                  \* frame of flush_tlb_func()
    ipi,                \* initiators whose flush IPI is pending or running here
    info, todo, runlocal,
    batch,              \* current->tlb_ubc of the one reclaiming task
    promise,            \* ghost: generations the flush in progress will guarantee
    done_gen,           \* ghost: generations guaranteed to all users of the mm
    table_gen           \* ghost: the same for flushes that freed page tables

mmVars    == <<mm_ctx_id, last_mm_ctx_id, tlb_gen, pte, floor>>
slotVars  == <<next_asid, invalidate_other, ctx_id>>
loadVars  == <<loaded_mm, loaded_mm_asid>>
cr3Vars   == <<cr3_mm, cr3_asid>>
hwVars    == <<cr3Vars, usermode, tlb, utlb, kstale, user_pcid_flush_mask>>
flushVars == <<info, todo, runlocal, batch, promise, done_gen, table_gen>>
tlbVars   == <<mmVars, mm_cpumask, loadVars, slotVars, ctx_gen, is_lazy, hwVars>>
vars      == <<tlbVars, curr_mm, pc, sw, h, ipi, flushVars>>

----------------------------------------------------------------------------

Asid     == 0 .. TLB_NR_DYN_ASIDS - 1
Gen      == 0 .. MaxGen
Version  == 0 .. MaxVersion
CtxId    == 0 .. MaxCtxId
Entry    == [ctx : CtxId, page : Page, ver : Version]
InitCtx  == 1                           \* INIT_MM_CONTEXT
TLB_GENERATION_INVALID == 0

CtxIdOf(m)  == IF m = InitMm THEN InitCtx ELSE mm_ctx_id[m]
TlbGenOf(m) == IF m = InitMm THEN 0 ELSE tlb_gen[m]

NoSw   == [pc |-> "none", next |-> InitMm, asid |-> 0, gen |-> 0, flush |-> FALSE]
NoH(c) == [pc |-> "none", req |-> c, gen |-> 0, partial |-> FALSE]
NoInfo == [mm |-> NoMm, pages |-> {}, all |-> TRUE, gen |-> 0, freed |-> FALSE]
NoPromise == [m \in Mm |-> 0]
NoBatch == [mask |-> {}, gens |-> NoPromise, n |-> 0]

\* The CPU runs kernel code of the task, outside switch_mm and flush_tlb_func.
InTask(c) == sw[c].pc = "none" /\ h[c].pc = "none" /\ ~usermode[c]

MutIrqsOn(c) == InTask(c) /\ pc[c] \notin {"to_user", "to_kthread", "wait"}      \* mutant

\* Interrupts are enabled except in those two and around switch_to().
IrqsOn(c) == InTask(c) /\ pc[c] \notin {"to_user", "to_kthread"}

Init ==
    /\ mm_ctx_id = [m \in Mm |-> 0] /\ last_mm_ctx_id = 1
    /\ tlb_gen = [m \in Mm |-> 0]
    /\ mm_cpumask = [m \in Mm |-> {}]
    /\ pte = [m \in Mm |-> [p \in Page |-> 0]]
    /\ floor = [m \in Mm |-> [g \in Gen |-> [p \in Page |-> 0]]]
    /\ loaded_mm = [c \in Cpu |-> InitMm] /\ loaded_mm_asid = [c \in Cpu |-> 0]
    /\ next_asid = [c \in Cpu |-> 1] /\ invalidate_other = [c \in Cpu |-> FALSE]
    /\ ctx_id = [c \in Cpu |-> [a \in Asid |-> IF a = 0 THEN InitCtx ELSE 0]]
    /\ ctx_gen = [c \in Cpu |-> [a \in Asid |-> 0]]
    /\ user_pcid_flush_mask = [c \in Cpu |-> {}]
    /\ is_lazy = [c \in Cpu |-> FALSE]
    /\ cr3_mm = [c \in Cpu |-> InitMm] /\ cr3_asid = [c \in Cpu |-> 0]
    /\ usermode = [c \in Cpu |-> FALSE]
    /\ tlb = [c \in Cpu |-> [a \in Asid |-> {}]]
    /\ utlb = [c \in Cpu |-> [a \in Asid |-> {}]]
    /\ kstale = [c \in Cpu |-> {}]
    /\ curr_mm = [c \in Cpu |-> NoMm]
    /\ pc = [c \in Cpu |-> "run"]
    /\ sw = [c \in Cpu |-> NoSw] /\ h = [c \in Cpu |-> NoH(c)]
    /\ ipi = [c \in Cpu |-> {}]
    /\ info = [c \in Cpu |-> NoInfo]
    /\ todo = [c \in Cpu |-> {}] /\ runlocal = [c \in Cpu |-> FALSE]
    /\ batch = NoBatch
    /\ promise = [c \in Cpu |-> NoPromise]
    /\ done_gen = [m \in Mm |-> 0] /\ table_gen = [m \in Mm |-> 0]

----------------------------------------------------------------------------
(* The processor and the page tables.                                      *)

\* Every PCID of the CPU is flushed.
DropAll(c) ==
    /\ tlb' = [tlb EXCEPT ![c] = [a \in Asid |-> {}]]
    /\ utlb' = [utlb EXCEPT ![c] = [a \in Asid |-> {}]]
    /\ kstale' = [kstale EXCEPT ![c] = {}]

\* A walk (also a speculative one) caches the current translation of a page
\* that has none under the current PCID.
TlbFill(c, p) ==
    /\ cr3_mm[c] \in Mm
    /\ LET e == [ctx |-> mm_ctx_id[cr3_mm[c]], page |-> p, ver |-> pte[cr3_mm[c]][p]]
           a == cr3_asid[c]
       IN IF usermode[c]
          THEN /\ \A x \in utlb[c][a] : x.page # p
               /\ utlb' = [utlb EXCEPT ![c][a] = @ \cup {e}] /\ UNCHANGED tlb
          ELSE /\ \A x \in tlb[c][a] : x.page # p
               /\ tlb' = [tlb EXCEPT ![c][a] = @ \cup {e}] /\ UNCHANGED utlb
    /\ UNCHANGED <<mmVars, mm_cpumask, loadVars, slotVars, ctx_gen, is_lazy, cr3Vars,
                   usermode, kstale, user_pcid_flush_mask, curr_mm, pc, sw, h, ipi,
                   flushVars>>

\* The memory manager changes a page table entry; the flush comes later.
ChangePte(m, p) ==
    /\ mm_ctx_id[m] # 0 /\ pte[m][p] < MaxVersion
    /\ pte' = [pte EXCEPT ![m][p] = @ + 1]
    /\ UNCHANGED <<mm_ctx_id, last_mm_ctx_id, tlb_gen, floor, mm_cpumask, loadVars,
                   slotVars, ctx_gen, is_lazy, hwVars, curr_mm, pc, sw, h, ipi, flushVars>>

MutNewCtxId == 2                                \* mutant: ids are not unique

NewCtxId == last_mm_ctx_id + 1

\* init_new_context() for the mm_struct in slot m.
InitNewContext(m) ==
    /\ mm_ctx_id[m] = 0 /\ last_mm_ctx_id < MaxCtxId
    /\ last_mm_ctx_id' = last_mm_ctx_id + 1
    /\ mm_ctx_id' = [mm_ctx_id EXCEPT ![m] = NewCtxId]
    /\ tlb_gen' = [tlb_gen EXCEPT ![m] = 0]
    /\ mm_cpumask' = [mm_cpumask EXCEPT ![m] = {}]
    /\ UNCHANGED <<pte, floor, loadVars, slotVars, ctx_gen, is_lazy, hwVars, curr_mm, pc,
                   sw, h, ipi, flushVars>>

\* The last reference to the mm is dropped: no CPU has it loaded, is about to
\* load it or flushes it.  The page tables go with it.
FreeMm(m) ==
    /\ mm_ctx_id[m] # 0
    /\ \A c \in Cpu : /\ m \notin {loaded_mm[c], cr3_mm[c], curr_mm[c], info[c].mm}
                      /\ sw[c].next # m /\ promise[c][m] = 0
    /\ mm_ctx_id' = [mm_ctx_id EXCEPT ![m] = 0]
    /\ pte' = [pte EXCEPT ![m] = [p \in Page |-> 0]]
    /\ floor' = [floor EXCEPT ![m] = [g \in Gen |-> [p \in Page |-> 0]]]
    /\ done_gen' = [done_gen EXCEPT ![m] = 0]
    /\ table_gen' = [table_gen EXCEPT ![m] = 0]
    /\ batch' = [batch EXCEPT !.gens[m] = 0]
    /\ UNCHANGED <<last_mm_ctx_id, tlb_gen, mm_cpumask, loadVars, slotVars, ctx_gen,
                   is_lazy, hwVars, curr_mm, pc, sw, h, ipi, info, todo, runlocal, promise>>

----------------------------------------------------------------------------
(* switch_mm_irqs_off(), one step per word shared with other CPUs.         *)

\* Entry up to the first branch.  Switching to the mm already loaded returns
\* at once unless the CPU was lazy.
StartSwitch(c, next) ==
    /\ is_lazy' = [is_lazy EXCEPT ![c] = FALSE]
    /\ IF loaded_mm[c] = next
       THEN /\ mm_cpumask' = IF next = InitMm THEN mm_cpumask
                             ELSE [mm_cpumask EXCEPT ![next] = @ \cup {c}]
            /\ sw' = IF is_lazy[c] THEN [sw EXCEPT ![c].pc = "same", ![c].next = next]
                     ELSE sw
       ELSE /\ sw' = [sw EXCEPT ![c].pc = "clear", ![c].next = next]
            /\ UNCHANGED mm_cpumask

MutCaughtUp(c, g) == TRUE                       \* mutant: no comparison

\* Leaving lazy mode for the same mm: compare generations after the barrier.
CaughtUp(c, g) == ctx_gen[c][loaded_mm_asid[c]] = g

SwSame(c) ==
    /\ sw[c].pc = "same"
    /\ LET g == TlbGenOf(sw[c].next)
       IN sw' = [sw EXCEPT ![c] = IF CaughtUp(c, g) THEN NoSw
                  ELSE [@ EXCEPT !.pc = "cr3", !.asid = loaded_mm_asid[c], !.gen = g,
                                 !.flush = TRUE]]
    /\ UNCHANGED <<tlbVars, curr_mm, pc, h, ipi, flushVars>>

\* Stop remote flushes for the previous mm.
SwClear(c) ==
    /\ sw[c].pc = "clear"
    /\ mm_cpumask' = IF loaded_mm[c] = InitMm THEN mm_cpumask
                     ELSE [mm_cpumask EXCEPT ![loaded_mm[c]] = @ \ {c}]
    /\ sw' = [sw EXCEPT ![c].pc = "set"]
    /\ UNCHANGED <<mmVars, loadVars, slotVars, ctx_gen, is_lazy, hwVars, curr_mm, pc, h,
                   ipi, flushVars>>

\* Start remote flushes for the next mm.
SwSet(c) ==
    /\ sw[c].pc = "set"
    /\ mm_cpumask' = IF sw[c].next = InitMm THEN mm_cpumask
                     ELSE [mm_cpumask EXCEPT ![sw[c].next] = @ \cup {c}]
    /\ sw' = [sw EXCEPT ![c].pc = "read"]
    /\ UNCHANGED <<mmVars, loadVars, slotVars, ctx_gen, is_lazy, hwVars, curr_mm, pc, h,
                   ipi, flushVars>>

MutScannedCtxId(c) == ctx_id[c]         \* mutant: invalidate_other is ignored

\* ctxs[].ctx_id as choose_new_asid() scans it, after clear_asid_other().
ScannedCtxId(c) ==
    IF PCID /\ invalidate_other[c]
    THEN [a \in Asid |-> IF a = loaded_mm_asid[c] THEN ctx_id[c][a] ELSE 0]
    ELSE ctx_id[c]

Hits(c, id) == {a \in Asid : ScannedCtxId(c)[a] = id}

\* A slot found is reused as it is unless its mm has been flushed since.
SlotBehind(c, a, gen) == ctx_gen[c][a] < gen

MutNoWrap(c, id, gen) ==                \* mutant: the allocator never wraps
    [asid |-> next_asid[c], flush |-> TRUE, next |-> next_asid[c] + 1]

\* choose_new_asid(): the slot, whether it needs a flush, and next_asid after.
choose_new_asid(c, id, gen) ==
    CASE ~PCID -> [asid |-> 0, flush |-> TRUE, next |-> next_asid[c]]
      [] PCID /\ Hits(c, id) # {} ->
           LET a == CHOOSE x \in Hits(c, id) : \A y \in Hits(c, id) : x <= y
           IN [asid |-> a, flush |-> SlotBehind(c, a, gen), next |-> next_asid[c]]
      [] PCID /\ Hits(c, id) = {} /\ next_asid[c] < TLB_NR_DYN_ASIDS ->
           [asid |-> next_asid[c], flush |-> TRUE, next |-> next_asid[c] + 1]
      [] OTHER -> [asid |-> 0, flush |-> TRUE, next |-> 1]

MutLoadedDuringSwitch(c) == loaded_mm[c]        \* mutant: CR3 changes unannounced

\* What nmi_uaccess_okay() finds while CR3 is being changed.
LoadedDuringSwitch(c) == Switching

\* Read the generation of next, pick the slot, tell nmi_uaccess_okay().
SwRead(c) ==
    /\ sw[c].pc = "read"
    /\ LET g == TlbGenOf(sw[c].next)
           r == choose_new_asid(c, CtxIdOf(sw[c].next), g)
       IN /\ sw' = [sw EXCEPT ![c] = [@ EXCEPT !.pc = "cr3", !.asid = r.asid, !.gen = g,
                                               !.flush = r.flush]]
          /\ next_asid' = [next_asid EXCEPT ![c] = r.next]
    /\ ctx_id' = [ctx_id EXCEPT ![c] = ScannedCtxId(c)]
    /\ invalidate_other' = [invalidate_other EXCEPT ![c] = @ /\ ~PCID]
    /\ loaded_mm' = [loaded_mm EXCEPT ![c] = LoadedDuringSwitch(c)]
    /\ UNCHANGED <<mmVars, mm_cpumask, loaded_mm_asid, ctx_gen, is_lazy, hwVars, curr_mm,
                   pc, h, ipi, flushVars>>

MutCr3Flushes(c) == FALSE                       \* mutant: CR3_NOFLUSH always

\* build_cr3() or build_cr3_noflush().
Cr3Flushes(c) == sw[c].flush

\* The user PCID of a slot is to be flushed before it is used again.
invalidate_user_asid(c, a) ==
    user_pcid_flush_mask' = IF PTI /\ PCID
                            THEN [user_pcid_flush_mask EXCEPT ![c] = @ \cup {a}]
                            ELSE user_pcid_flush_mask

\* Write CR3.  Without PCID that drops everything; with it, a flushing write drops
\* the PCID it selects.
load_new_mm_cr3(c, a, need_flush) ==
    /\ IF need_flush THEN invalidate_user_asid(c, a) ELSE UNCHANGED user_pcid_flush_mask
    /\ cr3_mm' = [cr3_mm EXCEPT ![c] = sw[c].next]
    /\ cr3_asid' = [cr3_asid EXCEPT ![c] = a]
    /\ IF PCID
       THEN /\ tlb' = IF Cr3Flushes(c) THEN [tlb EXCEPT ![c][a] = {}] ELSE tlb
            /\ kstale' = IF Cr3Flushes(c) THEN [kstale EXCEPT ![c] = @ \ {<<a, "k">>}] ELSE kstale
            /\ UNCHANGED utlb
       ELSE DropAll(c)

\* Record what the slot will hold and load CR3.
SwCr3(c) ==
    /\ sw[c].pc = "cr3"
    /\ LET a == sw[c].asid
           f == sw[c].flush
       IN /\ ctx_id' = IF f THEN [ctx_id EXCEPT ![c][a] = CtxIdOf(sw[c].next)] ELSE ctx_id
          /\ ctx_gen' = IF f THEN [ctx_gen EXCEPT ![c][a] = sw[c].gen] ELSE ctx_gen
          /\ load_new_mm_cr3(c, a, f)
    /\ sw' = [sw EXCEPT ![c].pc = "done"]
    /\ UNCHANGED <<mmVars, mm_cpumask, loadVars, next_asid, invalidate_other, is_lazy,
                   usermode, curr_mm, pc, h, ipi, flushVars>>

SwDone(c) ==
    /\ sw[c].pc = "done"
    /\ loaded_mm' = [loaded_mm EXCEPT ![c] = sw[c].next]
    /\ loaded_mm_asid' = [loaded_mm_asid EXCEPT ![c] = sw[c].asid]
    /\ sw' = [sw EXCEPT ![c] = NoSw]
    /\ UNCHANGED <<mmVars, mm_cpumask, slotVars, ctx_gen, is_lazy, hwVars, curr_mm, pc, h,
                   ipi, flushVars>>

----------------------------------------------------------------------------
(* The scheduler, idle, hotplug and the kernel exit, as they call tlb.c.   *)

\* context_switch() to a task of m, then switch_to().
SwitchToUser(c, m) ==
    /\ InTask(c) /\ pc[c] = "run" /\ c \in Switcher /\ mm_ctx_id[m] # 0
    /\ StartSwitch(c, m)
    /\ pc' = [pc EXCEPT ![c] = "to_user"]
    /\ UNCHANGED <<mmVars, loadVars, slotVars, ctx_gen, hwVars, curr_mm, h, ipi, flushVars>>

MutCanBeLazy(c) == TRUE                         \* mutant: init_mm held lazily

CanBeLazy(c) == loaded_mm[c] # InitMm

\* context_switch() to a kernel thread: enter_lazy_tlb(), then switch_to().
enter_lazy_tlb(c) ==
    /\ InTask(c) /\ pc[c] = "run"
    /\ is_lazy' = [is_lazy EXCEPT ![c] = @ \/ CanBeLazy(c)]
    /\ pc' = [pc EXCEPT ![c] = "to_kthread"]
    /\ UNCHANGED <<mmVars, mm_cpumask, loadVars, slotVars, ctx_gen, hwVars, curr_mm, sw, h,
                   ipi, flushVars>>

SwitchTo(c) ==
    /\ InTask(c) /\ pc[c] \in {"to_user", "to_kthread"}
    /\ curr_mm' = [curr_mm EXCEPT ![c] = IF pc[c] = "to_user" THEN loaded_mm[c] ELSE NoMm]
    /\ pc' = [pc EXCEPT ![c] = "run"]
    /\ UNCHANGED <<tlbVars, sw, h, ipi, flushVars>>

\* An idle CPU drops the mm it holds lazily.
leave_mm(c) ==
    /\ InTask(c) /\ pc[c] = "run" /\ curr_mm[c] = NoMm /\ loaded_mm[c] # InitMm
    /\ StartSwitch(c, InitMm)
    /\ UNCHANGED <<mmVars, loadVars, slotVars, ctx_gen, hwVars, curr_mm, pc, h, ipi,
                   flushVars>>

\* A CPU comes back from hotplug or suspend on init_mm.
initialize_tlbstate_and_flush(c) ==
    /\ InTask(c) /\ pc[c] = "run" /\ curr_mm[c] = NoMm /\ loaded_mm[c] = InitMm
    /\ loaded_mm_asid' = [loaded_mm_asid EXCEPT ![c] = 0]
    /\ next_asid' = [next_asid EXCEPT ![c] = 1]
    /\ ctx_id' = [ctx_id EXCEPT ![c] = [a \in Asid |-> IF a = 0 THEN InitCtx ELSE 0]]
    /\ ctx_gen' = [ctx_gen EXCEPT ![c][0] = 0]
    /\ cr3_asid' = [cr3_asid EXCEPT ![c] = 0]
    /\ IF PCID
       THEN /\ tlb' = [tlb EXCEPT ![c][0] = {}]
            /\ kstale' = [kstale EXCEPT ![c] = @ \ {<<0, "k">>}]
            /\ UNCHANGED utlb
       ELSE DropAll(c)
    /\ UNCHANGED <<mmVars, mm_cpumask, loaded_mm, invalidate_other, is_lazy, cr3_mm,
                   usermode, user_pcid_flush_mask, curr_mm, pc, sw, h, ipi, flushVars>>

UserFlushDue(c) == cr3_asid[c] \in user_pcid_flush_mask[c]

\* SWITCH_TO_USER_CR3 on the way to user space.
SwitchToUserCr3(c) ==
    /\ PTI /\ InTask(c) /\ pc[c] = "run" /\ curr_mm[c] # NoMm
    /\ usermode' = [usermode EXCEPT ![c] = TRUE]
    /\ LET a == cr3_asid[c]
       IN IF PCID
          THEN /\ user_pcid_flush_mask' = [user_pcid_flush_mask EXCEPT ![c] = @ \ {a}]
               /\ utlb' = IF UserFlushDue(c)
                          THEN [utlb EXCEPT ![c][a] = {}] ELSE utlb
               /\ kstale' = IF UserFlushDue(c)
                            THEN [kstale EXCEPT ![c] = @ \ {<<a, "u">>}] ELSE kstale
               /\ UNCHANGED tlb
          ELSE DropAll(c) /\ UNCHANGED user_pcid_flush_mask
    /\ UNCHANGED <<mmVars, mm_cpumask, loadVars, slotVars, ctx_gen, is_lazy, cr3Vars,
                   curr_mm, pc, sw, h, ipi, flushVars>>

\* SWITCH_TO_KERNEL_CR3 on a system call, exception or interrupt.
SwitchToKernelCr3(c) ==
    /\ usermode[c]
    /\ usermode' = [usermode EXCEPT ![c] = FALSE]
    /\ IF PCID THEN UNCHANGED <<tlb, utlb, kstale>> ELSE DropAll(c)
    /\ UNCHANGED <<mmVars, mm_cpumask, loadVars, slotVars, ctx_gen, is_lazy, cr3Vars,
                   user_pcid_flush_mask, curr_mm, pc, sw, h, ipi, flushVars>>

----------------------------------------------------------------------------
(* Flush requests: flush_tlb_func() on the CPU that executes one.          *)

MutPartialFlush(f, local_gen, mm_gen) == ~f.all /\ f.gen = mm_gen     \* mutant

\* The request asks for the pages that, alone, bring the slot up to date.
PartialFlush(f, local_gen, mm_gen) ==
    ~f.all /\ f.gen = local_gen + 1 /\ f.gen = mm_gen

MutCurrent(f, local_gen, mm_gen) == f.gen <= local_gen \/ local_gen = mm_gen  \* mutant

\* Nothing is left to do for the request, or for the mm.
Current(f, local_gen, mm_gen) ==
    (f.gen # TLB_GENERATION_INVALID /\ f.gen <= local_gen) \/ local_gen = mm_gen

\* Run the request of initiator i on CPU c, up to the read of tlb_gen.
flush_tlb_func(c, i) ==
    LET f    == info[i]
        mm   == loaded_mm[c]
        lg   == ctx_gen[c][loaded_mm_asid[c]]
        skip == (c # i /\ f.mm # NoMm /\ f.mm # mm) \/ mm = InitMm
        current == Current(f, lg, TlbGenOf(mm))
    IN  \/ /\ skip \/ (~is_lazy[c] /\ current)
           /\ ipi' = [ipi EXCEPT ![c] = @ \ {i}]
           /\ UNCHANGED <<h, sw, is_lazy, mm_cpumask>>
        \/ /\ ~skip /\ is_lazy[c]
           /\ StartSwitch(c, InitMm)
           /\ h' = [h EXCEPT ![c].pc = "lazy", ![c].req = i]
           /\ UNCHANGED ipi
        \/ /\ ~skip /\ ~is_lazy[c] /\ ~current
           /\ h' = [h EXCEPT ![c] = [pc |-> "inv", req |-> i, gen |-> tlb_gen[mm],
                                  partial |-> PartialFlush(f, lg, tlb_gen[mm])]]
           /\ UNCHANGED <<ipi, sw, is_lazy, mm_cpumask>>

\* The lazy CPU has switched to init_mm.
FuncLazyDone(c) ==
    /\ h[c].pc = "lazy" /\ sw[c].pc = "none"
    /\ ipi' = [ipi EXCEPT ![c] = @ \ {h[c].req}]
    /\ h' = [h EXCEPT ![c] = NoH(c)]
    /\ UNCHANGED <<tlbVars, curr_mm, pc, sw, flushVars>>

MutUserByMask(partial) == ~partial              \* mutant: only full flushes

\* The user PCID is flushed by invalidate_user_asid() rather than INVPCID.
UserByMask(partial) == ~partial \/ ~INVPCID

\* flush_tlb_one_user() for every page of the range, or flush_tlb_local().
FuncInvalidate(c) ==
    /\ h[c].pc = "inv"
    /\ LET a == loaded_mm_asid[c]
           Kept(es) == {e \in es : e.page \notin info[h[c].req].pages}
       IN /\ IF UserByMask(h[c].partial) THEN invalidate_user_asid(c, a)
             ELSE UNCHANGED user_pcid_flush_mask
          /\ IF h[c].partial
             THEN /\ tlb' = [tlb EXCEPT ![c][a] = Kept(@)]
                  /\ utlb' = IF PTI /\ PCID /\ INVPCID
                             THEN [utlb EXCEPT ![c][a] = Kept(@)] ELSE utlb
                  /\ UNCHANGED kstale
             ELSE IF PCID
             THEN /\ tlb' = [tlb EXCEPT ![c][a] = {}]
                  /\ kstale' = [kstale EXCEPT ![c] = @ \ {<<a, "k">>}]
                  /\ UNCHANGED utlb
             ELSE DropAll(c)
    /\ h' = [h EXCEPT ![c].pc = "gen"]
    /\ UNCHANGED <<mmVars, mm_cpumask, loadVars, slotVars, ctx_gen, is_lazy, cr3Vars,
                   usermode, curr_mm, pc, sw, ipi, flushVars>>

MutCaughtUpTo(c) == info[h[c].req].gen          \* mutant: the generation asked for

CaughtUpTo(c) == h[c].gen

\* Both kinds of flush bring the slot to the generation read before them.
FuncSetGen(c) ==
    /\ h[c].pc = "gen"
    /\ ctx_gen' = [ctx_gen EXCEPT ![c][loaded_mm_asid[c]] = CaughtUpTo(c)]
    /\ ipi' = [ipi EXCEPT ![c] = @ \ {h[c].req}]
    /\ h' = [h EXCEPT ![c] = NoH(c)]
    /\ UNCHANGED <<mmVars, mm_cpumask, loadVars, slotVars, is_lazy, hwVars, curr_mm, pc,
                   sw, flushVars>>

\* The call-function interrupt arrives.
HandleIpi(c, i) ==
    /\ IrqsOn(c) /\ i \in ipi[c]
    /\ flush_tlb_func(c, i)
    /\ UNCHANGED <<mmVars, loadVars, slotVars, ctx_gen, hwVars, curr_mm, pc, flushVars>>

----------------------------------------------------------------------------
(* Flush requests: the initiator.                                          *)

\* inc_mm_tlb_gen() by a flush of the pages R; every change made to them so
\* far must be out of a TLB that reaches the new generation.
IncTlbGen(m, R) ==
    /\ mm_ctx_id[m] # 0 /\ tlb_gen[m] < MaxGen
    /\ tlb_gen' = [tlb_gen EXCEPT ![m] = @ + 1]
    /\ floor' = [floor EXCEPT ![m][tlb_gen[m] + 1] =
                   [p \in Page |-> IF p \in R THEN pte[m][p] ELSE floor[m][tlb_gen[m]][p]]]
    /\ UNCHANGED <<mm_ctx_id, last_mm_ctx_id, pte>>

flush_tlb_mm_range(c, m, R, freed) ==
    /\ InTask(c) /\ pc[c] = "run" /\ c \in Flusher
    /\ IncTlbGen(m, R)
    /\ info' = [info EXCEPT ![c] =
                  [mm |-> m, pages |-> R, gen |-> tlb_gen[m] + 1, freed |-> freed,
                   all |-> Cardinality(R) > tlb_single_page_flush_ceiling]]
    /\ promise' = [promise EXCEPT ![c][m] = tlb_gen[m] + 1]
    /\ pc' = [pc EXCEPT ![c] = "any"]
    /\ UNCHANGED <<mm_cpumask, loadVars, slotVars, ctx_gen, is_lazy, hwVars, curr_mm, sw, h,
                   ipi, todo, runlocal, batch, done_gen, table_gen>>

\* The reclaiming task, which may migrate between two calls, is in neither.
BatchIdle == \A c \in Cpu : pc[c] # "or" /\ (pc[c] \in {"any", "copy", "send", "wait"} =>
                                               info[c].mm # NoMm)

arch_tlbbatch_add_pending(c, m, p) ==
    /\ InTask(c) /\ pc[c] = "run" /\ c \in Flusher /\ BatchIdle /\ batch.n < MaxBatch
    /\ IncTlbGen(m, {p})
    /\ info' = [info EXCEPT ![c] = [NoInfo EXCEPT !.mm = m]]
    /\ batch' = [batch EXCEPT !.gens[m] = tlb_gen[m] + 1, !.n = @ + 1]
    /\ pc' = [pc EXCEPT ![c] = "or"]
    /\ UNCHANGED <<mm_cpumask, loadVars, slotVars, ctx_gen, is_lazy, hwVars, curr_mm, sw, h,
                   ipi, todo, runlocal, promise, done_gen, table_gen>>

\* The cpumask_or() of arch_tlbbatch_add_pending().
BatchOr(c) ==
    /\ InTask(c) /\ pc[c] = "or"
    /\ batch' = [batch EXCEPT !.mask = @ \cup mm_cpumask[info[c].mm]]
    /\ info' = [info EXCEPT ![c] = NoInfo]
    /\ pc' = [pc EXCEPT ![c] = "run"]
    /\ UNCHANGED <<tlbVars, curr_mm, sw, h, ipi, todo, runlocal, promise, done_gen, table_gen>>

arch_tlbbatch_flush(c) ==
    /\ InTask(c) /\ pc[c] = "run" /\ c \in Flusher /\ BatchIdle /\ batch.n > 0
    /\ promise' = [promise EXCEPT ![c] = batch.gens]
    /\ pc' = [pc EXCEPT ![c] = "any"]
    /\ UNCHANGED <<tlbVars, curr_mm, sw, h, ipi, info, todo, runlocal, batch, done_gen,
                   table_gen>>

FlushMask(c) == IF info[c].mm = NoMm THEN batch.mask ELSE mm_cpumask[info[c].mm]

\* No other CPU in the mask: flush here, if this CPU uses the mm at all.
FlushHere(c) ==
    /\ InTask(c) /\ pc[c] = "any" /\ FlushMask(c) \ {c} = {}
    /\ IF loaded_mm[c] = info[c].mm \/ (info[c].mm = NoMm /\ c \in batch.mask)
       THEN flush_tlb_func(c, c)
       ELSE UNCHANGED <<h, sw, is_lazy, mm_cpumask, ipi>>
    /\ pc' = [pc EXCEPT ![c] = "wait"]
    /\ UNCHANGED <<mmVars, loadVars, slotVars, ctx_gen, hwVars, curr_mm, flushVars>>

\* native_flush_tlb_multi(): on_each_cpu_cond_mask() copies the mask,
FlushMulti(c) ==
    /\ InTask(c) /\ pc[c] = "any" /\ FlushMask(c) \ {c} # {}
    /\ pc' = [pc EXCEPT ![c] = "copy"]
    /\ UNCHANGED <<tlbVars, curr_mm, sw, h, ipi, flushVars>>

FlushCopy(c) ==
    /\ InTask(c) /\ pc[c] = "copy"
    /\ todo' = [todo EXCEPT ![c] = FlushMask(c) \ {c}]
    /\ runlocal' = [runlocal EXCEPT ![c] = c \in FlushMask(c)]
    /\ pc' = [pc EXCEPT ![c] = "send"]
    /\ UNCHANGED <<tlbVars, curr_mm, sw, h, ipi, info, batch, promise, done_gen, table_gen>>

MutWantsIpi(c, d) == ~is_lazy[d]                \* mutant: freed_tables is ignored

\* sends an IPI to every CPU of it that is not lazy, or to all,
WantsIpi(c, d) == info[c].freed \/ ~is_lazy[d]

FlushSend(c, d) ==
    /\ InTask(c) /\ pc[c] = "send" /\ d \in todo[c]
    /\ todo' = [todo EXCEPT ![c] = @ \ {d}]
    /\ ipi' = IF WantsIpi(c, d) THEN [ipi EXCEPT ![d] = @ \cup {c}] ELSE ipi
    /\ UNCHANGED <<tlbVars, curr_mm, pc, sw, h, info, runlocal, batch, promise, done_gen,
                   table_gen>>

\* runs the function here on the same condition,
FlushLocal(c) ==
    /\ InTask(c) /\ pc[c] = "send" /\ todo[c] = {}
    /\ IF runlocal[c] /\ WantsIpi(c, c)
       THEN flush_tlb_func(c, c)
       ELSE UNCHANGED <<h, sw, is_lazy, mm_cpumask, ipi>>
    /\ pc' = [pc EXCEPT ![c] = "wait"]
    /\ runlocal' = [runlocal EXCEPT ![c] = FALSE]
    /\ UNCHANGED <<mmVars, loadVars, slotVars, ctx_gen, hwVars, curr_mm, info, todo, batch,
                   promise, done_gen, table_gen>>

\* and waits until all are done.  The flush returns to its caller.
FlushReturn(c) ==
    /\ InTask(c) /\ pc[c] = "wait" /\ \A d \in Cpu : c \notin ipi[d]
    /\ done_gen' = [m \in Mm |-> IF promise[c][m] > done_gen[m] THEN promise[c][m]
                                 ELSE done_gen[m]]
    /\ table_gen' = [m \in Mm |-> IF info[c].freed /\ promise[c][m] > table_gen[m]
                                  THEN promise[c][m] ELSE table_gen[m]]
    /\ batch' = IF info[c].mm = NoMm THEN NoBatch ELSE batch
    /\ info' = [info EXCEPT ![c] = NoInfo]
    /\ promise' = [promise EXCEPT ![c] = NoPromise]
    /\ pc' = [pc EXCEPT ![c] = "run"]
    /\ UNCHANGED <<tlbVars, curr_mm, sw, h, ipi, todo, runlocal>>

----------------------------------------------------------------------------
(* Kernel translations.                                                    *)

\* do_kernel_range_flush() on one CPU.  Under PTI only the current pair of
\* PCIDs is flushed; the others may still hold the removed translation.
do_kernel_range_flush(c) ==
    /\ IrqsOn(c) /\ PTI /\ c \in KernelFlushed
    /\ invalidate_other' = [invalidate_other EXCEPT ![c] = TRUE]
    /\ LET a == loaded_mm_asid[c]
           gone == {<<a, "k">>} \cup (IF INVPCID THEN {<<a, "u">>} ELSE {})
       IN /\ kstale' = [kstale EXCEPT ![c] =
                          IF PCID THEN (Asid \X {"k", "u"}) \ gone ELSE {}]
          /\ IF INVPCID THEN UNCHANGED user_pcid_flush_mask ELSE invalidate_user_asid(c, a)
    /\ UNCHANGED <<mmVars, mm_cpumask, loadVars, next_asid, ctx_id, ctx_gen, is_lazy,
                   cr3Vars, usermode, tlb, utlb, curr_mm, pc, sw, h, ipi, flushVars>>

do_flush_tlb_all(c) ==
    /\ IrqsOn(c)
    /\ DropAll(c)
    /\ UNCHANGED <<mmVars, mm_cpumask, loadVars, slotVars, ctx_gen, is_lazy, cr3Vars,
                   usermode, user_pcid_flush_mask, curr_mm, pc, sw, h, ipi, flushVars>>

----------------------------------------------------------------------------

\* What a CPU has begun it goes on with: interrupts are taken, interrupt
\* handlers and switches run to their end, a flush proceeds.
Progress(c) ==
    \/ SwSame(c) \/ SwClear(c) \/ SwSet(c) \/ SwRead(c) \/ SwCr3(c) \/ SwDone(c)
    \/ FuncLazyDone(c) \/ FuncInvalidate(c) \/ FuncSetGen(c)
    \/ (\E i \in Cpu : HandleIpi(c, i))
    \/ SwitchTo(c) \/ BatchOr(c)
    \/ FlushHere(c) \/ FlushMulti(c) \/ FlushCopy(c) \/ (\E d \in Cpu : FlushSend(c, d))
    \/ FlushLocal(c) \/ FlushReturn(c)
    \/ (ipi[c] # {} /\ SwitchToKernelCr3(c))

\* What it may begin.
Begin(c) ==
    \/ \E m \in Mm : SwitchToUser(c, m)
    \/ enter_lazy_tlb(c) \/ leave_mm(c) \/ initialize_tlbstate_and_flush(c)
    \/ SwitchToUserCr3(c) \/ SwitchToKernelCr3(c)
    \/ \E m \in Mm, R \in SUBSET Page \ {{}}, freed \in FreedTables :
          flush_tlb_mm_range(c, m, R, freed)
    \/ \E m \in Mm, p \in Page : arch_tlbbatch_add_pending(c, m, p)
    \/ arch_tlbbatch_flush(c)
    \/ do_kernel_range_flush(c) \/ do_flush_tlb_all(c)

Next ==
    \/ \E c \in Cpu : Progress(c) \/ Begin(c)
    \/ \E c \in Cpu, p \in Page : TlbFill(c, p)
    \/ \E m \in Mm, p \in Page : ChangePte(m, p)
    \/ \E m \in Mm : InitNewContext(m) \/ FreeMm(m)

Spec == Init /\ [][Next]_vars

\* A pending interrupt is taken as soon as interrupts are enabled, however
\* short the window: strong fairness.
FairSpec ==
    /\ Spec
    /\ \A c \in Cpu : WF_vars(Progress(c)) /\ \A i \in Cpu : SF_vars(HandleIpi(c, i))

----------------------------------------------------------------------------
(* Properties.                                                             *)

TaskPc == {"run", "to_user", "to_kthread", "or", "any", "copy", "send", "wait"}
SwFrame == [pc : {"none", "same", "clear", "set", "read", "cr3", "done"},
            next : Mm \cup {InitMm}, asid : Asid, gen : Gen, flush : BOOLEAN]
FuncFrame == [pc : {"none", "lazy", "inv", "gen"}, req : Cpu, gen : Gen, partial : BOOLEAN]
Info == [mm : Mm \cup {NoMm}, pages : SUBSET Page, all : BOOLEAN, gen : Gen, freed : BOOLEAN]

MmTypes ==
    /\ mm_ctx_id \in [Mm -> CtxId] /\ last_mm_ctx_id \in Nat
    /\ tlb_gen \in [Mm -> Gen] /\ mm_cpumask \in [Mm -> SUBSET Cpu]
    /\ pte \in [Mm -> [Page -> Version]]
    /\ floor \in [Mm -> [Gen -> [Page -> Version]]]

SlotTypes ==
    /\ loaded_mm \in [Cpu -> Mm \cup {InitMm, Switching}]
    /\ loaded_mm_asid \in [Cpu -> Asid]
    /\ next_asid \in [Cpu -> 1 .. TLB_NR_DYN_ASIDS]
    /\ invalidate_other \in [Cpu -> BOOLEAN]
    /\ ctx_id \in [Cpu -> [Asid -> Nat]] /\ ctx_gen \in [Cpu -> [Asid -> Gen]]

HwTypes ==
    /\ user_pcid_flush_mask \in [Cpu -> SUBSET Asid]
    /\ usermode \in [Cpu -> BOOLEAN]
    /\ cr3_mm \in [Cpu -> Mm \cup {InitMm}] /\ cr3_asid \in [Cpu -> Asid]
    /\ tlb \in [Cpu -> [Asid -> SUBSET Entry]] /\ utlb \in [Cpu -> [Asid -> SUBSET Entry]]
    /\ kstale \in [Cpu -> SUBSET (Asid \X {"k", "u"})]

TaskTypes ==
    /\ is_lazy \in [Cpu -> BOOLEAN]
    /\ curr_mm \in [Cpu -> Mm \cup {InitMm, NoMm, Switching}]
    /\ pc \in [Cpu -> TaskPc] /\ sw \in [Cpu -> SwFrame] /\ h \in [Cpu -> FuncFrame]
    /\ ipi \in [Cpu -> SUBSET Cpu]

FlushTypes ==
    /\ info \in [Cpu -> Info]
    /\ todo \in [Cpu -> SUBSET Cpu] /\ runlocal \in [Cpu -> BOOLEAN]
    /\ batch \in [mask : SUBSET Cpu, gens : [Mm -> Gen], n : Nat]
    /\ promise \in [Cpu -> [Mm -> Gen]]
    /\ done_gen \in [Mm -> Gen] /\ table_gen \in [Mm -> Gen]

\* Every variable has its type; the frames hold values their code can produce.
TypeOK == MmTypes /\ SlotTypes /\ HwTypes /\ TaskTypes /\ FlushTypes

\* The translations the CPU would use now.
Usable(c) == IF usermode[c] THEN utlb[c][cr3_asid[c]] ELSE tlb[c][cr3_asid[c]]

\* The invariant stated at struct tlb_context: a slot never holds entries that
\* were out of date when its mm reached the generation recorded for the slot.
\* A user PCID may, as long as it is marked for a flush before its next use.
SlotInvariant ==
    \A c \in Cpu, a \in Asid, m \in Mm :
        mm_ctx_id[m] # 0 /\ ctx_id[c][a] = mm_ctx_id[m] =>
          \A e \in tlb[c][a] \cup (IF a \in user_pcid_flush_mask[c] THEN {} ELSE utlb[c][a]) :
             e.ctx = mm_ctx_id[m] /\ e.ver >= floor[m][ctx_gen[c][a]][e.page]

\* Once flush_tlb_mm_range() or arch_tlbbatch_flush() has returned, no CPU that
\* runs in the mm can use a translation older than the flush; a CPU skipped
\* because it was lazy has caught up before it stops being lazy.
NoStaleUse ==
    \A c \in Cpu : sw[c].pc = "none" /\ ~is_lazy[c] /\ cr3_mm[c] \in Mm =>
        \A e \in Usable(c) : e.ver >= floor[cr3_mm[c]][done_gen[cr3_mm[c]]][e.page]

\* No CPU ever uses a translation of an address space other than the one CR3
\* points to, although ASIDs and mm_structs are recycled.
NoForeignUse ==
    \A c \in Cpu : cr3_mm[c] \in Mm => \A e \in Usable(c) : e.ctx = mm_ctx_id[cr3_mm[c]]

\* Once a flush that freed page tables has returned, no CPU has the mm in CR3 with
\* anything cached from before, not even a lazy one.  The exception is the window
\* of switch_mm_irqs_off() after the CPU left mm_cpumask(real_prev) and before its
\* write to CR3.
NoFreedTableUse ==
    \A c \in Cpu : sw[c].pc \notin {"set", "read", "cr3"} /\ cr3_mm[c] \in Mm =>
        \A e \in Usable(c) : e.ver >= floor[cr3_mm[c]][table_gen[cr3_mm[c]]][e.page]

\* A kernel translation removed by flush_tlb_kernel_range() is not usable under
\* the current PCID, whatever ASIDs have been switched to since.
NoStaleKernelUse ==
    \A c \in Cpu : <<cr3_asid[c], IF usermode[c] THEN "u" ELSE "k">> \notin kstale[c]

\* The three states listed at tlb_state_shared.is_lazy, whenever interrupts are
\* on, and CR3 agrees with loaded_mm.
ThreeStates ==
    \A c \in Cpu : IrqsOn(c) =>
        /\ \A m \in Mm : c \in mm_cpumask[m] <=> loaded_mm[c] = m
        /\ loaded_mm[c] \in Mm \/ (loaded_mm[c] = InitMm /\ ~is_lazy[c])
        /\ cr3_mm[c] = loaded_mm[c] /\ cr3_asid[c] = loaded_mm_asid[c]

\* An NMI at any point that finds nmi_uaccess_okay() runs on the page tables of
\* current->mm.
NmiUaccessOkay ==
    \A c \in Cpu : curr_mm[c] \in Mm /\ loaded_mm[c] = curr_mm[c] => cr3_mm[c] = curr_mm[c]

\* The assertions of flush_tlb_func() and switch_mm_irqs_off(): a slot is never
\* ahead of its mm, a request never ahead of tlb_gen, the loaded slot belongs to
\* the loaded mm.
CodeAssertions ==
    /\ \A c \in Cpu, a \in Asid, m \in Mm :
          mm_ctx_id[m] # 0 /\ ctx_id[c][a] = mm_ctx_id[m] => ctx_gen[c][a] <= tlb_gen[m]
    /\ \A c \in Cpu : info[c].mm \in Mm => info[c].gen <= tlb_gen[info[c].mm]
    /\ \A c \in Cpu : sw[c].pc = "none" =>
          ctx_id[c][loaded_mm_asid[c]] = CtxIdOf(loaded_mm[c])

\* A slot never goes back to an older generation of the same mm.
GenerationsAdvance ==
    [][\A c \in Cpu, a \in Asid :
          ctx_id'[c][a] = ctx_id[c][a] => ctx_gen'[c][a] >= ctx_gen[c][a]]_vars

\* Every flush returns, also when CPUs flush each other at the same time.
FlushReturns ==
    \A c \in Cpu : pc[c] \in {"any", "copy", "send", "wait"} ~> pc[c] = "run"

============================================================================
