# TLA+ models of the x86 core of linux-6.6-strip

The repository is a stripped Linux 6.6 tree. Nearly all of the C code that is
left lies under `arch/x86`; most of the generic kernel (scheduler, memory
manager, RCU, timers, `kernel/cpu.c`, `virt/kvm`) is absent. This project models
the parts of `arch/x86` in which several CPUs, or a CPU and its interrupts,
change shared state without a lock around all of it.

## Inventory

| Part | State | Operations | What is hard about it |
|---|---|---|---|
| TLB coherence (`mm/tlb.c`, `asm/tlbflush.h`, `entry/calling.h`) | per mm: `ctx_id`, `tlb_gen`, `mm_cpumask`; per CPU: `loaded_mm`, ASID slots, `is_lazy`, `invalidate_other`, `user_pcid_flush_mask` | `switch_mm_irqs_off`, `enter_lazy_tlb`, `leave_mm`, `flush_tlb_mm_range`, `flush_tlb_func`, batching, kernel range flushes, PTI entry and exit | flushes race switches and lazy mode; IPIs arrive out of generation order; slots are reused on the strength of a recorded generation |
| Text patching (`kernel/alternative.c`) | text, `tp_vec`, `bp_desc` | `text_poke_queue`, `_finish`, `_bp`, `text_poke_bp_batch`, `poke_int3_handler` | CPUs execute the bytes while they change; the vector is reused |
| NMIs (`kernel/nmi.c`) | `nmi_state`, `nmi_cr2`, `nmi_dr7`, `swallow_nmi`, `last_nmi_rip`, handler lists, reason lock | `exc_nmi`, `default_do_nmi`, `nmi_handle`, register, unregister, stop, restart | nesting after a fault, one latch for many NMIs, unregistration under a walk |
| Asynchronous page faults (`kernel/kvm.c` in the guest, `kvm/x86.c` and `kvm/mmu/mmu.c` in the host) | `apf_reason` in the shared page, `async_pf_sleepers`; host: `gfns`, done list, requests, `pageready_pending` | `__kvm_handle_async_pf`, the page-ready interrupt, `kvm_async_pf_task_wait_schedule`, `_wake`, CPU up and down; not-present and present events, MSR writes | two kernels and a worker meet in one page; a wake-up may overtake its fault; one slot for all tokens; CPUs go down with a token in flight |
| Machine checks (`kernel/cpu/mce/core.c`) | `mce_callin`, `mce_executing`, `global_nwo`, `mces_seen`, the banks, `mce_count` | `do_machine_check`, `mce_start`, `__mc_scan_banks`, `mce_end`, `mce_reign`, `queue_task_work` | all CPUs wait for all others, with timeouts; shared banks; a CPU may hang or be hotplugged |
| pvclock, TSC sync, vectors, microcode, FPU, LDT, SGX, resctrl, the rest of the KVM host | see `PROJECT.json` | | not modelled, see the plan |
| Boot, emulator, BPF JIT, build tools, Xen, Hyper-V | | | sequential, data-heavy, or dependent on absent code |

The parts interact little: text patching and TLB flushing both send
call-function IPIs, and an NMI may interrupt a switch, which is why
`nmi_uaccess_okay()` exists (property `NmiUaccessOkay`). Host and guest of
asynchronous page faults do interact, and are composed in `AsyncPf`.

## Modules

### Tlb

A page table entry is a version number. Hardware may cache the current version
under the current PCID at any time (`TlbFill`), which covers speculative walks.
`pte` counts changes; the ghost `floor[m][g]` is the oldest version a TLB that has
reached generation `g` may hold. `switch_mm_irqs_off()` is split where it touches
state other CPUs write: `StartSwitch`, `SwSame`, `SwClear` (leave the old mask),
`SwSet` (enter the new one), `SwRead` (read `tlb_gen`, choose a slot), `SwCr3`,
`SwDone`. `flush_tlb_func()` is `flush_tlb_func`, `FuncLazyDone`,
`FuncInvalidate`, `FuncSetGen`. A flush request goes through `flush_tlb_mm_range`,
`FlushMulti` or `FlushHere`, `FlushCopy`, `FlushSend`, `FlushLocal`,
`FlushReturn`. `NewCtxId`, `Hits`, `SlotBehind`, `PartialFlush`, `Current` and the
like name the single conditions of the code. External: hardware walks, the
memory manager, mm allocation, the scheduler, and the delivery of IPIs.

Left out: `cond_mitigation()` and L1D flushes, CR4.PCE, LAM, the LDT switch, the
debugfs file, the paranoid entry.

### TextPoke

An instruction is a head byte and a tail. Each CPU fetches from its own `view`,
which follows memory byte by byte at any time (`Snoop`) and is made current by
`do_sync_core`. The three steps of `text_poke_bp_batch()` write one entry per
action. The handler is `Trap`, `try_get_desc`, `SearchVec` (with the binary
search of `include/linux/bsearch.h`), `put_desc`. Callers are the environment;
they queue an address at most once per batch, because `tp_order_fail()` compares
with `>` and would accept it twice.

`AtomicText` says what this is for: a site holds one instruction per CPU, a
request names a new one, and each CPU goes over at some moment between the request
and the return. `ImplementsAtomicText` is the refinement: what a CPU executes at a
site (`Executes`) is what it fetches, or, at an INT3, what the handler would
emulate; a site is open from its request until the batch it is in returns. That all
CPUs end up with what was requested, and fetch no mixture, is part of it.

### Nmi

`stack` holds the invocations of `exc_nmi()` on a CPU. Delivery masks NMIs, any
IRET unmasks them, one NMI is latched. A device event raises its NMI at once and
the handler reports how many events it found. Left out: the stall check,
duration warnings, panic options, statistics. The ghost `dropped` records CPUs
that returned from an NMI without looking for events, because they are offline or
between `stop_nmi()` and `restart_nmi()`.

### AsyncPfShared, AsyncPfHost, AsyncPfGuest, AsyncPf

`AsyncPfShared` declares what both sides see: the shared page, the exception and
the interrupt the host injects, and what each vCPU thread executes (`mode`).
`AsyncPfHost` has the steps of the vCPU thread (`kvm_faultin_pfn`,
`vcpu_enter_guest`, `vcpu_block`, `kvm_check_async_pf_completion`) and of the
workers (`async_pf_execute`, `kvm_arch_async_page_present_queued`), and the open
hash table of frames with its deletion (`kvm_del_async_pf_gfn`). `AsyncPfGuest` has
the tasks, the nodes they sleep on, and the interrupt and hotplug code. `AsyncPf`
puts them together; its own actions are the ones in which both take part: a fault
(`Fault`) and MSR writes (`AckStep`, `DisableStep`, `CpuOnline`).

A task gets the event by the #PF exception, with interrupts off until it sleeps,
or, if it runs a nested guest (`NestedTask`), by a VM exit, after which it may be
preempted and overtaken by the wake-up. `virt/kvm/async_pf.c` is not in the
repository; the work items are modelled from how `arch/x86` uses them.

### Mce

One action per step between two accesses to state that CPUs share: `AddNwo`,
`CallIn`, `StartScanning` or `TakeTurn`, `__mc_scan_banks`, `mce_clear_state`,
`mce_end`, `mce_reign`, `Reset`, `Release`, `LeaveHandler`. An event is its
severity. `Broadcast` raises a machine check on all CPUs, with events in any banks
or in none; `Local` one on a single CPU. CPUs may hang (`MayHang`) or go off- and
online at any time they are not in the handler (`Hotplug`). A wait times out only
if some online CPU does not come. Local variables are reset when they are no
longer used.

Left out: polling and CMCI, the severity table, the event pool, `fake_panic`,
quirks, a crashing kernel's CPU.

### Proof modules

`TlbProofs` and `TlbSwitchProofs` hold the theorems about `Tlb`.

## Runs

`MCTlb`, `MCTextPoke` and `MCNmi` add symmetry sets for safety runs, `MCAsyncPf`
and `MCMce` the functions given to constants; runs with a liveness property use no
symmetry. Deadlock is not checked: every run stops when its bounds are used up.

| Run | Question | Distinct states |
|---|---|---|
| TlbLazy | may flushers skip lazy CPUs; batched flushes with generation 0; PTI with INVPCID | 2,580,094 |
| TlbShootdown | concurrent partial flushes, IPIs out of order | 1,044,384 |
| TlbRecycle | slots and mm_structs reused; NMIs in a switch; the code's assertions | 1,382,559 |
| TlbPti | PTI without INVPCID: deferred flush of the user PCID; kernel range flushes against other ASIDs | 1,467,928 |
| TlbNoPcid | processors without PCID; every flush returns | 275,501 |
| TextPoke | no torn fetch, no stray trap, vector sorted, in bounds and pinned; implements AtomicText | 1,373,556 |
| TextPokeLive | every batch ends | 33,706 |
| NmiNesting | CR2, DR7, state under nesting; no false unknown NMI; every event is handled | 954,864 |
| NmiList | unregistration under walks, reason lock | 1,799,720 |
| AsyncPf | hash table, tokens, flags, dummy entries and nodes consistent; sleepers woken | 322,233 |
| AsyncPfReturn | the same when a CPU comes back: violated | 29,694 |
| Mce | events logged once, evidence kept, no return after a fatal event, counters clean, work queued once; every handler ends | 602,042 |

All but AsyncPfReturn hold. Each property of these has a mutant of the code it is
about that violates it.

AsyncPfReturn is a disagreement. A comment in `mm/fault.c` (line 1489) says that
the "page ready" event "is delivered via an interrupt mechanism". A token written
while `kvm_cpu_down_prepare()` runs with interrupts off is found by
`sysvec_kvm_asyncpf_interrupt()` only after `kvm_pv_disable_apf()`; the handler
then sees `enabled` clear (`kvm.c:298`) and leaves the token where it is. When the
CPU comes back nothing resets `apf_reason.token`, the host takes the slot for
occupied (`kvm/x86.c:13193`) and delivers no page-ready event to this CPU any
more: a task that goes to sleep there is never woken.

### Bounds

Two CPUs suffice for a race between a flusher and a switcher; `Flusher`,
`Switcher`, `FreedTables` and `KernelFlushed` restrict which CPU plays which part
in a run. This is a real restriction: except in TlbShootdown and TlbNoPcid one CPU
flushes and the other switches, NmiNesting has one CPU, and no run has three. Kernel
range flushes are checked without INVPCID only. `MaxGen = 3` lets a slot fall two
generations behind, which the partial flush condition needs; two ASIDs with
`init_mm` and two mms force slots to wrap. Two entries in `tp_vec` and three sites
make both early flushes happen and the binary search take both directions. Up to
three events and two faults allow nesting on top of a latched NMI.

AsyncPf sets up two faults of two tasks on two vCPUs. `TokenWrap = 4` and an `id`
that starts before the wrap make the number 0 come up; a table of four slots with
two frames hashed to the last one makes probing and deletion wrap. The limit of
`ASYNC_PF_PER_VCPU` work items is not reached. In Mce two machine checks of any
kind follow each other, over a bank of one CPU and a shared one, with the
severities none, keep, action required and panic; the panic on a different page is
reached, `MaxConsecutive = 2` is not exceeded by two events. An instance with three
CPUs, one event and the last three severities was checked as well (148,286 states).

### Fairness

- Tlb: weak fairness of a CPU's own code, strong fairness of taking a pending IPI,
  since a CPU takes it in any window with interrupts enabled.
- TextPoke: weak fairness of patcher and handlers, strong fairness of
  `do_sync_core` for the same reason. `BatchEnds` is checked without poked INT3s:
  CPUs that run into those all the time could keep `refs` above zero.
- Nmi: weak fairness of `exc_nmi()`, strong fairness of the trylock loop.
- AsyncPf: weak fairness of the workers, the vCPU threads, the interrupt and hotplug
  code, and of a task that has the CPU; strong fairness of an allocation that is
  repeated in `kvm_async_pf_task_wake()`. None of the scheduler, other interrupts,
  other exits, faults or hotplug requests.
- Mce: weak fairness of the handler on each CPU that is not hung, of the timeout in
  particular.

## Proofs

For every value of the constants that satisfies `TlbAssumption`:

- `TypeCorrect`: `Spec => []TypeOK`. `TypeOK` alone is not inductive:
  `loaded_mm` may be `LOADED_MM_SWITCHING` and a request may have no mm, and both
  are then used as an mm. `TypeInv` adds that the first happens only inside the
  switch and that a task adding to a batch knows its mm.
- `ThreeStatesHold`: `Spec => []ThreeStates`, from `SwitchInv`, which says for
  every program point of the switch what `mm_cpumask`, CR3 and `is_lazy` are.
  `ThreeStates` speaks of CPUs with interrupts on only, so it says nothing of the
  intermediate states the proof must go through.
- `NmiUaccessHolds`: `Spec => []NmiUaccessOkay`, from the same invariant.

The bounds on generations, versions and context ids remain guards of the
actions, for arbitrary values of the bounds. The parts of `SwitchInv` were checked
with TLC at the bounds of TlbRecycle and TlbLazy before they were proved.

Only model-checked: the coherence properties (`NoStaleUse`, `SlotInvariant`,
`NoForeignUse`, `NoFreedTableUse`, `NoStaleKernelUse`), `CodeAssertions`,
`GenerationsAdvance`, everything about TextPoke (its refinement of AtomicText
included), Nmi, AsyncPf and Mce, and all liveness, which with ENABLED
is out of the prover's reach, as is induction over recursive definitions.

## Limits

- `NoFreedTableUse` leaves out a CPU in `switch_mm_irqs_off()` between leaving the
  old mask (`tlb.c:622`) and writing CR3: in this window a flush that frees tables
  does not reach it.
- A local event and an external one merged into one NMI leave the reason port
  unread until an NMI that no local handler claims; no property is about it.
- AsyncPf: for a nested waiter `SleeperWoken` holds only while no CPU goes down,
  because `apf_task_wake_all()` also drops dummy entries; `NodeAlive` is about tasks that
  came by the exception, since a nested waiter may have migrated. A failing write
  of a page-ready token, vCPU reset, suspend, reboot and kexec are not modelled.
- Mce: the properties of a round are stated for rounds without hotplug
  ("TBD double check parallel CPU hotunplug", `core.c:1054`), `GradedOnEvidence` with
  all CPUs online, because `mce_reign()` also reads what an offline CPU left in
  `mces_seen`. `HandlerEnds` is not restricted. That a broadcast does not come while
  a CPU handles one, and that an offline CPU is interrupted at a place where it can
  continue, are assumptions about the hardware.
- Memory is sequentially consistent except for instruction fetch in TextPoke.
  The barriers in the code are taken to do what their comments say.

## Not modelled

`PROJECT.json` lists every part with its reason. The repository has over a million
lines, about two thirds of them headers, and much of `arch/x86` is tables, emulation
and set-up code. The models cover a small share of it, chosen for its protocols.

## Plan

1. Extend: vector moves (`apic/vector.c`), FPU register ownership,
   `tsc_sync.c`, pvclock, LDT, microcode loading, posted interrupts;
   `cond_mitigation()` in Tlb; a Tlb run with three CPUs.
2. Abstract specification of translation coherence (an mm's translations before
   and after a returned flush), implemented by Tlb.
3. Prove: `CodeAssertions` (unique context ids, one slot per mm), then
   `NoForeignUse`, `SlotInvariant` and `NoStaleUse`; `VectorPinned` and
   `NoTornFetch` of TextPoke and its refinement of AtomicText; `StateMatches` and
   `ContextRestored` of Nmi; `FatalStops` and `CleanBetween` of Mce; `TokenConsumed`
   and `FlagsMatchException` of AsyncPf.
