------------------------------- MODULE AsyncPf -------------------------------
(***************************************************************************)
(* Asynchronous page faults: the host (AsyncPfHost) and the guest kernel     *)
(* (AsyncPfGuest) together.  The actions of this module are those in which   *)
(* both take part: an access to a page that is swapped out, and the writes   *)
(* of the guest to the MSRs of the protocol.                                 *)
(***************************************************************************)
EXTENDS AsyncPfHost, AsyncPfGuest

CONSTANTS
    Pages,              \* per task: the frames it accesses
    MaxFaults           \* bound on the work items that are set up

VARIABLE faults         \* how many were

vars == <<sharedVars, hostVars, guestVars, faults>>

\* Every variable has its type; a token is never 0, and no list outgrows its limit.
TypeOK == SharedTypeOK /\ HostTypeOK /\ GuestTypeOK /\ faults \in 0 .. MaxFaults

Init == SharedInit /\ HostInit /\ GuestInit /\ faults = 0

-----------------------------------------------------------------------------
\* A task accesses a page that is not there, in user or in kernel mode.
Fault(t, g, user, setup, written) ==
    /\ TaskRuns(t, "run")
    /\ ~kvm_find_async_pf_gfn(gfns[task[t].cpu], g) => faults < MaxFaults
    /\ kvm_faultin_pfn(task[t].cpu, g, user, setup, written)
    /\ faults' = IF id' # id THEN faults + 1 ELSE faults
    /\ UNCHANGED guestVars

\* The workers, and the thread of the vCPU.
Execute(v) ==
    /\ \E w \in works[v] : async_pf_execute(v, w)
    /\ UNCHANGED <<guestVars, faults>>

PresentQueued(v) ==
    /\ kvm_arch_async_page_present_queued(v)
    /\ UNCHANGED <<guestVars, faults>>

VcpuStep(v) ==
    /\ \/ kvm_check_async_pf_completion(v)
       \/ vcpu_enter_guest(v)
       \/ vcpu_block(v)
       \/ KickExit(v)
    /\ UNCHANGED <<guestVars, faults>>

HostEvent(v) ==
    /\ OtherEvent(v) \/ OtherExit(v)
    /\ UNCHANGED <<guestVars, faults>>

TaskStep(t) ==
    /\ \/ \E v \in Vcpu : kvm_handle_async_pf(v, t)
       \/ kvm_handle_page_fault(t)
       \/ kvm_async_pf_queue_task(t)
       \/ prepare_to_swait(t)
       \/ kvm_async_pf_task_wait_schedule(t)
    /\ UNCHANGED <<hostVars, faults>>

Scheduler(t) ==
    /\ Preempt(t) \/ \E v \in Vcpu : Schedule(t, v)
    /\ UNCHANGED <<hostVars, faults>>

WakeStep(v) ==
    /\ \/ sysvec_kvm_asyncpf_interrupt(v)
       \/ \E alloc \in BOOLEAN : kvm_async_pf_task_wake(v, alloc)
       \/ apf_task_wake_one(v)
       \/ apf_task_wake_all(v)
       \/ ClearToken(v)
    /\ UNCHANGED <<hostVars, faults>>

AckStep(v) == Ack(v) /\ MSR_KVM_ASYNC_PF_ACK(v) /\ UNCHANGED faults

DownPrepare(v) == kvm_cpu_down_prepare(v) /\ UNCHANGED <<hostVars, faults>>

DisableStep(v) == kvm_pv_disable_apf(v) /\ DisableAsyncPf(v) /\ UNCHANGED faults

CpuOnline(v) == kvm_guest_cpu_init(v) /\ EnableAsyncPf(v) /\ UNCHANGED faults

\* What the guest kernel does on v with interrupts disabled.
CtxStep(v) == WakeStep(v) \/ AckStep(v) \/ DisableStep(v)

Next ==
    \/ \E t \in Task : TaskStep(t) \/ Scheduler(t)
    \/ \E t \in Task : \E g \in Pages[t], user, setup, written \in BOOLEAN :
          Fault(t, g, user, setup, written)
    \/ \E v \in Vcpu : Execute(v) \/ PresentQueued(v) \/ VcpuStep(v) \/ HostEvent(v)
                       \/ CtxStep(v) \/ DownPrepare(v) \/ CpuOnline(v)

Spec == Init /\ [][Next]_vars

(***************************************************************************)
(* Fairness: workers finish, the vCPU threads and the interrupt handler go   *)
(* on, a task that has the CPU goes on, and an allocation that is repeated   *)
(* succeeds at last.  The scheduler owes nothing, and neither do other       *)
(* interrupts, other exits, new faults or hotplug requests.                  *)
(***************************************************************************)
Fairness ==
    /\ \A v \in Vcpu :
          /\ WF_vars(Execute(v)) /\ WF_vars(PresentQueued(v))
          /\ WF_vars(VcpuStep(v)) /\ WF_vars(CtxStep(v))
          /\ SF_vars(kvm_async_pf_task_wake(v, TRUE) /\ UNCHANGED <<hostVars, faults>>)
    /\ \A t \in Task : WF_vars(TaskStep(t))

FairSpec == Spec /\ Fairness

-----------------------------------------------------------------------------
\* The table of outstanding frames holds the frames of the work items, each
\* once, and the probe of kvm_async_pf_gfn_slot() finds every one of them,
\* whatever deletions shifted the entries around: WARN_ON_ONCE() in
\* kvm_del_async_pf_gfn() never fires and no frame is faulted in twice.
GfnsFindable ==
    \A v \in Vcpu :
       LET items == works[v] \cup {w \in {done[v][i] : i \in DOMAIN done[v]} : w # WakeAll}
       IN  /\ {g \in Gfn : kvm_find_async_pf_gfn(gfns[v], g)} = {w.gfn : w \in items}
           /\ Cardinality({s \in Slot : gfns[v][s] # None}) = Cardinality(items)

\* The type field in the shared page and the token in CR2 belong together: an
\* exception is read with its flag set, and no flag outlives its exception, so
\* that no ordinary page fault is taken for an asynchronous one.
FlagsMatchException == \A v \in Vcpu : Flags(v) <=> exc[v] # None

\* kvm_async_pf_queue_task() takes any entry it finds for a wake-up that came
\* before the fault, and frees it.  No wake-up overtakes the exception; one
\* that overtakes the exit of a nested guest has left a dummy entry, so what is
\* freed is never a node on a task's stack.
FoundIsDummy ==
    \A t \in Task : task[t].pc = "queue" =>
       \A e \in _find_apf_task(task[t].token) : t \in NestedTask /\ e.owner = Dummy

\* A token is in at most one node, and a dummy's fault is still on its way to
\* the task it belongs to, which will free the dummy, unless a wake-up of all
\* sleepers of a CPU came first.
DummyAwaited ==
    /\ \A m, n \in sleepers : m.token = n.token => m = n
    /\ \A n \in sleepers : n.owner = Dummy /\ n.token \notin early =>
          \E t \in Task : task[t].pc \in {"exited", "queue"} /\ task[t].token = n.token

\* apf_task_wake_one() touches the wait queue of a node after the node has
\* left the hash table; a task that came by the exception is still in
\* kvm_async_pf_task_wait_schedule() then, so its stack frame is there.
NodeAlive ==
    \A v \in Vcpu : (ctx[v].pc = "wake" /\ ctx[v].node.owner \in Task \ NestedTask) =>
       task[ctx[v].node.owner].pc \in {"prepare", "check", "sleep"}

\* The nodes in the hash table, on the stacks of tasks or allocated as dummies, are
\* freed once, by their owners, and not while another CPU is in them.
NodeLifetimes == FoundIsDummy /\ DummyAwaited /\ NodeAlive

\* A token in the shared page stays until the guest has consumed it: the host
\* never overwrites one, and the guest never takes one for done unread.
TokenConsumed ==
    [][\A v \in Vcpu :
          apf_reason[v].token # None /\ apf_reason'[v].token # apf_reason[v].token =>
             ctx[v].pc = "zero" /\ ctx[v].token = apf_reason[v].token]_vars

\* The "page ready" event is delivered: a task asleep in
\* kvm_async_pf_task_wait_schedule() is woken, by the interrupt or because the
\* CPU it went to sleep on goes down; the task of a nested guest as long as no CPU
\* goes down.
SleeperWoken ==
    \A t \in Task :
       (task[t].pc = "sleep" /\ t \in onwq) ~>
          \/ t \notin onwq
          \/ t \in NestedTask /\ \E v \in Vcpu : cpu_state[v] = "down"
=============================================================================
