---------------------------- MODULE AsyncPfGuest -----------------------------
(***************************************************************************)
(* The guest half of asynchronous page faults, arch/x86/kernel/kvm.c: the    *)
(* tasks that sleep until a page is there, the interrupt that wakes them,    *)
(* and the CPUs that come and go.                                           *)
(*                                                                          *)
(* A task learns of a fault in one of two ways: by the #PF exception, or,    *)
(* when it runs a nested guest, by the VM exit of that guest; in the second  *)
(* case interrupts are enabled, and the task may be preempted, between the   *)
(* reading of the flags and the call of kvm_async_pf_task_wait_schedule().   *)
(* The sections under a bucket lock are atomic; hlist_unhashed() and the     *)
(* calls on the simple wait queue are steps of their own.                    *)
(***************************************************************************)
EXTENDS AsyncPfShared

CONSTANTS
    Task, Dummy,        \* owners of nodes; a dummy entry has no task
    NestedTask,         \* tasks that run a nested guest
    MayOffline,         \* CPUs that may be taken down
    MayReturn           \* CPUs that may come back after that

ASSUME GuestAssumption ==
    /\ {None, Dummy} \cap Task = {}
    /\ NestedTask \subseteq Task
    /\ MayOffline \cup MayReturn \subseteq Vcpu

VARIABLES
    task,               \* per task: where it is, its CPU, its token
    sleepers,           \* async_pf_sleepers: the nodes in the hash table
    onwq,               \* tasks on the wait queue of their node
    ctx,                \* per CPU: the interrupt or hotplug code it executes
    cpu_state,          \* per CPU: "boot", "up" or "down"
    early               \* history: tokens of nodes removed by wake_all()

guestVars == <<task, sleepers, onwq, ctx, cpu_state, early>>

Node == [token : Token \cup {None}, cpu : Vcpu, owner : Task \cup {Dummy}]

Idle == [pc |-> "none", token |-> None, dummy |-> FALSE, node |-> None,
         offline |-> FALSE]

GuestTypeOK ==
    /\ task \in [Task -> [pc : {"run", "exited", "queue", "prepare", "check",
                                "sleep"},
                          cpu : Vcpu \cup {None}, token : Token \cup {None}]]
    /\ sleepers \subseteq Node
    /\ onwq \subseteq Task
    /\ \A v \in Vcpu :
          /\ ctx[v].pc \in {"none", "find", "wake", "all", "zero", "ack", "disable"}
          /\ ctx[v].token \in Token \cup {None, BROADCAST}
          /\ ctx[v].node \in Node \cup {None}
          /\ ctx[v].dummy \in BOOLEAN /\ ctx[v].offline \in BOOLEAN
    /\ cpu_state \in [Vcpu -> {"boot", "up", "down"}]
    /\ early \subseteq Token

GuestInit ==
    /\ task = [t \in Task |-> [pc |-> "run", cpu |-> None, token |-> None]]
    /\ sleepers = {}
    /\ onwq = {}
    /\ ctx = [v \in Vcpu |-> Idle]
    /\ cpu_state = [v \in Vcpu |-> IF v \in Boot THEN "boot" ELSE "up"]
    /\ early = {}

-----------------------------------------------------------------------------
On(v) == {t \in Task : task[t].cpu = v}

IrqsOn(v) == ctx[v].pc = "none"
             /\ \A t \in On(v) : task[t].pc \in {"run", "exited"}

\* A pending event is delivered on entry, before the next instruction.
Runs(v) == mode[v] = "guest" /\ exc[v] = None /\ ~(irq[v] /\ IrqsOn(v))

TaskRuns(t, pc) ==
    /\ task[t].pc = pc
    /\ task[t].cpu # None
    /\ Runs(task[t].cpu)
    /\ ctx[task[t].cpu].pc = "none"

(***************************************************************************)
(* The scheduler.  A sleeper is runnable once it has left the wait queue.    *)
(***************************************************************************)
Runnable(t) == task[t].pc = "sleep" => t \notin onwq

Schedule(t, v) ==
    /\ task[t].cpu = None
    /\ Runnable(t)
    /\ On(v) = {} /\ cpu_state[v] = "up" /\ Runs(v) /\ ctx[v].pc = "none"
    /\ task' = [task EXCEPT ![t].cpu = v,
                            ![t].pc = IF @ = "sleep" THEN "prepare" ELSE @]
    /\ UNCHANGED <<sharedVars, sleepers, onwq, ctx, cpu_state, early>>

Preempt(t) ==
    /\ TaskRuns(t, "run") \/ TaskRuns(t, "exited")
    /\ task' = [task EXCEPT ![t].cpu = None]
    /\ UNCHANGED <<sharedVars, sleepers, onwq, ctx, cpu_state, early>>

-----------------------------------------------------------------------------
(***************************************************************************)
(* The not-present event reaches the task that runs on v.                    *)
(***************************************************************************)
MutKeepFlags(v) == UNCHANGED apf_reason     \* mutant: the flags are not reset

kvm_read_and_reset_apf_flags(v) ==
    apf_reason' = [apf_reason EXCEPT ![v].flags = @ /\ ~apf_reason[v].enabled]

Flags(v) == apf_reason[v].enabled /\ apf_reason[v].flags

kvm_handle_async_pf(v, t) ==
    /\ mode[v] = "guest" /\ exc[v] # None /\ t \in On(v)
    /\ exc' = [exc EXCEPT ![v] = None]
    /\ kvm_read_and_reset_apf_flags(v)
    /\ task' = IF ~Flags(v) THEN task
               ELSE [task EXCEPT ![t].token = exc[v],
                                 ![t].pc = IF t \in NestedTask THEN "exited"
                                           ELSE "queue"]
    /\ UNCHANGED <<irq, mode, sleepers, onwq, ctx, cpu_state, early>>

\* The page-fault exit handler of the nested guest disables interrupts.
kvm_handle_page_fault(t) ==
    /\ TaskRuns(t, "exited")
    /\ task' = [task EXCEPT ![t].pc = "queue"]
    /\ UNCHANGED <<sharedVars, sleepers, onwq, ctx, cpu_state, early>>

_find_apf_task(token) == {n \in sleepers : n.token = token}

kvm_async_pf_queue_task(t) ==
    /\ TaskRuns(t, "queue")
    /\ \/ \E e \in _find_apf_task(task[t].token) :
             /\ sleepers' = sleepers \ {e}
             /\ task' = [task EXCEPT ![t].pc = "run", ![t].token = None]
       \/ /\ _find_apf_task(task[t].token) = {}
          /\ sleepers' = sleepers \cup {[token |-> task[t].token,
                                         cpu |-> task[t].cpu, owner |-> t]}
          /\ task' = [task EXCEPT ![t].pc = "prepare"]
    /\ UNCHANGED <<sharedVars, onwq, ctx, cpu_state, early>>

\* The loop of kvm_async_pf_task_wait_schedule().
prepare_to_swait(t) ==
    /\ TaskRuns(t, "prepare")
    /\ onwq' = onwq \cup {t}
    /\ task' = [task EXCEPT ![t].pc = "check"]
    /\ UNCHANGED <<sharedVars, sleepers, ctx, cpu_state, early>>

Hashed(t) == \E n \in sleepers : n.owner = t

kvm_async_pf_task_wait_schedule(t) ==
    /\ TaskRuns(t, "check")
    /\ IF Hashed(t)
       THEN /\ task' = [task EXCEPT ![t].pc = "sleep", ![t].cpu = None]
            /\ UNCHANGED onwq
       ELSE /\ task' = [task EXCEPT ![t].pc = "run", ![t].token = None]
            /\ onwq' = onwq \ {t}
    /\ UNCHANGED <<sharedVars, sleepers, ctx, cpu_state, early>>

-----------------------------------------------------------------------------
(***************************************************************************)
(* The page-ready interrupt.                                                *)
(***************************************************************************)
CtxRuns(v, pc) == ctx[v].pc = pc /\ Runs(v)

sysvec_kvm_asyncpf_interrupt(v) ==
    /\ mode[v] = "guest" /\ exc[v] = None /\ irq[v] /\ IrqsOn(v)
    /\ irq' = [irq EXCEPT ![v] = FALSE]
    /\ ctx' = IF ~apf_reason[v].enabled THEN ctx
              ELSE [ctx EXCEPT ![v] =
                      [Idle EXCEPT !.token = apf_reason[v].token,
                                   !.pc = IF apf_reason[v].token = BROADCAST
                                          THEN "all" ELSE "find"]]
    /\ UNCHANGED <<apf_reason, exc, mode, task, sleepers, onwq, cpu_state, early>>

MutNoRecheck(v, alloc) ==       \* mutant: no second look after the allocation
    /\ CtxRuns(v, "find")
    /\ \/ \E n \in _find_apf_task(ctx[v].token) :
             /\ ~ctx[v].dummy
             /\ sleepers' = sleepers \ {n}
             /\ ctx' = [ctx EXCEPT ![v].pc = "wake", ![v].node = n]
       \/ /\ _find_apf_task(ctx[v].token) = {} /\ ~ctx[v].dummy
          /\ ctx' = [ctx EXCEPT ![v].dummy = alloc]
          /\ UNCHANGED sleepers
       \/ /\ ctx[v].dummy
          /\ sleepers' = sleepers \cup {[token |-> ctx[v].token, cpu |-> v,
                                         owner |-> Dummy]}
          /\ ctx' = [ctx EXCEPT ![v].pc = "zero", ![v].dummy = FALSE]
    /\ UNCHANGED <<sharedVars, task, onwq, cpu_state, early>>

\* One round of the loop; alloc: whether the allocation succeeds.
kvm_async_pf_task_wake(v, alloc) ==
    /\ CtxRuns(v, "find")
    /\ \/ \E n \in _find_apf_task(ctx[v].token) :
             /\ sleepers' = sleepers \ {n}
             /\ ctx' = [ctx EXCEPT ![v].pc = "wake", ![v].node = n]
       \/ /\ _find_apf_task(ctx[v].token) = {} /\ ~ctx[v].dummy
          /\ ctx' = [ctx EXCEPT ![v].dummy = alloc]
          /\ UNCHANGED sleepers
       \/ /\ _find_apf_task(ctx[v].token) = {} /\ ctx[v].dummy
          /\ sleepers' = sleepers \cup {[token |-> ctx[v].token, cpu |-> v,
                                         owner |-> Dummy]}
          /\ ctx' = [ctx EXCEPT ![v].pc = "zero", ![v].dummy = FALSE]
    /\ UNCHANGED <<sharedVars, task, onwq, cpu_state, early>>

\* The node has left the hash table; is anybody on its wait queue?
apf_task_wake_one(v) ==
    /\ CtxRuns(v, "wake")
    /\ onwq' = onwq \ {ctx[v].node.owner}
    /\ ctx' = [ctx EXCEPT ![v].node = None,
                          ![v].pc = IF ctx[v].offline \/ ctx[v].token = BROADCAST
                                    THEN "all" ELSE "zero"]
    /\ UNCHANGED <<sharedVars, task, sleepers, cpu_state, early>>

apf_task_wake_all(v) ==
    /\ CtxRuns(v, "all")
    /\ \/ \E n \in {m \in sleepers : m.cpu = v} :
             /\ sleepers' = sleepers \ {n}
             /\ ctx' = [ctx EXCEPT ![v].pc = "wake", ![v].node = n]
             /\ early' = early \cup {n.token}
       \/ /\ \A n \in sleepers : n.cpu # v
          /\ ctx' = IF ctx[v].offline THEN [ctx EXCEPT ![v] = Idle]
                    ELSE [ctx EXCEPT ![v].pc = "zero"]
          /\ UNCHANGED <<sleepers, early>>
    /\ UNCHANGED <<sharedVars, task, onwq, cpu_state>>

ClearToken(v) ==
    /\ CtxRuns(v, "zero")
    /\ apf_reason' = [apf_reason EXCEPT ![v].token = None]
    /\ ctx' = [ctx EXCEPT ![v].pc = "ack"]
    /\ UNCHANGED <<exc, irq, mode, task, sleepers, onwq, cpu_state, early>>

\* wrmsrl(MSR_KVM_ASYNC_PF_ACK, 1): the guest's side of it.
Ack(v) ==
    /\ CtxRuns(v, "ack")
    /\ ctx' = [ctx EXCEPT ![v] = Idle]
    /\ UNCHANGED <<apf_reason, task, sleepers, onwq, cpu_state, early>>

-----------------------------------------------------------------------------
(***************************************************************************)
(* CPU hotplug.  Both callbacks run with interrupts disabled; user tasks     *)
(* have left the CPU before it goes down.                                    *)
(***************************************************************************)
kvm_cpu_down_prepare(v) ==
    /\ v \in MayOffline /\ cpu_state[v] = "up"
    /\ Runs(v) /\ IrqsOn(v) /\ On(v) = {}
    /\ ctx' = [ctx EXCEPT ![v].pc = "disable", ![v].offline = TRUE]
    /\ cpu_state' = [cpu_state EXCEPT ![v] = "down"]
    /\ UNCHANGED <<sharedVars, task, sleepers, onwq, early>>

\* wrmsrl(MSR_KVM_ASYNC_PF_EN, 0) and the flag in the shared page.
kvm_pv_disable_apf(v) ==
    /\ CtxRuns(v, "disable")
    /\ apf_reason' = [apf_reason EXCEPT ![v].enabled = FALSE]
    /\ ctx' = [ctx EXCEPT ![v].pc = "all"]
    /\ UNCHANGED <<task, sleepers, onwq, cpu_state, early>>

\* wrmsrl(MSR_KVM_ASYNC_PF_EN, pa) and the flag in the shared page.
kvm_guest_cpu_init(v) ==
    /\ Runs(v) /\ ctx[v].pc = "none"
    /\ cpu_state[v] = "boot" \/ (cpu_state[v] = "down" /\ v \in MayReturn)
    /\ apf_reason' = [apf_reason EXCEPT ![v].enabled = TRUE]
    /\ cpu_state' = [cpu_state EXCEPT ![v] = "up"]
    /\ UNCHANGED <<task, sleepers, onwq, ctx, early>>
=============================================================================
