----------------------------- MODULE AsyncPfHost -----------------------------
(***************************************************************************)
(* The host half of asynchronous page faults: kvm/x86.c and kvm/mmu/mmu.c.  *)
(* The list of work items behind it (kvm_setup_async_pf() and its            *)
(* companions, virt/kvm) is not in the repository and is modelled from how   *)
(* this code uses it.                                                       *)
(*                                                                          *)
(* Each operation is a step of the thread of one vCPU, which is then out of  *)
(* guest mode, or of a worker; they meet in the done list, the requests and  *)
(* pageready_pending.                                                       *)
(***************************************************************************)
EXTENDS AsyncPfShared, FiniteSets, FiniteSetsExt

CONSTANTS
    Gfn,                \* guest page frames that may be swapped out
    ASYNC_PF_PER_VCPU,
    Hash                \* kvm_async_pf_hash_fn

Slot == 0 .. ASYNC_PF_PER_VCPU - 1

ASSUME HostAssumption ==
    /\ None \notin Gfn
    /\ ASYNC_PF_PER_VCPU \in Nat \ {0}
    /\ Hash \in [Gfn -> Slot]

VARIABLES
    msr_en,             \* per vCPU: apf.msr_en_val has the enabling bits
    works,              \* per vCPU: work items whose page is not there yet
    done,               \* per vCPU: async_pf.done, finished work items
    notify,             \* per vCPU: workers about to report a first entry
    gfns,               \* per vCPU: apf.gfns, an open hash table
    id,                 \* per vCPU: apf.id modulo TokenWrap
    req,                \* per vCPU: KVM_REQ_APF_HALT and KVM_REQ_APF_READY
    kick,               \* per vCPU: a kick forces it out of guest mode
    pageready_pending

hostVars == <<msr_en, works, done, notify, gfns, id, req, kick,
              pageready_pending>>

Work == [token : Token, gfn : Gfn, injected : BOOLEAN]

WakeAll == [token |-> BROADCAST]

HostTypeOK ==
    /\ msr_en \in [Vcpu -> BOOLEAN]
    /\ \A v \in Vcpu : /\ works[v] \subseteq Work
                       /\ \A i \in DOMAIN done[v] : done[v][i] \in Work \cup {WakeAll}
                       /\ Cardinality(works[v]) + Len(done[v]) <= ASYNC_PF_PER_VCPU + 1
    /\ notify \in [Vcpu -> Nat]
    /\ gfns \in [Vcpu -> [Slot -> Gfn \cup {None}]]
    /\ id \in [Vcpu -> 0 .. TokenWrap - 1]
    /\ req \in [Vcpu -> SUBSET {"HALT", "READY"}]
    /\ kick \in [Vcpu -> BOOLEAN]
    /\ pageready_pending \in [Vcpu -> BOOLEAN]

EmptyTable == [s \in Slot |-> None]

\* The first token comes from the last number before the counter wraps.
HostInit ==
    /\ msr_en = [v \in Vcpu |-> v \notin Boot]
    /\ works = [v \in Vcpu |-> {}]
    /\ done = [v \in Vcpu |-> <<>>]
    /\ notify = [v \in Vcpu |-> 0]
    /\ gfns = [v \in Vcpu |-> EmptyTable]
    /\ id = [v \in Vcpu |-> TokenWrap - 1]
    /\ req = [v \in Vcpu |-> {}]
    /\ kick = [v \in Vcpu |-> FALSE]
    /\ pageready_pending = [v \in Vcpu |-> FALSE]

-----------------------------------------------------------------------------
(***************************************************************************)
(* The table of outstanding frames.                                         *)
(***************************************************************************)
kvm_async_pf_next_probe(key) == (key + 1) % ASYNC_PF_PER_VCPU

Probe(g, d) == (Hash[g] + d) % ASYNC_PF_PER_VCPU

kvm_add_async_pf_gfn(tab, g) ==
    LET d == Min({n \in Slot : tab[Probe(g, n)] = None})
    IN  [tab EXCEPT ![Probe(g, d)] = g]

kvm_async_pf_gfn_slot(tab, g) ==
    LET hits == {n \in Slot : tab[Probe(g, n)] \in {g, None}}
    IN  Probe(g, IF hits = {} THEN ASYNC_PF_PER_VCPU ELSE Min(hits))

kvm_find_async_pf_gfn(tab, g) == tab[kvm_async_pf_gfn_slot(tab, g)] = g

MutStays(i, j, k) == i < k /\ k <= j    \* mutant: forgets that the table is cyclic

\* An entry at j whose home is k stays: k lies cyclically in ]i,j].
Stays(i, j, k) == IF i <= j THEN i < k /\ k <= j ELSE i < k \/ k <= j

\* Slot i has been emptied; entries after j may have to move into it.
Refill[tab \in [Slot -> Gfn \cup {None}], i \in Slot, j \in Slot] ==
    LET n == kvm_async_pf_next_probe(j)
    IN  IF tab[n] = None
        THEN tab
        ELSE IF Stays(i, n, Hash[tab[n]])
             THEN Refill[tab, i, n]
             ELSE Refill[[tab EXCEPT ![i] = tab[n], ![n] = None], n, n]

kvm_del_async_pf_gfn(tab, g) ==
    LET s == kvm_async_pf_gfn_slot(tab, g)
    IN  IF tab[s] # g THEN tab ELSE Refill[[tab EXCEPT ![s] = None], s, s]

-----------------------------------------------------------------------------
(***************************************************************************)
(* A guest access to a frame the host has swapped out, with interrupts       *)
(* enabled (otherwise kvm_can_do_async_pf() is false and the host waits for   *)
(* the page, which changes nothing here).                                    *)
(***************************************************************************)
MutNextId(v) == id[v]               \* mutant: the number 0 is not skipped

NextId(v) == IF id[v] % TokenWrap = 0 THEN 1 ELSE id[v]

alloc_apf_token(v) == <<v, NextId(v)>>

\* The guest registers without KVM_ASYNC_PF_SEND_ALWAYS.
kvm_can_deliver_async_pf(v, user) == msr_en[v] /\ user

MaySetup(v) == Cardinality(works[v]) + Len(done[v]) < ASYNC_PF_PER_VCPU

kvm_arch_async_page_not_present(v, g, user, written) ==
    LET token == alloc_apf_token(v)
        inject == kvm_can_deliver_async_pf(v, user) /\ written
    IN  /\ gfns' = [gfns EXCEPT ![v] = kvm_add_async_pf_gfn(@, g)]
        /\ works' = [works EXCEPT ![v] = @ \cup
                        {[token |-> token, gfn |-> g, injected |-> inject]}]
        /\ IF inject
           THEN /\ apf_reason' = [apf_reason EXCEPT ![v].flags = TRUE]
                /\ exc' = [exc EXCEPT ![v] = token]
                /\ UNCHANGED req
           ELSE /\ req' = [req EXCEPT ![v] = @ \cup {"HALT"}]
                /\ UNCHANGED <<apf_reason, exc>>

\* written: whether the write to the shared page succeeds; setup: whether
\* kvm_setup_async_pf() gets its work item.
kvm_faultin_pfn(v, g, user, setup, written) ==
    /\ mode' = [mode EXCEPT ![v] = "host"]
    /\ UNCHANGED <<irq, msr_en, done, notify, kick, pageready_pending>>
    /\ \/ /\ kvm_find_async_pf_gfn(gfns[v], g)
          /\ req' = [req EXCEPT ![v] = @ \cup {"HALT"}]
          /\ UNCHANGED <<apf_reason, exc, works, gfns, id>>
       \/ /\ ~kvm_find_async_pf_gfn(gfns[v], g)
          /\ id' = [id EXCEPT ![v] = (NextId(v) + 1) % TokenWrap]
          /\ IF setup /\ MaySetup(v)
             THEN kvm_arch_async_page_not_present(v, g, user, written)
             ELSE UNCHANGED <<apf_reason, exc, works, gfns, req>>

-----------------------------------------------------------------------------
(***************************************************************************)
(* The page arrives: a worker puts its item on the done list, and reports    *)
(* it if the list was empty.                                                 *)
(***************************************************************************)
async_pf_execute(v, w) ==
    /\ w \in works[v]
    /\ works' = [works EXCEPT ![v] = @ \ {w}]
    /\ done' = [done EXCEPT ![v] = Append(@, w)]
    /\ notify' = [notify EXCEPT ![v] = IF done[v] = <<>> THEN @ + 1 ELSE @]
    /\ UNCHANGED <<sharedVars, msr_en, gfns, id, req, kick, pageready_pending>>

NeedsKick(v) == ~pageready_pending[v]

kvm_arch_async_page_present_queued(v) ==
    /\ notify[v] > 0
    /\ notify' = [notify EXCEPT ![v] = @ - 1]
    /\ req' = [req EXCEPT ![v] = @ \cup {"READY"}]
    /\ kick' = [kick EXCEPT ![v] = @ \/ NeedsKick(v)]
    /\ UNCHANGED <<sharedVars, msr_en, works, done, gfns, id, pageready_pending>>

MutCanDequeue(v) == TRUE            \* mutant: does not look at the slot

kvm_arch_can_dequeue_async_page_present(v) ==
    msr_en[v] => apf_reason[v].token = None

\* An item leaves the done list and, if the guest was told of the fault, its
\* token goes to the shared page and the interrupt to the local APIC.
kvm_arch_async_page_present(v, w) ==
    /\ gfns' = [gfns EXCEPT ![v] = IF w = WakeAll THEN @
                                   ELSE kvm_del_async_pf_gfn(@, w.gfn)]
    /\ IF (w = WakeAll \/ w.injected) /\ msr_en[v]
       THEN /\ apf_reason' = [apf_reason EXCEPT ![v].token = w.token]
            /\ pageready_pending' = [pageready_pending EXCEPT ![v] = TRUE]
            /\ irq' = [irq EXCEPT ![v] = TRUE]
       ELSE UNCHANGED <<apf_reason, pageready_pending, irq>>

kvm_check_async_pf_completion(v) ==
    /\ mode[v] = "check"
    /\ IF done[v] # <<>> /\ kvm_arch_can_dequeue_async_page_present(v)
       THEN /\ kvm_arch_async_page_present(v, Head(done[v]))
            /\ done' = [done EXCEPT ![v] = Tail(@)]
            /\ UNCHANGED mode
       ELSE /\ mode' = [mode EXCEPT ![v] = "host"]
            /\ UNCHANGED <<apf_reason, irq, done, gfns, pageready_pending>>
    /\ UNCHANGED <<exc, msr_en, works, notify, id, req, kick>>

-----------------------------------------------------------------------------
(***************************************************************************)
(* The loop of the vCPU thread.  A halted vCPU waits in vcpu_block().         *)
(***************************************************************************)
vcpu_enter_guest(v) ==
    /\ mode[v] = "host"
    /\ \/ /\ "HALT" \in req[v]
          /\ req' = [req EXCEPT ![v] = @ \ {"HALT"}]
          /\ mode' = [mode EXCEPT ![v] = "blocked"]
          /\ UNCHANGED kick
       \/ /\ "HALT" \notin req[v]
          /\ req' = [req EXCEPT ![v] = {}]
          /\ mode' = [mode EXCEPT ![v] = IF "READY" \in req[v] THEN "check"
                                         ELSE "guest"]
          /\ kick' = [kick EXCEPT ![v] = FALSE]
    /\ UNCHANGED <<apf_reason, exc, irq, msr_en, works, done, notify, gfns, id,
                   pageready_pending>>

kvm_vcpu_has_events(v) == done[v] # <<>> \/ exc[v] # None \/ irq[v]

vcpu_block(v) ==
    /\ mode[v] = "blocked"
    /\ kvm_vcpu_has_events(v)
    /\ mode' = [mode EXCEPT ![v] = "host"]
    /\ UNCHANGED <<apf_reason, exc, irq, hostVars>>

\* Another interrupt or timer of the guest ends the artificial halt.
OtherEvent(v) ==
    /\ mode[v] = "blocked"
    /\ mode' = [mode EXCEPT ![v] = "host"]
    /\ UNCHANGED <<apf_reason, exc, irq, hostVars>>

KickExit(v) ==
    /\ mode[v] = "guest" /\ kick[v]
    /\ mode' = [mode EXCEPT ![v] = "host"]
    /\ UNCHANGED <<apf_reason, exc, irq, hostVars>>

\* Any other exit; it matters only when there is a request to serve.
OtherExit(v) ==
    /\ mode[v] = "guest" /\ req[v] # {}
    /\ mode' = [mode EXCEPT ![v] = "host"]
    /\ UNCHANGED <<apf_reason, exc, irq, hostVars>>

-----------------------------------------------------------------------------
(***************************************************************************)
(* MSR writes of the guest; the guest's action supplies apf_reason'.         *)
(***************************************************************************)
MutAckOnly(v) ==                    \* mutant: does not look at the done list
    /\ pageready_pending' = [pageready_pending EXCEPT ![v] = FALSE]
    /\ mode' = [mode EXCEPT ![v] = "host"]
    /\ UNCHANGED <<exc, irq, msr_en, works, done, notify, gfns, id, req, kick>>

MSR_KVM_ASYNC_PF_ACK(v) ==
    /\ pageready_pending' = [pageready_pending EXCEPT ![v] = FALSE]
    /\ mode' = [mode EXCEPT ![v] = "check"]
    /\ UNCHANGED <<exc, irq, msr_en, works, done, notify, gfns, id, req, kick>>

\* kvm_clear_async_pf_completion_queue() cancels the items and waits for
\* workers that are already running.
DisableAsyncPf(v) ==
    /\ notify[v] = 0
    /\ msr_en' = [msr_en EXCEPT ![v] = FALSE]
    /\ works' = [works EXCEPT ![v] = {}]
    /\ done' = [done EXCEPT ![v] = <<>>]
    /\ gfns' = [gfns EXCEPT ![v] = EmptyTable]
    /\ mode' = [mode EXCEPT ![v] = "host"]
    /\ UNCHANGED <<exc, irq, notify, id, req, kick, pageready_pending>>

\* kvm_async_pf_wakeup_all() queues a wake-up for every sleeper.
EnableAsyncPf(v) ==
    /\ msr_en' = [msr_en EXCEPT ![v] = TRUE]
    /\ done' = [done EXCEPT ![v] = IF @ = <<>> THEN <<WakeAll>> ELSE @]
    /\ req' = [req EXCEPT ![v] = IF done[v] = <<>> THEN @ \cup {"READY"} ELSE @]
    /\ mode' = [mode EXCEPT ![v] = "host"]
    /\ UNCHANGED <<exc, irq, works, notify, gfns, id, kick, pageready_pending>>
=============================================================================
