---------------------------- MODULE AsyncPfShared ----------------------------
(***************************************************************************)
(* What the host half (AsyncPfHost) and the guest half (AsyncPfGuest) of    *)
(* KVM's asynchronous page faults share: the page the guest registers with  *)
(* MSR_KVM_ASYNC_PF_EN, the events the host injects, and whether a vCPU is   *)
(* executing guest code.                                                    *)
(***************************************************************************)
EXTENDS Naturals, Sequences

CONSTANTS
    Vcpu,               \* vCPUs of the guest, CPUs to the guest kernel
    None, BROADCAST,    \* 0 and ~0 in the token field of the shared page
    TokenWrap,          \* 2^20: the part of apf.id that survives << 12
    Boot                \* CPUs that are brought up in the run, not before it

ASSUME SharedAssumption ==
    /\ None \notin Vcpu /\ Boot \subseteq Vcpu
    /\ TokenWrap \in Nat \ {0, 1}

\* A token names the vCPU that faulted and the number of the fault.
Token == Vcpu \X (1 .. TokenWrap - 1)

VARIABLES
    apf_reason,         \* per vCPU: struct kvm_vcpu_pv_apf_data
    exc,                \* per vCPU: token of a #PF to be delivered on entry
    irq,                \* per vCPU: the callback vector is in the IRR
    mode                \* per vCPU: what its thread on the host executes

sharedVars == <<apf_reason, exc, irq, mode>>

(***************************************************************************)
(* mode: "guest" runs guest code, "host" is in vcpu_run() on the way to the *)
(* guest, "check" is in kvm_check_async_pf_completion(), "blocked" is in     *)
(* vcpu_block() because of apf.halted.                                      *)
(***************************************************************************)
Modes == {"guest", "host", "check", "blocked"}

SharedTypeOK ==
    /\ apf_reason \in [Vcpu -> [flags : BOOLEAN, enabled : BOOLEAN,
                                token : Token \cup {None, BROADCAST}]]
    /\ exc \in [Vcpu -> Token \cup {None}]
    /\ irq \in [Vcpu -> BOOLEAN]
    /\ mode \in [Vcpu -> Modes]

SharedInit ==
    /\ apf_reason = [v \in Vcpu |->
                        [flags |-> FALSE, enabled |-> v \notin Boot,
                         token |-> None]]
    /\ exc = [v \in Vcpu |-> None]
    /\ irq = [v \in Vcpu |-> FALSE]
    /\ mode = [v \in Vcpu |-> "guest"]
=============================================================================
