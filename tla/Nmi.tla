-------------------------------- MODULE Nmi --------------------------------
(***************************************************************************)
(* NMI handling, arch/x86/kernel/nmi.c: exc_nmi() with its nesting states, *)
(* default_do_nmi() with back-to-back detection and swallowing, the handler*)
(* list with its RCU registration, and the lock of the reason port.        *)
(*                                                                         *)
(* External: a CPU takes an NMI unless masked, delivery masks NMIs, every  *)
(* IRET unmasks them (also the one of a fault taken inside the handler),   *)
(* and one NMI is latched while they are masked.  A latched NMI is taken   *)
(* before the next instruction.  An event of a handler's device raises the *)
(* NMI at once, and the handler reports how many events it found.          *)
(***************************************************************************)
EXTENDS Integers, Sequences, FiniteSets

CONSTANTS
    Cpu,
    Handler,            \* struct nmiaction of type NMI_LOCAL
    None,
    Reason,             \* subset of {"SERR", "IOCHK"}: reasons that occur
    MayStop,            \* stop_nmi() and offline CPUs occur
    MayUnregister,
    MaxEvents,          \* bound: NMIs raised
    MaxFaults           \* bound: traps inside handlers

ASSUME NmiAssumption ==
    /\ None \notin Handler /\ None \notin Cpu
    /\ Reason \subseteq {"SERR", "IOCHK"}
    /\ MayStop \in BOOLEAN /\ MayUnregister \in BOOLEAN
    /\ MaxEvents \in Nat /\ MaxFaults \in Nat

VARIABLES
    nmi_state, nmi_cr2, nmi_dr7, swallow_nmi, last_nmi_rip,     \* per CPU
    idt_seq, idt_nmi_seq,       \* parities, all that the code looks at
    stack,                      \* invocations of exc_nmi() on each CPU, top last
    masked, latch, cr2, dr7, ip,        \* hardware, and what the NMI interrupts
    pend,                       \* events of each handler's device, per CPU
    nxt,                        \* the list: next of each element, None is its head
    reg, grace,                 \* registration state, readers synchronize_rcu() waits for
    ignore_nmis, offline, lock, reason,
    raised, faults,
    spurious, unknown,          \* ghosts: an unattributable NMI was raised; reported
    dropped                     \* ghost: CPUs that returned from an NMI without looking

stateVars == <<nmi_state, nmi_cr2, nmi_dr7>>
b2bVars   == <<swallow_nmi, last_nmi_rip>>
seqVars   == <<idt_seq, idt_nmi_seq>>
hwVars    == <<masked, latch, cr2, dr7, ip>>
listVars  == <<nxt, reg, grace>>
envVars   == <<ignore_nmis, offline, raised, faults, spurious>>
vars == <<stateVars, b2bVars, seqVars, stack, hwVars, pend, listVars, envVars, lock, reason,
          unknown, dropped>>

NMI_NOT_RUNNING == 0
NMI_EXECUTING == 1
NMI_LATCHED == 2

InExit == 3         \* an address in exc_nmi() itself, after its last decision
NoRip == 0

Init ==
    /\ nmi_state = [c \in Cpu |-> NMI_NOT_RUNNING]
    /\ nmi_cr2 = [c \in Cpu |-> 0] /\ nmi_dr7 = [c \in Cpu |-> 0]
    /\ swallow_nmi = [c \in Cpu |-> FALSE] /\ last_nmi_rip = [c \in Cpu |-> NoRip]
    /\ idt_seq = [c \in Cpu |-> 0] /\ idt_nmi_seq = [c \in Cpu |-> 0]
    /\ stack = [c \in Cpu |-> <<>>]
    /\ masked = [c \in Cpu |-> FALSE] /\ latch = [c \in Cpu |-> FALSE]
    /\ cr2 = [c \in Cpu |-> 0] /\ ip = [c \in Cpu |-> 1]
    /\ dr7 = [c \in Cpu |-> 0]
    /\ pend = [c \in Cpu |-> [a \in Handler |-> 0]]
    /\ nxt = [a \in Handler \cup {None} |-> None]
    /\ reg = [a \in Handler |-> "out"] /\ grace = [a \in Handler |-> {}]
    /\ ignore_nmis = 0 /\ offline = {} /\ lock = None /\ reason = {}
    /\ raised = 0 /\ faults = 0 /\ spurious = FALSE /\ unknown = FALSE
    /\ dropped = {}

Top(c) == stack[c][Len(stack[c])]
Deliverable(c) == latch[c] /\ ~masked[c]

\* CPU c executes an instruction of its top invocation, which is at step l.
At(c, l) == stack[c] # <<>> /\ Top(c).pc = l /\ ~Deliverable(c)

Set(c, frame) == stack' = [stack EXCEPT ![c][Len(stack[c])] = frame]
Goto(c, l) == Set(c, [Top(c) EXCEPT !.pc = l])

----------------------------------------------------------------------------
(* Where NMIs come from, and what they interrupt.                          *)

\* A device of handler a has an event for CPU c.
Event(c, a) ==
    /\ raised < MaxEvents /\ reg[a] = "listed"
    /\ pend' = [pend EXCEPT ![c][a] = @ + 1]
    /\ raised' = raised + 1 /\ latch' = [latch EXCEPT ![c] = TRUE]
    /\ UNCHANGED <<stateVars, b2bVars, seqVars, stack, masked, cr2, dr7, ip, listVars,
                   ignore_nmis, offline, faults, spurious, lock, reason, unknown, dropped>>

\* The chipset asserts a line of the reason port, or nobody knows why (r empty).
External(c, r) ==
    /\ raised < MaxEvents
    /\ reason' = reason \cup r
    /\ spurious' = TRUE
    /\ raised' = raised + 1 /\ latch' = [latch EXCEPT ![c] = TRUE]
    /\ UNCHANGED <<stateVars, b2bVars, seqVars, stack, masked, cr2, dr7, ip, pend, listVars,
                   ignore_nmis, offline, faults, lock, unknown, dropped>>

\* The interrupted program: runs, takes page faults of its own, sets breakpoints.
Program(c) ==
    /\ stack[c] = <<>> /\ ~Deliverable(c)
    /\ \/ ip' = [ip EXCEPT ![c] = 3 - @] /\ UNCHANGED <<cr2, dr7>>
       \/ cr2' = [cr2 EXCEPT ![c] = 1 - @] /\ UNCHANGED <<ip, dr7>>
       \/ dr7' = [dr7 EXCEPT ![c] = 1 - @] /\ UNCHANGED <<ip, cr2>>
    /\ UNCHANGED <<stateVars, b2bVars, seqVars, stack, masked, latch, pend, listVars, envVars,
                   lock, reason, unknown, dropped>>

\* A handler takes a page fault or a breakpoint, whose IRET unmasks NMIs.
Trap(c) ==
    /\ \E l \in {"walk", "lock", "port", "unknown"} : At(c, l)
    /\ faults < MaxFaults /\ faults' = faults + 1
    /\ cr2' = [cr2 EXCEPT ![c] = 2] /\ masked' = [masked EXCEPT ![c] = FALSE]
    /\ UNCHANGED <<stateVars, b2bVars, seqVars, stack, latch, dr7, ip, pend, listVars,
                   ignore_nmis, offline, raised, spurious, lock, reason, unknown, dropped>>

\* local_touch_nmi(), from idle code.
local_touch_nmi(c) ==
    /\ stack[c] = <<>> /\ ~Deliverable(c)
    /\ last_nmi_rip' = [last_nmi_rip EXCEPT ![c] = NoRip]
    /\ UNCHANGED <<stateVars, swallow_nmi, seqVars, stack, hwVars, pend, listVars, envVars,
                   lock, reason, unknown, dropped>>

stop_nmi ==
    /\ MayStop /\ ignore_nmis = 0 /\ ignore_nmis' = ignore_nmis + 1
    /\ UNCHANGED <<stateVars, b2bVars, seqVars, stack, hwVars, pend, listVars, offline, raised,
                   faults, spurious, lock, reason, unknown, dropped>>

restart_nmi ==
    /\ ignore_nmis > 0 /\ ignore_nmis' = ignore_nmis - 1
    /\ UNCHANGED <<stateVars, b2bVars, seqVars, stack, hwVars, pend, listVars, offline, raised,
                   faults, spurious, lock, reason, unknown, dropped>>

GoOffline(c) ==
    /\ MayStop /\ stack[c] = <<>> /\ ~Deliverable(c)
    /\ offline' = offline \cup {c}
    /\ UNCHANGED <<stateVars, b2bVars, seqVars, stack, hwVars, pend, listVars, ignore_nmis,
                   raised, faults, spurious, lock, reason, unknown, dropped>>

----------------------------------------------------------------------------
(* exc_nmi().                                                              *)

MutNested(c) == FALSE           \* mutant: no check of nmi_state

\* An NMI is in progress on this CPU.
Nested(c) == nmi_state[c] # NMI_NOT_RUNNING

MutSavedCr2(c) == cr2[c]        \* mutant: saved before the check for nesting

SavedCr2(c) == IF Nested(c) THEN nmi_cr2[c] ELSE cr2[c]

\* From the entry to nmi_restart nothing traps and NMIs are masked.  Offline and
\* nested NMIs return at once, and their IRET unmasks.
exc_nmi(c) ==
    /\ Deliverable(c)
    /\ latch' = [latch EXCEPT ![c] = FALSE]
    /\ dropped' = IF c \in offline THEN dropped \cup {c} ELSE dropped
    /\ IF c \in offline THEN UNCHANGED <<stateVars, stack, masked>>
       ELSE IF Nested(c)
       THEN /\ nmi_state' = [nmi_state EXCEPT ![c] = NMI_LATCHED]
            /\ nmi_cr2' = [nmi_cr2 EXCEPT ![c] = SavedCr2(c)]
            /\ UNCHANGED <<nmi_dr7, stack, masked>>
       ELSE /\ nmi_state' = [nmi_state EXCEPT ![c] = NMI_EXECUTING]
            /\ nmi_cr2' = [nmi_cr2 EXCEPT ![c] = SavedCr2(c)]
            /\ masked' = [masked EXCEPT ![c] = TRUE]
            /\ stack' = [stack EXCEPT ![c] = Append(@,
                  [pc |-> "restart", ip |-> IF @ = <<>> THEN ip[c] ELSE InExit,
                   b2b |-> FALSE, handled |-> 0, pos |-> None,
                   cr2 |-> cr2[c], dr7 |-> dr7[c]])]
            /\ UNCHANGED nmi_dr7
    /\ UNCHANGED <<b2bVars, seqVars, cr2, dr7, ip, pend, listVars, envVars, lock, reason, unknown>>

\* nmi_restart: local_db_save() disarms the breakpoints.
nmi_restart(c) ==
    /\ At(c, "restart")
    /\ idt_seq' = [idt_seq EXCEPT ![c] = 1 - @]
    /\ nmi_dr7' = [nmi_dr7 EXCEPT ![c] = dr7[c]] /\ dr7' = [dr7 EXCEPT ![c] = 0]
    /\ Goto(c, IF ignore_nmis > 0 THEN "out" ELSE "do")
    /\ dropped' = IF ignore_nmis > 0 THEN dropped \cup {c} ELSE dropped
    /\ UNCHANGED <<nmi_state, nmi_cr2, b2bVars, idt_nmi_seq, masked, latch, cr2, ip, pend,
                   listVars, envVars, lock, reason, unknown>>

\* The NMI interrupted the instruction the last one returned to.
B2b(c) == Top(c).ip = last_nmi_rip[c]

\* default_do_nmi() up to the list walk.
default_do_nmi(c) ==
    /\ At(c, "do")
    /\ idt_nmi_seq' = [idt_nmi_seq EXCEPT ![c] = 1 - @]
    /\ swallow_nmi' = [swallow_nmi EXCEPT ![c] = B2b(c) /\ @]
    /\ last_nmi_rip' = [last_nmi_rip EXCEPT ![c] = Top(c).ip]
    /\ Set(c, [Top(c) EXCEPT !.pc = "walk", !.b2b = B2b(c), !.handled = 0, !.pos = nxt[None]])
    /\ UNCHANGED <<stateVars, idt_seq, hwVars, pend, listVars, envVars, lock, reason, unknown, dropped>>

MutSwallow(c) == swallow_nmi[c]                 \* mutant: swallow never set

\* More than one event handled: the next NMI may find nothing.
Swallow(c) == swallow_nmi[c] \/ Top(c).handled > 1

\* One iteration of nmi_handle(NMI_LOCAL): the handler takes its events, then the
\* walk reads the next pointer.  At the end of the list: rcu_read_unlock().
nmi_handle(c) ==
    /\ At(c, "walk")
    /\ LET a == Top(c).pos
       IN IF a # None
          THEN /\ Set(c, [Top(c) EXCEPT !.handled = @ + pend[c][a], !.pos = nxt[a]])
               /\ pend' = [pend EXCEPT ![c][a] = 0]
               /\ UNCHANGED <<swallow_nmi, grace>>
          ELSE /\ grace' = [b \in Handler |-> grace[b] \ {c}]
               /\ Goto(c, IF Top(c).handled > 0 THEN "out_do" ELSE "lock")
               /\ swallow_nmi' = [swallow_nmi EXCEPT ![c] = Swallow(c)]
               /\ UNCHANGED pend
    /\ UNCHANGED <<stateVars, last_nmi_rip, seqVars, hwVars, nxt, reg, envVars, lock, reason,
                   unknown, dropped>>

\* The loop on raw_spin_trylock(&nmi_reason_lock).
TakeReasonLock(c) ==
    /\ At(c, "lock") /\ lock = None
    /\ lock' = c /\ Goto(c, "port")
    /\ UNCHANGED <<stateVars, b2bVars, seqVars, hwVars, pend, listVars, envVars, reason, unknown, dropped>>

\* pci_serr_error() or io_check_error(): the line is cleared, here or by the
\* handler registered for it.  With both asserted only SERR is looked at.
ClearReason(r) == IF "SERR" \in r THEN r \ {"SERR"} ELSE r \ {"IOCHK"}

\* get_nmi_reason() and what follows, up to the release of the lock.
ReadReason(c) ==
    /\ At(c, "port")
    /\ reason' = ClearReason(reason)
    /\ Goto(c, IF reason # {} THEN "out_do" ELSE "unknown")
    /\ lock' = None
    /\ UNCHANGED <<stateVars, b2bVars, seqVars, hwVars, pend, listVars, envVars, unknown, dropped>>

\* Swallow the NMI or call unknown_nmi_error().
SwallowOrReport(c) ==
    /\ At(c, "unknown")
    /\ unknown' = (unknown \/ ~(Top(c).b2b /\ swallow_nmi[c]))
    /\ Goto(c, "out_do")
    /\ UNCHANGED <<stateVars, b2bVars, seqVars, hwVars, pend, listVars, envVars, lock, reason, dropped>>

LeaveDoNmi(c) ==
    /\ At(c, "out_do")
    /\ idt_nmi_seq' = [idt_nmi_seq EXCEPT ![c] = 1 - @]
    /\ Goto(c, "out")
    /\ UNCHANGED <<stateVars, b2bVars, idt_seq, hwVars, pend, listVars, envVars, lock, reason,
                   unknown, dropped>>

\* local_db_restore() and the CR2 check, in this order, before the state changes.
RestoreContext(c) ==
    /\ At(c, "out")
    /\ dr7' = [dr7 EXCEPT ![c] = IF nmi_dr7[c] # 0 THEN nmi_dr7[c] ELSE @]
    /\ cr2' = [cr2 EXCEPT ![c] = nmi_cr2[c]]
    /\ idt_seq' = [idt_seq EXCEPT ![c] = 1 - @]
    /\ Goto(c, "dec")
    /\ UNCHANGED <<stateVars, b2bVars, idt_nmi_seq, masked, latch, ip, pend, listVars, envVars,
                   lock, reason, unknown, dropped>>

MutLeave(s) == NMI_NOT_RUNNING                  \* mutant: forgets the latched NMI

Leave(s) == s - 1

MutAgain(s) == FALSE                            \* mutant: returns, whatever the state

Again(s) == s # NMI_NOT_RUNNING

\* this_cpu_dec_return(nmi_state): run again for a nested NMI.
DecState(c) ==
    /\ At(c, "dec")
    /\ nmi_state' = [nmi_state EXCEPT ![c] = Leave(@)]
    /\ Goto(c, IF Again(Leave(nmi_state[c])) THEN "restart" ELSE "iret")
    /\ UNCHANGED <<nmi_cr2, nmi_dr7, b2bVars, seqVars, hwVars, pend, listVars, envVars, lock,
                   reason, unknown, dropped>>

\* The return to what was interrupted; an NMI may come in before it.
Iret(c) ==
    /\ At(c, "iret")
    /\ stack' = [stack EXCEPT ![c] = SubSeq(@, 1, Len(@) - 1)]
    /\ masked' = [masked EXCEPT ![c] = FALSE]
    /\ UNCHANGED <<stateVars, b2bVars, seqVars, latch, cr2, dr7, ip, pend, listVars, envVars,
                   lock, reason, unknown, dropped>>

ExcNmi(c) ==
    \/ exc_nmi(c) \/ nmi_restart(c) \/ default_do_nmi(c) \/ nmi_handle(c) \/ TakeReasonLock(c)
    \/ ReadReason(c) \/ SwallowOrReport(c) \/ LeaveDoNmi(c) \/ RestoreContext(c)
    \/ DecState(c) \/ Iret(c)

----------------------------------------------------------------------------
(* Registration, in process context on any CPU.                            *)

InList(a) == a = None \/ reg[a] = "listed"
Prev(a) == CHOOSE p \in Handler \cup {None} : InList(p) /\ nxt[p] = a

\* __register_nmi_handler(), with NMI_FLAG_FIRST or without.
register_nmi_handler(a, first) ==
    /\ reg[a] = "out"
    /\ reg' = [reg EXCEPT ![a] = "listed"]
    /\ nxt' = IF first THEN [nxt EXCEPT ![None] = a, ![a] = nxt[None]]
              ELSE [nxt EXCEPT ![Prev(None)] = a, ![a] = None]
    /\ UNCHANGED <<stateVars, b2bVars, seqVars, stack, hwVars, pend, grace, envVars, lock,
                   reason, unknown, dropped>>

Readers == {c \in Cpu : \E k \in DOMAIN stack[c] : stack[c][k].pc = "walk"}

MutWaitFor(readers) == {}       \* mutant: no synchronize_rcu()

WaitFor(readers) == readers

\* unregister_nmi_handler() up to synchronize_rcu().  Events nobody fetched leave
\* an NMI without a cause behind.
unregister_nmi_handler(a) ==
    /\ MayUnregister /\ reg[a] = "listed"
    /\ reg' = [reg EXCEPT ![a] = "leaving"]
    /\ nxt' = [nxt EXCEPT ![Prev(a)] = nxt[a]]
    /\ grace' = [grace EXCEPT ![a] = WaitFor(Readers)]
    /\ pend' = [c \in Cpu |-> [pend[c] EXCEPT ![a] = 0]]
    /\ spurious' = (spurious \/ \E c \in Cpu : pend[c][a] > 0)
    /\ UNCHANGED <<stateVars, b2bVars, seqVars, stack, hwVars, ignore_nmis, offline, raised,
                   faults, lock, reason, unknown, dropped>>

\* synchronize_rcu() returns: the caller may free the handler.
Unregistered(a) ==
    /\ reg[a] = "leaving" /\ grace[a] = {}
    /\ reg' = [reg EXCEPT ![a] = "out"]
    /\ UNCHANGED <<stateVars, b2bVars, seqVars, stack, hwVars, pend, nxt, grace, envVars, lock,
                   reason, unknown, dropped>>

Next ==
    \/ \E c \in Cpu :
          \/ ExcNmi(c) \/ Program(c) \/ Trap(c) \/ local_touch_nmi(c) \/ GoOffline(c)
          \/ \E a \in Handler : Event(c, a)
          \/ \E r \in SUBSET Reason : Cardinality(r) <= 1 /\ External(c, r)
    \/ \E a \in Handler :
          \/ \E first \in BOOLEAN : register_nmi_handler(a, first)
          \/ unregister_nmi_handler(a) \/ Unregistered(a)
    \/ stop_nmi \/ restart_nmi

Spec == Init /\ [][Next]_vars

\* A CPU executes its NMI handler; contention for the port ends.
FairSpec == Spec /\ \A c \in Cpu : WF_vars(ExcNmi(c)) /\ SF_vars(TakeReasonLock(c))

----------------------------------------------------------------------------
(* Properties.                                                             *)

\* Every variable has its type; invocations pile up only in the exit path.
TypeOK ==
    /\ nmi_state \in [Cpu -> {NMI_NOT_RUNNING, NMI_EXECUTING, NMI_LATCHED}]
    /\ nmi_cr2 \in [Cpu -> 0 .. 2] /\ nmi_dr7 \in [Cpu -> 0 .. 1]
    /\ swallow_nmi \in [Cpu -> BOOLEAN] /\ last_nmi_rip \in [Cpu -> 0 .. 3]
    /\ idt_seq \in [Cpu -> 0 .. 1] /\ idt_nmi_seq \in [Cpu -> 0 .. 1]
    /\ masked \in [Cpu -> BOOLEAN] /\ latch \in [Cpu -> BOOLEAN]
    /\ cr2 \in [Cpu -> 0 .. 2] /\ dr7 \in [Cpu -> 0 .. 1] /\ ip \in [Cpu -> 1 .. 2]
    /\ pend \in [Cpu -> [Handler -> Nat]]
    /\ nxt \in [Handler \cup {None} -> Handler \cup {None}]
    /\ reg \in [Handler -> {"listed", "leaving", "out"}]
    /\ grace \in [Handler -> SUBSET Cpu]
    /\ ignore_nmis \in 0 .. 1 /\ offline \subseteq Cpu /\ lock \in Cpu \cup {None}
    /\ reason \subseteq Reason /\ spurious \in BOOLEAN /\ unknown \in BOOLEAN
    /\ dropped \subseteq Cpu
    /\ \A c \in Cpu : \A k \in 1 .. Len(stack[c]) - 1 : stack[c][k].pc = "iret"

\* However NMIs nest, each invocation returns with the CR2 and the breakpoints it
\* found, so a page fault it interrupted still sees its own address.
ContextRestored ==
    \A c \in Cpu : stack[c] # <<>> /\ Top(c).pc = "iret"
                      => cr2[c] = Top(c).cr2 /\ dr7[c] = Top(c).dr7

\* nmi_state is NOT_RUNNING exactly when no invocation is between its first write
\* and its last decrement, and the WARN_ONs on the two sequence counters hold.
StateMatches ==
    \A c \in Cpu :
        LET l == IF stack[c] = <<>> THEN "iret" ELSE Top(c).pc
        IN /\ nmi_state[c] = NMI_NOT_RUNNING <=> l = "iret"
           /\ idt_seq[c] = IF l \in {"iret", "dec", "restart"} THEN 0 ELSE 1
           /\ idt_nmi_seq[c] = IF l \in {"walk", "lock", "port", "unknown", "out_do"}
                               THEN 1 ELSE 0

\* An NMI is reported as unknown only if one without a local event was raised:
\* NMIs whose event an earlier one already handled are swallowed, also when they
\* were nested, latched by the hardware, or followed by more events.
NoFalseUnknown == unknown => spurious

\* A walk never stands on a handler whose unregistration has returned.
NoFreedHandler ==
    \A c \in Cpu : \A k \in DOMAIN stack[c] :
        stack[c][k].pc = "walk" /\ stack[c][k].pos # None => reg[stack[c][k].pos] # "out"

\* Every event of a registered handler is handled, although only one NMI can be
\* latched and nested ones return without doing anything, unless the CPU dropped
\* an NMI because it was offline or between stop_nmi() and restart_nmi().
EventsHandled ==
    \A c \in Cpu, a \in Handler : pend[c][a] > 0 ~> (pend[c][a] = 0 \/ c \in dropped)
============================================================================
