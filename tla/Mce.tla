-------------------------------- MODULE Mce --------------------------------
(***************************************************************************)
(* Machine checks, arch/x86/kernel/cpu/mce/core.c: do_machine_check() with *)
(* its rendezvous.  The CPUs call in, scan the banks one after the other in*)
(* the order of their calls, and wait until the first one, the monarch, has*)
(* graded what all of them found.                                          *)
(*                                                                         *)
(* External: a broadcast #MC reaches all CPUs, also offline ones, and is   *)
(* not raised while one of them handles another (the machine would shut    *)
(* down).  A bank holds one event, known here by its severity.  The clock  *)
(* is: a wait times out only if a CPU it waits for does not come.  Panics  *)
(* are real ones (fake_panic is off), every bank is enabled (ctl # 0).     *)
(***************************************************************************)
EXTENDS Integers, FiniteSets, FiniteSetsExt

CONSTANTS
    Cpu,
    Bank,           \* numbers of MCA banks
    Sees,           \* per CPU: its banks; a bank of several CPUs is shared
    Severity,       \* severities that occur
    Page,
    MayHang,        \* CPUs that may be broken beyond repair
    MayPlug,        \* CPUs that may go offline and come back
    TimeoutSettings,    \* values of mca_cfg.monarch_timeout: 0 is no rendezvous
    MaxConsecutive, \* 10 in queue_task_work()
    MaxEvents       \* bound: machine checks raised

MCE_NO_SEVERITY == 0
MCE_UCNA_SEVERITY == 1
MCE_KEEP_SEVERITY == 2
MCE_AR_SEVERITY == 6
MCE_PANIC_SEVERITY == 7

ASSUME MceAssumption ==
    /\ IsFiniteSet(Cpu) /\ Bank \subseteq Nat /\ Sees \in [Cpu -> SUBSET Bank]
    /\ Severity \subseteq MCE_NO_SEVERITY .. MCE_PANIC_SEVERITY
    /\ MayHang \subseteq Cpu /\ MayPlug \subseteq Cpu /\ TimeoutSettings \subseteq Nat
    /\ MaxConsecutive \in Nat /\ MaxEvents \in Nat

VARIABLES
    monarch_timeout,    \* mca_cfg.monarch_timeout
    online, hung,
    status,         \* per bank: severity of the event in it, or Empty
    mc,             \* per CPU: the #MC about to be taken: "no", "all", "local"
    pc, lmce, order, no_way_out, worst, ripv, valid_banks, toclear,
    mces_seen,      \* per CPU: severity of the worst event seen
    mce_callin, mce_executing, global_nwo, mce_missing_cpus, mce_panicked,
    mce_count, mce_page, work,  \* current of each CPU: task_struct, works queued
    raised,
    fatal,          \* ghost: a CPU saw a fatal event of the last broadcast
    plugged,        \* ghost: a CPU went off- or online since the last broadcast
    logged          \* ghost, per bank: times its event was logged in a rendezvous

cpuVars  == <<lmce, order, no_way_out, worst, ripv, valid_banks, toclear>>
syncVars == <<mce_callin, mce_executing, global_nwo, mce_missing_cpus>>
taskVars == <<mce_count, mce_page, work>>
ghosts   == <<fatal, plugged, logged>>
hwVars   == <<monarch_timeout, online, hung, mc, raised>>
vars == <<hwVars, status, pc, cpuVars, mces_seen, syncVars, mce_panicked, taskVars, ghosts>>

Empty == -1

Init ==
    /\ monarch_timeout \in TimeoutSettings
    /\ online = Cpu /\ hung \in {{}} \cup {{c} : c \in MayHang}
    /\ status = [b \in Bank |-> Empty]
    /\ mc = [c \in Cpu |-> "no"] /\ pc = [c \in Cpu |-> "idle"]
    /\ lmce = [c \in Cpu |-> FALSE] /\ order = [c \in Cpu |-> -1]
    /\ no_way_out = [c \in Cpu |-> FALSE] /\ worst = [c \in Cpu |-> 0]
    /\ ripv = [c \in Cpu |-> TRUE]
    /\ valid_banks = [c \in Cpu |-> {}] /\ toclear = [c \in Cpu |-> {}]
    /\ mces_seen = [c \in Cpu |-> 0]
    /\ mce_callin = 0 /\ mce_executing = 0 /\ global_nwo = 0
    /\ mce_missing_cpus = Cpu /\ mce_panicked = FALSE
    /\ mce_count = [c \in Cpu |-> 0] /\ work = [c \in Cpu |-> 0]
    /\ mce_page = [c \in Cpu |-> CHOOSE p \in Page : TRUE]
    /\ raised = 0 /\ fatal = FALSE /\ plugged = FALSE /\ logged = [b \in Bank |-> 0]

----------------------------------------------------------------------------
(* The hardware, and CPU hotplug.                                          *)

\* Events appear in banks that are empty.
Latch(events) ==
    /\ raised < MaxEvents /\ raised' = raised + 1 /\ ~mce_panicked
    /\ \A b \in DOMAIN events : status[b] = Empty
    /\ status' = [b \in Bank |-> IF b \in DOMAIN events THEN events[b] ELSE status[b]]
    /\ logged' = [b \in Bank |-> IF b \in DOMAIN events THEN 0 ELSE logged[b]]
    /\ UNCHANGED <<monarch_timeout, online, hung, pc, cpuVars, mces_seen, syncVars,
                   mce_panicked, taskVars>>

\* A broadcast; without events it comes from an agent outside.
Broadcast(events) ==
    /\ \A c \in Cpu : pc[c] = "idle" /\ mc[c] = "no"
    /\ Latch(events)
    /\ mc' = [c \in Cpu |-> "all"] /\ fatal' = FALSE /\ plugged' = FALSE

Local(c, b, s) ==
    /\ pc[c] = "idle" /\ mc[c] = "no" /\ c \in online \ hung /\ b \in Sees[c]
    /\ Latch([x \in {b} |-> s])
    /\ mc' = [mc EXCEPT ![c] = "local"] /\ UNCHANGED <<fatal, plugged>>

Hotplug(c) ==
    /\ c \in MayPlug /\ pc[c] = "idle"
    /\ c \in online => Cardinality(online) > 1
    /\ online' = IF c \in online THEN online \ {c} ELSE online \cup {c}
    /\ plugged' = TRUE
    /\ UNCHANGED <<monarch_timeout, hung, mc, raised, status, pc, cpuVars, mces_seen, syncVars,
                   mce_panicked, taskVars, fatal, logged>>

----------------------------------------------------------------------------
(* do_machine_check().                                                     *)

Goto(c, l) == pc' = [pc EXCEPT ![c] = l]

\* mce_panic(): the first CPU panics, later ones wait for it to stop them.
mce_panic(c) == mce_panicked' = TRUE /\ Goto(c, "dead")

PanicOr(c, panic, l) ==
    IF panic THEN mce_panic(c) ELSE Goto(c, l) /\ UNCHANGED mce_panicked

\* mce_no_way_out(): looks no further than the first fatal event.
FatalBanks(c) == {b \in Sees[c] : status[b] >= MCE_PANIC_SEVERITY}

ValidBanks(c) == {b \in Sees[c] : status[b] # Empty /\ \A f \in FatalBanks(c) : b <= f}

MutSeenAtEntry(c) == mces_seen                  \* mutant: keeps what was seen before

\* *final = m
SeenAtEntry(c) == [mces_seen EXCEPT ![c] = 0]

\* mce_check_crashing_cpu() and do_machine_check() up to mce_start().  External:
\* an offline CPU is interrupted where it waits, and can be restarted there.
do_machine_check(c, restartable) ==
    /\ c \notin online => restartable
    /\ mc[c] # "no" /\ pc[c] = "idle" /\ c \notin hung
    /\ mc' = [mc EXCEPT ![c] = "no"]
    /\ IF c \notin online
       THEN UNCHANGED <<pc, cpuVars, mces_seen, mce_panicked, fatal>>
       ELSE LET nwo == FatalBanks(c) # {}
                local == mc[c] = "local"
            IN /\ mces_seen' = SeenAtEntry(c)
               /\ lmce' = [lmce EXCEPT ![c] = local]
               /\ order' = [order EXCEPT ![c] = -1]
               /\ no_way_out' = [no_way_out EXCEPT ![c] = nwo]
               /\ worst' = [worst EXCEPT ![c] = 0]
               /\ ripv' = [ripv EXCEPT ![c] = restartable]
               /\ valid_banks' = [valid_banks EXCEPT ![c] = ValidBanks(c)]
               /\ fatal' = (fatal \/ (nwo /\ ~local))
               /\ PanicOr(c, local /\ nwo,
                          IF local \/ monarch_timeout = 0 THEN "scan" ELSE "start")
               /\ UNCHANGED toclear
    /\ UNCHANGED <<monarch_timeout, online, hung, raised, status, syncVars, taskVars, plugged,
                   logged>>

\* mce_start(): what this CPU knows goes to global_nwo before the call-in.
AddNwo(c) ==
    /\ pc[c] = "start"
    /\ global_nwo' = global_nwo + (IF no_way_out[c] THEN 1 ELSE 0)
    /\ Goto(c, "callin")
    /\ UNCHANGED <<hwVars, status, cpuVars, mces_seen, mce_callin, mce_executing,
                   mce_missing_cpus, mce_panicked, taskVars, ghosts>>

MutNextOrder == mce_callin                      \* mutant: the old value

\* atomic_inc_return(&mce_callin)
NextOrder == mce_callin + 1

CallIn(c) ==
    /\ pc[c] = "callin"
    /\ mce_callin' = mce_callin + 1
    /\ order' = [order EXCEPT ![c] = NextOrder]
    /\ mce_missing_cpus' = mce_missing_cpus \ {c}
    /\ Goto(c, "wait_all")
    /\ UNCHANGED <<hwVars, status, lmce, no_way_out, worst, ripv, valid_banks, toclear,
                   mces_seen, mce_executing, global_nwo, mce_panicked, taskVars, ghosts>>

num_online_cpus == Cardinality(online)

MutMayScan(c) == pc[c] = "wait_turn"            \* mutant: subjects do not take turns

\* The loops of mce_start() and mce_end(): what each waits for.
MayScan(c) == pc[c] = "wait_turn" /\ mce_executing >= order[c]

AllScanned(c) == pc[c] = "wait_scans" /\ mce_executing > num_online_cpus

AllHere(c) == pc[c] = "wait_all" /\ mce_callin = num_online_cpus

Released(c) == pc[c] = "wait_monarch" /\ mce_executing = 0

Waits(c) == pc[c] \in {"wait_all", "wait_turn", "wait_scans", "wait_monarch"}

Proceeds(c) == AllHere(c) \/ MayScan(c) \/ AllScanned(c) \/ Released(c)

\* Everyone has called in.  The monarch scans at once.
StartScanning(c) ==
    /\ AllHere(c)
    /\ IF order[c] = 1
       THEN /\ mce_executing' = 1
            /\ no_way_out' = [no_way_out EXCEPT ![c] = global_nwo > 0]
            /\ Goto(c, "scan")
       ELSE Goto(c, "wait_turn") /\ UNCHANGED <<mce_executing, no_way_out>>
    /\ UNCHANGED <<hwVars, status, lmce, order, worst, ripv, valid_banks, toclear, mces_seen,
                   mce_callin, global_nwo, mce_missing_cpus, mce_panicked, taskVars, ghosts>>

TakeTurn(c) ==
    /\ MayScan(c)
    /\ no_way_out' = [no_way_out EXCEPT ![c] = global_nwo > 0]
    /\ Goto(c, "scan")
    /\ UNCHANGED <<hwVars, status, lmce, order, worst, ripv, valid_banks, toclear, mces_seen,
                   syncVars, mce_panicked, taskVars, ghosts>>

\* A CPU does not come: it hangs, or came online after the broadcast.
Holdout == \E d \in online : pc[d] = "idle" /\ (d \in hung \/ mc[d] = "no")

MutTimeUp(c) == FALSE                           \* mutant: the loop has no timeout

TimeUp(c) == ~Proceeds(c) /\ Holdout

\* mce_timed_out(): others panicked, or the time is over.
mce_timed_out(c) ==
    /\ Waits(c) /\ (mce_panicked \/ TimeUp(c))
    /\ mce_panic(c)
    /\ UNCHANGED <<hwVars, status, cpuVars, mces_seen, syncVars, taskVars, ghosts>>

\* Banks whose event is dealt with here; the others are for machine_check_poll().
Handles(c) == {b \in valid_banks[c] : status[b] # Empty /\
                  (status[b] \in {MCE_UCNA_SEVERITY, MCE_KEEP_SEVERITY} => no_way_out[c])}

__mc_scan_banks(c) ==
    /\ pc[c] = "scan"
    /\ LET sev == Max({0} \cup {status[b] : b \in Handles(c)})
       IN /\ worst' = [worst EXCEPT ![c] = sev]
          /\ mces_seen' = IF sev > 0 THEN [mces_seen EXCEPT ![c] = sev] ELSE mces_seen
    /\ toclear' = [toclear EXCEPT ![c] = Handles(c)]
    /\ logged' = [b \in Bank |-> IF b \in Handles(c) /\ status[b] > 0 /\ ~lmce[c]
                                 THEN logged[b] + 1 ELSE logged[b]]
    /\ Goto(c, "clear")
    /\ UNCHANGED <<hwVars, status, lmce, order, no_way_out, ripv, valid_banks, syncVars,
                   mce_panicked, taskVars, fatal, plugged>>

MutKeeps(c) == FALSE                            \* mutant: always clears the banks

Keeps(c) == no_way_out[c]

\* mce_clear_state(), and the second look of a local machine check.
mce_clear_state(c) ==
    /\ pc[c] = "clear"
    /\ status' = IF Keeps(c) THEN status
                 ELSE [b \in Bank |-> IF b \in toclear[c] THEN Empty ELSE status[b]]
    /\ toclear' = [toclear EXCEPT ![c] = {}]        \* not used any more
    /\ valid_banks' = [valid_banks EXCEPT ![c] = {}]
    /\ PanicOr(c, lmce[c] /\ worst[c] >= MCE_PANIC_SEVERITY, IF lmce[c] THEN "tail" ELSE "end")
    /\ UNCHANGED <<hwVars, lmce, order, no_way_out, worst, ripv, mces_seen, syncVars, taskVars,
                   ghosts>>

\* mce_end(): allow others to run, and wait.
mce_end(c) ==
    /\ pc[c] = "end"
    /\ IF order[c] < 0 THEN Goto(c, "reset") /\ UNCHANGED mce_executing
       ELSE /\ mce_executing' = mce_executing + 1
            /\ Goto(c, IF order[c] = 1 THEN "wait_scans" ELSE "wait_monarch")
    /\ UNCHANGED <<hwVars, status, cpuVars, mces_seen, mce_callin, global_nwo,
                   mce_missing_cpus, mce_panicked, taskVars, ghosts>>

GlobalWorst == Max({mces_seen[c] : c \in Cpu})

MutGradeFatal == GlobalWorst <= MCE_KEEP_SEVERITY   \* mutant: fatal events pass

\* A fatal event, or none at all.
Grade == GlobalWorst >= MCE_PANIC_SEVERITY \/ GlobalWorst <= MCE_KEEP_SEVERITY

mce_reign(c) ==
    /\ AllScanned(c)
    /\ PanicOr(c, Grade, "reset")
    /\ mces_seen' = IF Grade THEN mces_seen ELSE [d \in Cpu |-> 0]
    /\ UNCHANGED <<hwVars, status, cpuVars, syncVars, taskVars, ghosts>>

MutReset(c) ==                                  \* mutant: mce_callin is not reset
    /\ pc[c] = "reset"
    /\ global_nwo' = 0 /\ mce_missing_cpus' = Cpu
    /\ Goto(c, "release")
    /\ UNCHANGED <<hwVars, status, cpuVars, mces_seen, mce_callin, mce_executing, mce_panicked,
                   taskVars, ghosts>>

\* reset: everything but mce_executing, then mce_executing.
Reset(c) ==
    /\ pc[c] = "reset"
    /\ global_nwo' = 0 /\ mce_callin' = 0 /\ mce_missing_cpus' = Cpu
    /\ Goto(c, "release")
    /\ UNCHANGED <<hwVars, status, cpuVars, mces_seen, mce_executing, mce_panicked, taskVars,
                   ghosts>>

\* Let others run again.  Without a rendezvous only local state decides.
Release(c) ==
    /\ pc[c] = "release"
    /\ mce_executing' = 0
    /\ PanicOr(c, order[c] < 0 /\ (no_way_out[c] \/ worst[c] >= MCE_PANIC_SEVERITY), "tail")
    /\ UNCHANGED <<hwVars, status, cpuVars, mces_seen, mce_callin, global_nwo,
                   mce_missing_cpus, taskVars, ghosts>>

LeaveEnd(c) ==
    /\ Released(c)
    /\ Goto(c, "tail")
    /\ UNCHANGED <<hwVars, status, cpuVars, mces_seen, syncVars, mce_panicked, taskVars, ghosts>>

MutFirst(count) == TRUE                         \* mutant: queues the work every time

First(count) == count = 1

\* queue_task_work() for the interrupted task, on page p.
queue_task_work(c, p) ==
    LET count == mce_count[c] + 1
        panics == count > MaxConsecutive \/ (count > 1 /\ mce_page[c] # p)
    IN /\ mce_count' = [mce_count EXCEPT ![c] = count]
       /\ mce_page' = IF count = 1 THEN [mce_page EXCEPT ![c] = p] ELSE mce_page
       /\ PanicOr(c, panics, "idle")
       /\ work' = IF ~panics /\ First(count) THEN [work EXCEPT ![c] = @ + 1] ELSE work

\* The end of do_machine_check(), up to the write to MCG_STATUS.  An error in user
\* mode, or in a copy from it, is the task's; in the kernel there is a fixup, which
\* may fail.  The local variables of the handler are gone.
LeaveHandler(c, p) ==
    /\ pc[c] = "tail"
    /\ IF worst[c] # MCE_AR_SEVERITY /\ ripv[c]
       THEN Goto(c, "idle") /\ UNCHANGED <<mce_panicked, taskVars>>
       ELSE \/ queue_task_work(c, p)
            \/ \E fixed \in BOOLEAN : PanicOr(c, ~fixed, "idle") /\ UNCHANGED taskVars
    /\ lmce' = [lmce EXCEPT ![c] = FALSE] /\ order' = [order EXCEPT ![c] = -1]
    /\ no_way_out' = [no_way_out EXCEPT ![c] = FALSE] /\ worst' = [worst EXCEPT ![c] = 0]
    /\ ripv' = [ripv EXCEPT ![c] = TRUE]
    /\ UNCHANGED <<hwVars, status, valid_banks, toclear, mces_seen, syncVars, ghosts>>

\* kill_me_now(), kill_me_maybe() or kill_me_never(), on the way to user mode.
\* The code leaves mce_page as it is; it is written before it is read again.
kill_me(c) ==
    /\ pc[c] = "idle" /\ work[c] > 0
    /\ work' = [work EXCEPT ![c] = 0] /\ mce_count' = [mce_count EXCEPT ![c] = 0]
    /\ mce_page' = [mce_page EXCEPT ![c] = CHOOSE p \in Page : TRUE]
    /\ UNCHANGED <<hwVars, status, pc, cpuVars, mces_seen, syncVars, mce_panicked, ghosts>>

Handler(c) ==
    \/ \E restartable \in BOOLEAN : do_machine_check(c, restartable)
    \/ AddNwo(c) \/ CallIn(c) \/ StartScanning(c) \/ TakeTurn(c) \/ mce_timed_out(c)
    \/ __mc_scan_banks(c) \/ mce_clear_state(c) \/ mce_end(c) \/ mce_reign(c)
    \/ Reset(c) \/ Release(c) \/ LeaveEnd(c) \/ \E p \in Page : LeaveHandler(c, p)

Next ==
    \/ \E c \in Cpu : Handler(c) \/ kill_me(c) \/ Hotplug(c)
    \/ \E s \in Severity, c \in Cpu : \E b \in Sees[c] : Local(c, b, s)
    \/ \E B \in SUBSET Bank : \E events \in [B -> Severity] : Broadcast(events)

Spec == Init /\ [][Next]_vars

\* A CPU that is not hung executes its handler; the time of a wait runs out.
FairSpec == Spec /\ \A c \in Cpu : WF_vars(Handler(c))

----------------------------------------------------------------------------
(* Properties.                                                             *)

\* Every variable has its type.
TypeOK ==
    /\ monarch_timeout \in TimeoutSettings /\ online \subseteq Cpu /\ hung \subseteq Cpu
    /\ status \in [Bank -> Severity \cup {Empty}]
    /\ mc \in [Cpu -> {"no", "all", "local"}]
    /\ pc \in [Cpu -> {"idle", "start", "callin", "wait_all", "wait_turn", "scan", "clear",
                       "end", "wait_scans", "reset", "release", "wait_monarch", "tail",
                       "dead"}]
    /\ lmce \in [Cpu -> BOOLEAN] /\ order \in [Cpu -> {-1} \cup 1 .. Cardinality(Cpu)]
    /\ no_way_out \in [Cpu -> BOOLEAN] /\ ripv \in [Cpu -> BOOLEAN]
    /\ worst \in [Cpu -> Severity \cup {0}] /\ mces_seen \in [Cpu -> Severity \cup {0}]
    /\ valid_banks \in [Cpu -> SUBSET Bank] /\ toclear \in [Cpu -> SUBSET Bank]
    /\ mce_callin \in 0 .. Cardinality(Cpu) /\ mce_executing \in 0 .. Cardinality(Cpu) + 1
    /\ global_nwo \in 0 .. Cardinality(Cpu) /\ mce_missing_cpus \subseteq Cpu
    /\ mce_panicked \in BOOLEAN /\ fatal \in BOOLEAN /\ plugged \in BOOLEAN
    /\ mce_count \in [Cpu -> 0 .. MaxConsecutive + 1] /\ mce_page \in [Cpu -> Page]
    /\ work \in [Cpu -> Nat] /\ logged \in [Bank -> Nat] /\ raised \in 0 .. MaxEvents

\* The rendezvous is in use, with the CPUs that were there at the broadcast.
Rendezvous == monarch_timeout # 0 /\ ~plugged

\* "when there are any shared banks it will be only seen by one CPU before
\* cleared, avoiding duplicates": with a rendezvous an event is logged once,
\* unless there is a fatal one and everything is kept for the panic.
LoggedOnce == Rendezvous /\ ~fatal => \A b \in Bank : logged[b] <= 1

\* Once a CPU of the rendezvous saw a fatal event no CPU gets past the monarch:
\* none returns to what it was doing, whoever saw the event.
FatalStops ==
    Rendezvous /\ fatal => \A c \in Cpu : pc[c] \notin {"reset", "release", "tail"}

\* "This decides if we keep the events around or clear them": after a fatal event
\* no CPU of the rendezvous clears a bank, its own or a shared one.
EvidenceKept ==
    [][Rendezvous /\ fatal => \A b \in Bank : status[b] # Empty => status'[b] = status[b]]_vars

\* The monarch grades when all CPUs have scanned, and lets them go only if one of
\* them has an event for it: a machine check from nowhere panics.  With all CPUs
\* online: an offline one keeps in mces_seen what a local machine check left there.
GradedOnEvidence ==
    [][\A c \in Cpu : Rendezvous /\ online = Cpu /\ pc[c] = "wait_scans" /\ pc'[c] = "reset" =>
          /\ \A d \in Cpu : pc[d] \in {"wait_scans", "wait_monarch"}
          /\ \E d \in Cpu : worst[d] > MCE_KEEP_SEVERITY]_vars

\* Between two rendezvous nothing is left of the first: a CPU that calls in early
\* for the next one finds the counters reset.
CleanBetween ==
    ~mce_panicked /\ (\A c \in Cpu : pc[c] \in {"idle", "start", "tail"} \/ lmce[c]) =>
        mce_callin = 0 /\ mce_executing = 0 /\ global_nwo = 0 /\ mce_missing_cpus = Cpu

\* The callback of a task is queued at most once until it has run, and a task
\* with an error to answer for has it queued.
WorkOnce == \A c \in Cpu : work[c] = (IF mce_count[c] > 0 THEN 1 ELSE 0) \/ pc[c] = "dead"

\* A CPU that takes a machine check returns or panics, although CPUs may hang, go
\* offline or come online meanwhile.
HandlerEnds == \A c \in Cpu : pc[c] # "idle" ~> pc[c] \in {"idle", "dead"}
============================================================================
