-------------------------- MODULE TlbSwitchProofs --------------------------
(***************************************************************************)
(* Theorems about switch_mm_irqs_off() and lazy TLB mode, on top of the    *)
(* types: at every step of a switch, what CR3 holds, what loaded_mm says   *)
(* and which mm_cpumask the CPU is in.                                     *)
(***************************************************************************)
EXTENDS TlbProofs

\* The mm whose mask the CPU is in: none between the two mask updates.
MaskedMm(c) ==
    IF sw[c].pc \in {"none", "same", "clear"} THEN loaded_mm[c]
    ELSE IF sw[c].pc = "set" THEN NoMm ELSE sw[c].next

\* What a CPU has loaded, or is about to load, has not been freed.
LoadedLive ==
    \A c \in Cpu, m \in Mm : m \in {loaded_mm[c], sw[c].next} => mm_ctx_id[m] # 0

MaskMatches == \A c \in Cpu, m \in Mm : c \in mm_cpumask[m] <=> m = MaskedMm(c)

\* CR3, loaded_mm and the frame of switch_mm_irqs_off() at each of its steps.
Cr3Matches ==
    \A c \in Cpu :
        /\ loaded_mm[c] # Switching => cr3_mm[c] = loaded_mm[c]
        /\ sw[c].pc \in {"none", "same", "clear", "set", "read"} =>
              loaded_mm[c] # Switching /\ cr3_asid[c] = loaded_mm_asid[c]
        /\ sw[c].pc \in {"same", "cr3", "done"} => loaded_mm[c] \in {Switching, sw[c].next}
        /\ sw[c].pc = "done" => cr3_mm[c] = sw[c].next /\ cr3_asid[c] = sw[c].asid

LazyMatches ==
    \A c \in Cpu : is_lazy[c] => sw[c].pc = "none" /\ loaded_mm[c] # InitMm

SwitchInv == LoadedLive /\ MaskMatches /\ Cr3Matches /\ LazyMatches

\* All that SwitchInv talks about.
switchVars == <<mm_ctx_id, mm_cpumask, loadVars, cr3Vars, is_lazy, sw>>

----------------------------------------------------------------------------

\* A step that leaves those variables alone keeps the invariant.
LEMMA FrameSwitch ==
    ASSUME SwitchInv, UNCHANGED switchVars
    PROVE  SwitchInv'
<1>1. UNCHANGED <<mm_ctx_id, mm_cpumask, loaded_mm, loaded_mm_asid, cr3_mm, cr3_asid, is_lazy, sw>>
  BY DEF switchVars, loadVars, cr3Vars
<1>2. LoadedLive'
  BY <1>1 DEF SwitchInv, LoadedLive
<1>3. MaskMatches'
  BY <1>1 DEF SwitchInv, MaskMatches, MaskedMm
<1>4. Cr3Matches'
  BY <1>1 DEF SwitchInv, Cr3Matches
<1>5. LazyMatches'
  BY <1>1 DEF SwitchInv, LazyMatches
<1>6. QED
  BY <1>2, <1>3, <1>4, <1>5 DEF SwitchInv

\* The entry of switch_mm_irqs_off(), for an mm that is not freed meanwhile.
LEMMA StartSwitchInv ==
    ASSUME TypeInv, SwitchInv, NEW c \in Cpu, NEW m \in Mm \cup {InitMm},
           sw[c].pc = "none", m \in Mm => mm_ctx_id[m] # 0,
           StartSwitch(c, m),
           UNCHANGED <<mm_ctx_id, loaded_mm, loaded_mm_asid, cr3_mm, cr3_asid>>
    PROVE  SwitchInv'
<1>1. /\ sw \in [Cpu -> SwFrame] /\ is_lazy \in [Cpu -> BOOLEAN]
      /\ mm_cpumask \in [Mm -> SUBSET Cpu]
  BY DEF TypeInv, TypeOK, TaskTypes, MmTypes
<1>2. \/ sw' = sw /\ loaded_mm[c] = m
      \/ sw' = [sw EXCEPT ![c].pc = "same", ![c].next = m] /\ loaded_mm[c] = m
      \/ sw' = [sw EXCEPT ![c].pc = "clear", ![c].next = m]
  BY DEF StartSwitch
<1>3. sw'[c] \in SwFrame /\ sw'[c].pc \in {"none", "same", "clear"} /\ sw'[c].next \in {sw[c].next, m}
  BY <1>1, <1>2 DEF SwFrame
<1>4. \A x \in Cpu : x # c => sw'[x] = sw[x]
  BY <1>1, <1>2
<1>5. is_lazy' = [is_lazy EXCEPT ![c] = FALSE]
  BY DEF StartSwitch
<1>6. mm_cpumask' = mm_cpumask
  <2>1. CASE loaded_mm[c] = m /\ m # InitMm
    <3>1. c \in mm_cpumask[m]
      BY <2>1 DEF SwitchInv, MaskMatches, MaskedMm
    <3>2. mm_cpumask' = [mm_cpumask EXCEPT ![m] = mm_cpumask[m] \cup {c}]
      BY <2>1 DEF StartSwitch
    <3>3. mm_cpumask[m] \cup {c} = mm_cpumask[m]
      BY <3>1
    <3>4. QED
      BY <1>1, <3>2, <3>3
  <2>2. QED
    BY <2>1 DEF StartSwitch
<1>7. LoadedLive'
  BY <1>3, <1>4 DEF SwitchInv, LoadedLive
<1>8. MaskMatches'
  BY <1>3, <1>4, <1>6 DEF SwitchInv, MaskMatches, MaskedMm
<1>9. Cr3Matches'
  <2>1. sw'[c].pc = "same" => loaded_mm[c] = sw'[c].next
    BY <1>1, <1>2 DEF SwFrame
  <2>2. QED
    BY <1>3, <1>4, <2>1 DEF SwitchInv, Cr3Matches
<1>10. LazyMatches'
  BY <1>1, <1>4, <1>5 DEF SwitchInv, LazyMatches
<1>11. QED
  BY <1>7, <1>8, <1>9, <1>10 DEF SwitchInv

\* flush_tlb_func() up to the read of tlb_gen: at most the switch of a lazy CPU
\* to init_mm begins.
LEMMA FlushFuncInv ==
    ASSUME TypeInv, SwitchInv, NEW c \in Cpu, NEW i \in Cpu, sw[c].pc = "none",
           flush_tlb_func(c, i),
           UNCHANGED <<mm_ctx_id, loaded_mm, loaded_mm_asid, cr3_mm, cr3_asid>>
    PROVE  SwitchInv'
<1>1. CASE StartSwitch(c, InitMm)
  BY <1>1, StartSwitchInv, TlbAssumption
<1>2. CASE UNCHANGED <<sw, is_lazy, mm_cpumask>>
  BY <1>2, FrameSwitch DEF switchVars, loadVars, cr3Vars
<1>3. QED
  BY <1>1, <1>2 DEF flush_tlb_func

----------------------------------------------------------------------------
(* The steps of switch_mm_irqs_off().                                      *)

\* Leaving lazy mode: done, or on to a reload of the same mm and slot.
LEMMA SwSameInv ==
    ASSUME TypeInv, SwitchInv, NEW c \in Cpu, SwSame(c)
    PROVE  SwitchInv'
<1>1. sw \in [Cpu -> SwFrame]
  BY DEF TypeInv, TypeOK, TaskTypes
<1>2. /\ \A x \in Cpu : x # c => sw'[x] = sw[x]
      /\ \/ sw'[c] = NoSw
         \/ sw'[c].pc = "cr3" /\ sw'[c].next = sw[c].next
  BY <1>1 DEF SwSame, SwFrame
<1>3. UNCHANGED <<mm_ctx_id, mm_cpumask, loaded_mm, loaded_mm_asid, cr3_mm, cr3_asid, is_lazy>>
  BY DEF SwSame, tlbVars, mmVars, loadVars, hwVars, cr3Vars
<1>4. sw[c].pc = "same"
  BY DEF SwSame
<1>5. loaded_mm[c] = sw[c].next /\ loaded_mm[c] # Switching
  BY <1>4 DEF SwitchInv, Cr3Matches
<1>6. LoadedLive'
  BY <1>2, <1>3, TlbAssumption DEF SwitchInv, LoadedLive, NoSw
<1>7. MaskMatches'
  BY <1>2, <1>3, <1>4, <1>5 DEF SwitchInv, MaskMatches, MaskedMm, NoSw
<1>8. Cr3Matches'
  BY <1>2, <1>3, <1>4, <1>5 DEF SwitchInv, Cr3Matches, NoSw
<1>9. LazyMatches'
  BY <1>2, <1>3, <1>4 DEF SwitchInv, LazyMatches
<1>10. QED
  BY <1>6, <1>7, <1>8, <1>9 DEF SwitchInv

\* The CPU leaves the mask of the mm it has loaded.
LEMMA SwClearInv ==
    ASSUME TypeInv, SwitchInv, NEW c \in Cpu, SwClear(c)
    PROVE  SwitchInv'
<1>1. sw \in [Cpu -> SwFrame] /\ mm_cpumask \in [Mm -> SUBSET Cpu]
  BY DEF TypeInv, TypeOK, TaskTypes, MmTypes
<1>2. /\ \A x \in Cpu : x # c => sw'[x] = sw[x]
      /\ sw'[c].pc = "set" /\ sw'[c].next = sw[c].next
  BY <1>1 DEF SwClear, SwFrame
<1>3. UNCHANGED <<mm_ctx_id, loaded_mm, loaded_mm_asid, cr3_mm, cr3_asid, is_lazy>>
  BY DEF SwClear, mmVars, loadVars, hwVars, cr3Vars
<1>4. sw[c].pc = "clear"
  BY DEF SwClear
<1>5. \A x \in Cpu, m \in Mm :
         x \in mm_cpumask'[m] <=> x \in mm_cpumask[m] /\ ~(x = c /\ m = loaded_mm[c])
  BY <1>1, TlbAssumption DEF SwClear
<1>6. LoadedLive'
  BY <1>2, <1>3 DEF SwitchInv, LoadedLive
<1>7. MaskMatches'
  BY <1>2, <1>3, <1>4, <1>5, TlbAssumption DEF SwitchInv, MaskMatches, MaskedMm
<1>8. Cr3Matches'
  BY <1>2, <1>3, <1>4 DEF SwitchInv, Cr3Matches
<1>9. LazyMatches'
  BY <1>2, <1>3, <1>4 DEF SwitchInv, LazyMatches
<1>10. QED
  BY <1>6, <1>7, <1>8, <1>9 DEF SwitchInv

\* The CPU enters the mask of the mm it is about to load.
LEMMA SwSetInv ==
    ASSUME TypeInv, SwitchInv, NEW c \in Cpu, SwSet(c)
    PROVE  SwitchInv'
<1>1. sw \in [Cpu -> SwFrame] /\ mm_cpumask \in [Mm -> SUBSET Cpu]
  BY DEF TypeInv, TypeOK, TaskTypes, MmTypes
<1>2. /\ \A x \in Cpu : x # c => sw'[x] = sw[x]
      /\ sw'[c].pc = "read" /\ sw'[c].next = sw[c].next
  BY <1>1 DEF SwSet, SwFrame
<1>3. UNCHANGED <<mm_ctx_id, loaded_mm, loaded_mm_asid, cr3_mm, cr3_asid, is_lazy>>
  BY DEF SwSet, mmVars, loadVars, hwVars, cr3Vars
<1>4. sw[c].pc = "set"
  BY DEF SwSet
<1>5. \A x \in Cpu, m \in Mm :
         x \in mm_cpumask'[m] <=> x \in mm_cpumask[m] \/ (x = c /\ m = sw[c].next)
  BY <1>1, TlbAssumption DEF SwSet
<1>6. LoadedLive'
  BY <1>2, <1>3 DEF SwitchInv, LoadedLive
<1>7. MaskMatches'
  BY <1>2, <1>3, <1>4, <1>5, TlbAssumption DEF SwitchInv, MaskMatches, MaskedMm
<1>8. Cr3Matches'
  BY <1>2, <1>3, <1>4 DEF SwitchInv, Cr3Matches
<1>9. LazyMatches'
  BY <1>2, <1>3, <1>4 DEF SwitchInv, LazyMatches
<1>10. QED
  BY <1>6, <1>7, <1>8, <1>9 DEF SwitchInv

\* loaded_mm becomes LOADED_MM_SWITCHING before CR3 is written.
LEMMA SwReadInv ==
    ASSUME TypeInv, SwitchInv, NEW c \in Cpu, SwRead(c)
    PROVE  SwitchInv'
<1>1. sw \in [Cpu -> SwFrame] /\ loaded_mm \in [Cpu -> Mm \cup {InitMm, Switching}]
  BY DEF TypeInv, TypeOK, TaskTypes, SlotTypes
<1>2. /\ \A x \in Cpu : x # c => sw'[x] = sw[x]
      /\ sw'[c].pc = "cr3" /\ sw'[c].next = sw[c].next
  BY <1>1 DEF SwRead, SwFrame
<1>3. UNCHANGED <<mm_ctx_id, mm_cpumask, loaded_mm_asid, cr3_mm, cr3_asid, is_lazy>>
  BY DEF SwRead, mmVars, hwVars, cr3Vars
<1>4. sw[c].pc = "read"
  BY DEF SwRead
<1>5. loaded_mm'[c] = Switching /\ \A x \in Cpu : x # c => loaded_mm'[x] = loaded_mm[x]
  BY <1>1 DEF SwRead, LoadedDuringSwitch
<1>6. LoadedLive'
  BY <1>2, <1>3, <1>5, TlbAssumption DEF SwitchInv, LoadedLive
<1>7. MaskMatches'
  BY <1>2, <1>3, <1>4, <1>5 DEF SwitchInv, MaskMatches, MaskedMm
<1>8. Cr3Matches'
  BY <1>2, <1>3, <1>4, <1>5 DEF SwitchInv, Cr3Matches
<1>9. LazyMatches'
  BY <1>2, <1>3, <1>4, <1>5 DEF SwitchInv, LazyMatches
<1>10. QED
  BY <1>6, <1>7, <1>8, <1>9 DEF SwitchInv

\* CR3 gets the mm and the slot chosen.
LEMMA SwCr3Inv ==
    ASSUME TypeInv, SwitchInv, NEW c \in Cpu, SwCr3(c)
    PROVE  SwitchInv'
<1>1. /\ sw \in [Cpu -> SwFrame]
      /\ cr3_mm \in [Cpu -> Mm \cup {InitMm}] /\ cr3_asid \in [Cpu -> Asid]
  BY DEF TypeInv, TypeOK, TaskTypes, HwTypes
<1>2. /\ \A x \in Cpu : x # c => sw'[x] = sw[x]
      /\ sw'[c].pc = "done" /\ sw'[c].next = sw[c].next /\ sw'[c].asid = sw[c].asid
  BY <1>1 DEF SwCr3, SwFrame
<1>3. UNCHANGED <<mm_ctx_id, mm_cpumask, loaded_mm, loaded_mm_asid, is_lazy>>
  BY DEF SwCr3, mmVars, loadVars
<1>4. sw[c].pc = "cr3"
  BY DEF SwCr3
<1>5. /\ cr3_mm'[c] = sw[c].next /\ cr3_asid'[c] = sw[c].asid
      /\ \A x \in Cpu : x # c => cr3_mm'[x] = cr3_mm[x] /\ cr3_asid'[x] = cr3_asid[x]
  BY <1>1 DEF SwCr3, load_new_mm_cr3
<1>6. LoadedLive'
  BY <1>2, <1>3 DEF SwitchInv, LoadedLive
<1>7. MaskMatches'
  BY <1>2, <1>3, <1>4 DEF SwitchInv, MaskMatches, MaskedMm
<1>8. Cr3Matches'
  BY <1>2, <1>3, <1>4, <1>5 DEF SwitchInv, Cr3Matches
<1>9. LazyMatches'
  BY <1>2, <1>3, <1>4 DEF SwitchInv, LazyMatches
<1>10. QED
  BY <1>6, <1>7, <1>8, <1>9 DEF SwitchInv

\* loaded_mm follows CR3.
LEMMA SwDoneInv ==
    ASSUME TypeInv, SwitchInv, NEW c \in Cpu, SwDone(c)
    PROVE  SwitchInv'
<1>1. /\ sw \in [Cpu -> SwFrame] /\ loaded_mm \in [Cpu -> Mm \cup {InitMm, Switching}]
      /\ loaded_mm_asid \in [Cpu -> Asid]
  BY DEF TypeInv, TypeOK, TaskTypes, SlotTypes
<1>2. sw'[c] = NoSw /\ \A x \in Cpu : x # c => sw'[x] = sw[x]
  BY <1>1 DEF SwDone
<1>3. UNCHANGED <<mm_ctx_id, mm_cpumask, cr3_mm, cr3_asid, is_lazy>>
  BY DEF SwDone, mmVars, hwVars, cr3Vars
<1>4. sw[c].pc = "done" /\ sw[c].next \in Mm \cup {InitMm}
  BY <1>1 DEF SwDone, SwFrame
<1>5. /\ loaded_mm'[c] = sw[c].next /\ loaded_mm_asid'[c] = sw[c].asid
      /\ \A x \in Cpu : x # c => loaded_mm'[x] = loaded_mm[x]
                                 /\ loaded_mm_asid'[x] = loaded_mm_asid[x]
  BY <1>1 DEF SwDone
<1>6. LoadedLive'
  BY <1>2, <1>3, <1>5, TlbAssumption DEF SwitchInv, LoadedLive, NoSw
<1>7. MaskMatches'
  BY <1>2, <1>3, <1>4, <1>5 DEF SwitchInv, MaskMatches, MaskedMm, NoSw
<1>8. Cr3Matches'
  BY <1>2, <1>3, <1>4, <1>5, TlbAssumption DEF SwitchInv, Cr3Matches, NoSw
<1>9. LazyMatches'
  BY <1>2, <1>3, <1>4, <1>5 DEF SwitchInv, LazyMatches
<1>10. QED
  BY <1>6, <1>7, <1>8, <1>9 DEF SwitchInv

----------------------------------------------------------------------------
(* Lazy mode, hotplug and the life of an mm.                               *)

\* enter_lazy_tlb() leaves a CPU on init_mm alone.
LEMMA EnterLazyInv ==
    ASSUME TypeInv, SwitchInv, NEW c \in Cpu, enter_lazy_tlb(c)
    PROVE  SwitchInv'
<1>1. is_lazy \in [Cpu -> BOOLEAN]
  BY DEF TypeInv, TypeOK, TaskTypes
<1>2. UNCHANGED <<mm_ctx_id, mm_cpumask, loaded_mm, loaded_mm_asid, cr3_mm, cr3_asid, sw>>
  BY DEF enter_lazy_tlb, mmVars, loadVars, hwVars, cr3Vars
<1>3. LoadedLive'
  BY <1>2 DEF SwitchInv, LoadedLive
<1>4. MaskMatches'
  BY <1>2 DEF SwitchInv, MaskMatches, MaskedMm
<1>5. Cr3Matches'
  BY <1>2 DEF SwitchInv, Cr3Matches
<1>6. LazyMatches'
  BY <1>1, <1>2 DEF SwitchInv, LazyMatches, enter_lazy_tlb, CanBeLazy, InTask
<1>7. QED
  BY <1>3, <1>4, <1>5, <1>6 DEF SwitchInv

\* initialize_tlbstate_and_flush() stays on init_mm, with slot 0 in CR3.
LEMMA InitializeInv ==
    ASSUME TypeInv, SwitchInv, NEW c \in Cpu, initialize_tlbstate_and_flush(c)
    PROVE  SwitchInv'
<1>1. loaded_mm_asid \in [Cpu -> Asid] /\ cr3_asid \in [Cpu -> Asid]
  BY DEF TypeInv, TypeOK, SlotTypes, HwTypes
<1>2. UNCHANGED <<mm_ctx_id, mm_cpumask, loaded_mm, cr3_mm, is_lazy, sw>>
  BY DEF initialize_tlbstate_and_flush, mmVars
<1>3. /\ loaded_mm_asid' = [loaded_mm_asid EXCEPT ![c] = 0]
      /\ cr3_asid' = [cr3_asid EXCEPT ![c] = 0] /\ sw[c].pc = "none"
  BY DEF initialize_tlbstate_and_flush, InTask
<1>4. LoadedLive'
  BY <1>2 DEF SwitchInv, LoadedLive
<1>5. MaskMatches'
  BY <1>2 DEF SwitchInv, MaskMatches, MaskedMm
<1>6. Cr3Matches'
  BY <1>1, <1>2, <1>3 DEF SwitchInv, Cr3Matches
<1>7. LazyMatches'
  BY <1>2 DEF SwitchInv, LazyMatches
<1>8. QED
  BY <1>4, <1>5, <1>6, <1>7 DEF SwitchInv

\* init_new_context() empties the mask of an mm that no CPU has loaded.
LEMMA InitNewContextInv ==
    ASSUME TypeInv, SwitchInv, NEW m \in Mm, InitNewContext(m)
    PROVE  SwitchInv'
<1>1. /\ mm_cpumask \in [Mm -> SUBSET Cpu] /\ mm_ctx_id \in [Mm -> CtxId]
      /\ last_mm_ctx_id \in Nat
  BY DEF TypeInv, TypeOK, MmTypes
<1>2. UNCHANGED <<loaded_mm, loaded_mm_asid, cr3_mm, cr3_asid, is_lazy, sw>>
  BY DEF InitNewContext, loadVars, hwVars, cr3Vars
<1>3. /\ mm_cpumask' = [mm_cpumask EXCEPT ![m] = {}]
      /\ mm_ctx_id[m] = 0
      /\ mm_ctx_id' = [mm_ctx_id EXCEPT ![m] = last_mm_ctx_id + 1]
  BY DEF InitNewContext, NewCtxId
<1>4. last_mm_ctx_id + 1 # 0
  BY <1>1
<1>5. LoadedLive'
  BY <1>1, <1>2, <1>3, <1>4 DEF SwitchInv, LoadedLive
<1>6. MaskMatches'
  <2>1. \A x \in Cpu : m # MaskedMm(x)
    BY <1>3, TlbAssumption DEF SwitchInv, LoadedLive, MaskedMm
  <2>2. \A x \in Cpu : MaskedMm(x)' = MaskedMm(x)
    BY <1>2 DEF MaskedMm
  <2>3. QED
    BY <1>1, <1>3, <2>1, <2>2 DEF SwitchInv, MaskMatches
<1>7. Cr3Matches'
  BY <1>2 DEF SwitchInv, Cr3Matches
<1>8. LazyMatches'
  BY <1>2 DEF SwitchInv, LazyMatches
<1>9. QED
  BY <1>5, <1>6, <1>7, <1>8 DEF SwitchInv

\* The last reference to an mm goes only when no CPU has it loaded.
LEMMA FreeMmInv ==
    ASSUME TypeInv, SwitchInv, NEW m \in Mm, FreeMm(m)
    PROVE  SwitchInv'
<1>1. mm_ctx_id \in [Mm -> CtxId]
  BY DEF TypeInv, TypeOK, MmTypes
<1>2. UNCHANGED <<mm_cpumask, loaded_mm, loaded_mm_asid, cr3_mm, cr3_asid, is_lazy, sw>>
  BY DEF FreeMm, loadVars, hwVars, cr3Vars
<1>3. LoadedLive'
  BY <1>1, <1>2 DEF SwitchInv, LoadedLive, FreeMm
<1>4. MaskMatches'
  BY <1>2 DEF SwitchInv, MaskMatches, MaskedMm
<1>5. Cr3Matches'
  BY <1>2 DEF SwitchInv, Cr3Matches
<1>6. LazyMatches'
  BY <1>2 DEF SwitchInv, LazyMatches
<1>7. QED
  BY <1>3, <1>4, <1>5, <1>6 DEF SwitchInv

----------------------------------------------------------------------------
(* The callers of switch_mm_irqs_off() and flush_tlb_func().               *)

\* context_switch() to a user task, leave_mm() and the three places that run a
\* flush request keep the invariant.
LEMMA CallersInv ==
    ASSUME TypeInv, SwitchInv, NEW c \in Cpu,
           \/ \E m \in Mm : SwitchToUser(c, m)
           \/ leave_mm(c)
           \/ \E i \in Cpu : HandleIpi(c, i)
           \/ FlushHere(c)
           \/ FlushLocal(c)
    PROVE  SwitchInv'
<1>1. CASE \E m \in Mm : SwitchToUser(c, m)
  <2>1. PICK m \in Mm : SwitchToUser(c, m)
    BY <1>1
  <2>2. /\ sw[c].pc = "none" /\ mm_ctx_id[m] # 0 /\ StartSwitch(c, m)
        /\ UNCHANGED <<mm_ctx_id, loaded_mm, loaded_mm_asid, cr3_mm, cr3_asid>>
    BY <2>1 DEF SwitchToUser, InTask, mmVars, loadVars, hwVars, cr3Vars
  <2>3. QED
    BY <2>2, StartSwitchInv
<1>2. CASE leave_mm(c)
  <2>1. /\ sw[c].pc = "none" /\ StartSwitch(c, InitMm)
        /\ UNCHANGED <<mm_ctx_id, loaded_mm, loaded_mm_asid, cr3_mm, cr3_asid>>
    BY <1>2 DEF leave_mm, InTask, mmVars, loadVars, hwVars, cr3Vars
  <2>2. QED
    BY <2>1, StartSwitchInv, TlbAssumption
<1>3. CASE \E i \in Cpu : HandleIpi(c, i)
  <2>1. PICK i \in Cpu : HandleIpi(c, i)
    BY <1>3
  <2>2. /\ sw[c].pc = "none" /\ flush_tlb_func(c, i)
        /\ UNCHANGED <<mm_ctx_id, loaded_mm, loaded_mm_asid, cr3_mm, cr3_asid>>
    BY <2>1 DEF HandleIpi, IrqsOn, InTask, mmVars, loadVars, hwVars, cr3Vars
  <2>3. QED
    BY <2>2, FlushFuncInv
<1>4. CASE FlushHere(c) \/ FlushLocal(c)
  <2>1. /\ sw[c].pc = "none"
        /\ flush_tlb_func(c, c) \/ UNCHANGED <<sw, is_lazy, mm_cpumask>>
        /\ UNCHANGED <<mm_ctx_id, loaded_mm, loaded_mm_asid, cr3_mm, cr3_asid>>
    BY <1>4 DEF FlushHere, FlushLocal, InTask, mmVars, loadVars, hwVars, cr3Vars
  <2>2. CASE flush_tlb_func(c, c)
    BY <2>1, <2>2, FlushFuncInv
  <2>3. CASE UNCHANGED <<sw, is_lazy, mm_cpumask>>
    BY <2>1, <2>3, FrameSwitch DEF switchVars, loadVars, cr3Vars
  <2>4. QED
    BY <2>1, <2>2, <2>3
<1>5. QED
  BY <1>1, <1>2, <1>3, <1>4

\* Every other step leaves the variables alone.
LEMMA OthersInv ==
    ASSUME SwitchInv, NEW c \in Cpu,
           \/ FuncLazyDone(c) \/ FuncInvalidate(c) \/ FuncSetGen(c) \/ SwitchTo(c)
           \/ BatchOr(c) \/ FlushMulti(c) \/ FlushCopy(c) \/ \E d \in Cpu : FlushSend(c, d)
           \/ FlushReturn(c) \/ SwitchToUserCr3(c) \/ SwitchToKernelCr3(c)
           \/ \E m \in Mm, R \in SUBSET Page, freed \in BOOLEAN :
                 flush_tlb_mm_range(c, m, R, freed)
           \/ \E m \in Mm, p \in Page : arch_tlbbatch_add_pending(c, m, p)
           \/ arch_tlbbatch_flush(c) \/ do_kernel_range_flush(c) \/ do_flush_tlb_all(c)
           \/ \E p \in Page : TlbFill(c, p)
           \/ \E m \in Mm, p \in Page : ChangePte(m, p)
    PROVE  SwitchInv'
<1>1. CASE \/ FuncLazyDone(c) \/ SwitchTo(c) \/ BatchOr(c) \/ FlushMulti(c) \/ FlushCopy(c)
           \/ (\E d \in Cpu : FlushSend(c, d)) \/ FlushReturn(c) \/ arch_tlbbatch_flush(c)
  <2>1. UNCHANGED <<tlbVars, sw>>
    BY <1>1 DEF FuncLazyDone, SwitchTo, BatchOr, FlushMulti, FlushCopy, FlushSend,
       FlushReturn, arch_tlbbatch_flush
  <2>2. QED
    BY <2>1, FrameSwitch DEF switchVars, tlbVars, mmVars, loadVars, hwVars
<1>2. CASE \/ FuncInvalidate(c) \/ FuncSetGen(c) \/ SwitchToUserCr3(c) \/ SwitchToKernelCr3(c)
           \/ do_kernel_range_flush(c) \/ do_flush_tlb_all(c) \/ \E p \in Page : TlbFill(c, p)
  <2>1. UNCHANGED switchVars
    BY <1>2 DEF FuncInvalidate, FuncSetGen, SwitchToUserCr3, SwitchToKernelCr3,
       do_kernel_range_flush, do_flush_tlb_all, TlbFill, switchVars, mmVars, hwVars
  <2>2. QED
    BY <2>1, FrameSwitch
<1>3. CASE \/ \E m \in Mm, R \in SUBSET Page, freed \in BOOLEAN :
                 flush_tlb_mm_range(c, m, R, freed)
           \/ \E m \in Mm, p \in Page : arch_tlbbatch_add_pending(c, m, p)
           \/ \E m \in Mm, p \in Page : ChangePte(m, p)
  <2>1. UNCHANGED switchVars
    BY <1>3 DEF flush_tlb_mm_range, arch_tlbbatch_add_pending, IncTlbGen, ChangePte,
       switchVars, hwVars
  <2>2. QED
    BY <2>1, FrameSwitch
<1>4. QED
  BY <1>1, <1>2, <1>3

----------------------------------------------------------------------------

\* The CPUs start on init_mm and in no mask.
LEMMA InitSwitch == Init => SwitchInv
  BY TlbAssumption DEF Init, SwitchInv, LoadedLive, MaskMatches, MaskedMm, Cr3Matches,
     LazyMatches, NoSw

\* SwitchInv is inductive relative to the types.
LEMMA NextSwitch == TypeInv /\ SwitchInv /\ [Next]_vars => SwitchInv'
<1> SUFFICES ASSUME TypeInv, SwitchInv, [Next]_vars PROVE SwitchInv'
  OBVIOUS
<1>1. ASSUME NEW c \in Cpu, Progress(c) PROVE SwitchInv'
  BY <1>1, SwSameInv, SwClearInv, SwSetInv, SwReadInv, SwCr3Inv, SwDoneInv, CallersInv,
     OthersInv DEF Progress
<1>2. ASSUME NEW c \in Cpu, Begin(c) PROVE SwitchInv'
  <2>1. CASE \E m \in Mm, R \in SUBSET Page \ {{}}, freed \in FreedTables :
                flush_tlb_mm_range(c, m, R, freed)
    <3>1. \E m \in Mm, R \in SUBSET Page, freed \in BOOLEAN :
                flush_tlb_mm_range(c, m, R, freed)
      BY <2>1, TlbAssumption
    <3>2. QED
      BY <3>1, OthersInv
  <2>2. QED
    BY <1>2, <2>1, EnterLazyInv, InitializeInv, CallersInv, OthersInv DEF Begin
<1>3. CASE \E c \in Cpu, p \in Page : TlbFill(c, p)
  BY <1>3, OthersInv
<1>4. CASE \E m \in Mm, p \in Page : ChangePte(m, p)
  <2>1. UNCHANGED switchVars
    BY <1>4 DEF ChangePte, switchVars, hwVars
  <2>2. QED
    BY <2>1, FrameSwitch
<1>5. CASE \E m \in Mm : InitNewContext(m) \/ FreeMm(m)
  BY <1>5, InitNewContextInv, FreeMmInv
<1>6. CASE UNCHANGED vars
  <2>1. UNCHANGED switchVars
    BY <1>6 DEF vars, tlbVars, mmVars, hwVars, switchVars
  <2>2. QED
    BY <2>1, FrameSwitch
<1>7. QED
  BY <1>1, <1>2, <1>3, <1>4, <1>5, <1>6 DEF Next

\* Both invariants hold in every behaviour.
LEMMA AlwaysSwitchInv == Spec => [](TypeInv /\ SwitchInv)
<1>1. Init => TypeInv /\ SwitchInv
  BY InitType, InitSwitch
<1>2. (TypeInv /\ SwitchInv) /\ [Next]_vars => (TypeInv /\ SwitchInv)'
  BY NextType, NextSwitch
<1>3. QED
  BY <1>1, <1>2, PTL DEF Spec

\* The comment at tlb_state_shared.is_lazy: whenever interrupts are enabled a CPU
\* is in one of the three documented states, in the mask of exactly the mm it has
\* loaded, and CR3 holds that mm and its slot.
THEOREM ThreeStatesHold == Spec => []ThreeStates
<1>1. TypeInv /\ SwitchInv => ThreeStates
  <2> SUFFICES ASSUME TypeInv, SwitchInv, NEW c \in Cpu, IrqsOn(c)
               PROVE  /\ \A m \in Mm : c \in mm_cpumask[m] <=> loaded_mm[c] = m
                      /\ loaded_mm[c] \in Mm \/ (loaded_mm[c] = InitMm /\ ~is_lazy[c])
                      /\ cr3_mm[c] = loaded_mm[c] /\ cr3_asid[c] = loaded_mm_asid[c]
    BY DEF ThreeStates
  <2>1. sw[c].pc = "none"
    BY DEF IrqsOn, InTask
  <2>2. \A m \in Mm : c \in mm_cpumask[m] <=> loaded_mm[c] = m
    BY <2>1 DEF SwitchInv, MaskMatches, MaskedMm
  <2>3. cr3_mm[c] = loaded_mm[c] /\ cr3_asid[c] = loaded_mm_asid[c] /\ loaded_mm[c] # Switching
    BY <2>1 DEF SwitchInv, Cr3Matches
  <2>4. loaded_mm[c] \in Mm \/ (loaded_mm[c] = InitMm /\ ~is_lazy[c])
    BY <2>3 DEF TypeInv, TypeOK, SlotTypes, SwitchInv, LazyMatches
  <2>5. QED
    BY <2>2, <2>3, <2>4
<1>2. QED
  BY <1>1, AlwaysSwitchInv, PTL

\* At whatever instruction an NMI arrives, also in the middle of a switch: if
\* nmi_uaccess_okay() finds loaded_mm equal to current->mm then CR3 holds it.
THEOREM NmiUaccessHolds == Spec => []NmiUaccessOkay
<1>1. TypeInv /\ SwitchInv => NmiUaccessOkay
  BY TlbAssumption DEF SwitchInv, Cr3Matches, NmiUaccessOkay
<1>2. QED
  BY <1>1, AlwaysSwitchInv, PTL
============================================================================
