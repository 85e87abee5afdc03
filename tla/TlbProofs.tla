----------------------------- MODULE TlbProofs -----------------------------
(***************************************************************************)
(* Theorems about Tlb, for any number of CPUs, address spaces, pages and   *)
(* ASIDs, and whatever features the processor has.                         *)
(***************************************************************************)
EXTENDS Tlb, TLAPS, WellFoundedInduction

(***************************************************************************)
(* Types.  TypeOK alone is not inductive: flush_tlb_func() indexes         *)
(* tlb_gen[] with loaded_mm, and BatchOr() indexes mm_cpumask[] with the   *)
(* mm of the request.                                                      *)
(***************************************************************************)
SwitchingOnlyInSwitch ==
    \A c \in Cpu : loaded_mm[c] = Switching => sw[c].pc \in {"cr3", "done"}

BatchedMmKnown == \A c \in Cpu : pc[c] = "or" => info[c].mm \in Mm

TypeInv == TypeOK /\ SwitchingOnlyInSwitch /\ BatchedMmKnown

----------------------------------------------------------------------------
(* Values of the operators the actions are built from.                     *)

\* The initial values are in range.
LEMMA Zero ==
    /\ 0 \in Gen /\ 0 \in Version /\ 0 \in CtxId /\ 0 \in Asid
    /\ 1 \in 1 .. TLB_NR_DYN_ASIDS /\ InitCtx \in Nat /\ CtxId \subseteq Nat
  BY TlbAssumption DEF Gen, Version, CtxId, Asid, InitCtx

\* So are idle frames, empty requests and batches.
LEMMA IdleFrames ==
    ASSUME NEW c \in Cpu
    PROVE  /\ NoSw \in SwFrame /\ NoH(c) \in FuncFrame /\ NoInfo \in Info
           /\ NoPromise \in [Mm -> Gen]
           /\ NoBatch \in [mask : SUBSET Cpu, gens : [Mm -> Gen], n : Nat]
  BY Zero DEF NoSw, SwFrame, NoH, FuncFrame, NoInfo, Info, NoPromise, NoBatch

\* Fields of the frames of a CPU.
LEMMA FrameFields ==
    ASSUME TaskTypes, NEW c \in Cpu
    PROVE  /\ sw[c] \in SwFrame /\ sw[c].next \in Mm \cup {InitMm} /\ sw[c].asid \in Asid
           /\ sw[c].gen \in Gen /\ sw[c].flush \in BOOLEAN
           /\ h[c] \in FuncFrame /\ h[c].req \in Cpu /\ h[c].gen \in Gen
           /\ h[c].partial \in BOOLEAN
  BY DEF TaskTypes, SwFrame, FuncFrame

\* Generation and context id of an mm that can be loaded.
LEMMA MmFields ==
    ASSUME MmTypes, NEW m \in Mm \cup {InitMm}
    PROVE  TlbGenOf(m) \in Gen /\ CtxIdOf(m) \in Nat
  BY Zero, Zenon DEF MmTypes, TlbGenOf, CtxIdOf

\* clear_asid_other() keeps the types of the ids.
LEMMA ScannedType ==
    ASSUME SlotTypes, NEW c \in Cpu
    PROVE  ScannedCtxId(c) \in [Asid -> Nat]
  BY DEF SlotTypes, ScannedCtxId

\* The scan of choose_new_asid() finds a first match if there is one.
LEMMA FirstHit ==
    ASSUME NEW T \in SUBSET Asid, T # {}
    PROVE  (CHOOSE x \in T : \A y \in T : x <= y) \in T
<1>1. T \subseteq Nat
  BY TlbAssumption DEF Asid
<1>2. PICK x \in T : \A y \in T : ~(<<y, x>> \in OpToRel(<, Nat))
  BY <1>1, NatLessThanWellFounded, WFMin, Zenon
<1>3. \A y \in T : <<y, x>> \in OpToRel(<, Nat) <=> y < x
  BY <1>1 DEF OpToRel
<1>4. \A y \in T : ~(y < x)
  BY <1>2, <1>3, Zenon
<1>5. \A y \in T : x <= y
  BY <1>1, <1>4
<1>6. QED
  BY <1>5

\* choose_new_asid() returns a slot of the CPU and a next_asid within bounds.
LEMMA ChosenType ==
    ASSUME SlotTypes, NEW c \in Cpu, NEW id, NEW g
    PROVE  /\ choose_new_asid(c, id, g).asid \in Asid
           /\ choose_new_asid(c, id, g).flush \in BOOLEAN
           /\ choose_new_asid(c, id, g).next \in 1 .. TLB_NR_DYN_ASIDS
<1>1. next_asid[c] \in 1 .. TLB_NR_DYN_ASIDS
  BY DEF SlotTypes
<1>2. CASE ~PCID
  BY <1>1, <1>2, Zero DEF choose_new_asid
<1>3. CASE PCID /\ Hits(c, id) # {}
  <2>1. (CHOOSE x \in Hits(c, id) : \A y \in Hits(c, id) : x <= y) \in Asid
    BY <1>3, FirstHit, Zenon DEF Hits
  <2>2. \E a \in Asid : choose_new_asid(c, id, g) =
           [asid |-> a, flush |-> SlotBehind(c, a, g), next |-> next_asid[c]]
    BY <1>3, <2>1, Zenon DEF choose_new_asid
  <2>3. QED
    BY <1>1, <2>2 DEF SlotBehind
<1>4. CASE PCID /\ Hits(c, id) = {} /\ next_asid[c] < TLB_NR_DYN_ASIDS
  <2>1. choose_new_asid(c, id, g) =
           [asid |-> next_asid[c], flush |-> TRUE, next |-> next_asid[c] + 1]
    BY <1>4 DEF choose_new_asid
  <2>2. QED
    BY <1>1, <1>4, <2>1, TlbAssumption DEF Asid
<1>5. CASE PCID /\ Hits(c, id) = {} /\ ~(next_asid[c] < TLB_NR_DYN_ASIDS)
  BY <1>5, Zero, Zenon DEF choose_new_asid
<1>6. QED
  BY <1>2, <1>3, <1>4, <1>5, TlbAssumption

\* Flushing all PCIDs of a CPU keeps the types of the TLBs.
LEMMA DropAllType ==
    ASSUME HwTypes, NEW c \in Cpu, DropAll(c)
    PROVE  /\ tlb' \in [Cpu -> [Asid -> SUBSET Entry]]
           /\ utlb' \in [Cpu -> [Asid -> SUBSET Entry]]
           /\ kstale' \in [Cpu -> SUBSET (Asid \X {"k", "u"})]
  BY DEF HwTypes, DropAll

\* So does replacing what one PCID caches.
LEMMA SetPcidType ==
    ASSUME NEW f \in [Cpu -> [Asid -> SUBSET Entry]], NEW c \in Cpu, NEW a \in Asid,
           NEW es \in SUBSET Entry, NEW g, g = f \/ g = [f EXCEPT ![c][a] = es]
    PROVE  g \in [Cpu -> [Asid -> SUBSET Entry]]
  OBVIOUS

\* Flushing PCIDs removes them from those that may hold a removed kernel
\* translation.
LEMMA DropKstaleType ==
    ASSUME HwTypes, NEW c \in Cpu, NEW K
    PROVE  [kstale EXCEPT ![c] = @ \ K] \in [Cpu -> SUBSET (Asid \X {"k", "u"})]
  BY DEF HwTypes

\* The same for a step that may leave them alone.
LEMMA KstaleStepType ==
    ASSUME HwTypes, NEW c \in Cpu, NEW g,
           g = kstale \/ \E K : g = [kstale EXCEPT ![c] = @ \ K]
    PROVE  g \in [Cpu -> SUBSET (Asid \X {"k", "u"})]
<1>1. CASE g = kstale
  BY <1>1 DEF HwTypes
<1>2. CASE \E K : g = [kstale EXCEPT ![c] = @ \ K]
  <2>1. PICK K : g = [kstale EXCEPT ![c] = @ \ K]
    BY <1>2
  <2>2. QED
    BY <2>1, DropKstaleType
<1>3. QED
  BY <1>1, <1>2

----------------------------------------------------------------------------
(* One lemma per action: it keeps the types.                               *)

\* invalidate_user_asid() marks a slot of the CPU.
LEMMA InvalidateUserType ==
    ASSUME HwTypes, NEW c \in Cpu, NEW a \in Asid,
           invalidate_user_asid(c, a) \/ UNCHANGED user_pcid_flush_mask
    PROVE  user_pcid_flush_mask' \in [Cpu -> SUBSET Asid]
<1>1. user_pcid_flush_mask \in [Cpu -> SUBSET Asid]
  BY DEF HwTypes
<1>2. \/ user_pcid_flush_mask' = user_pcid_flush_mask
      \/ user_pcid_flush_mask' = [user_pcid_flush_mask EXCEPT ![c] = @ \cup {a}]
  BY DEF invalidate_user_asid
<1>3. QED
  BY <1>1, <1>2

\* The entry of switch_mm_irqs_off().
LEMMA StartSwitchType ==
    ASSUME MmTypes, SlotTypes, TaskTypes, NEW c \in Cpu, NEW m \in Mm \cup {InitMm},
           StartSwitch(c, m)
    PROVE  /\ is_lazy' \in [Cpu -> BOOLEAN]
           /\ mm_cpumask' \in [Mm -> SUBSET Cpu]
           /\ sw' \in [Cpu -> SwFrame]
           /\ \A x \in Cpu : x # c => sw'[x] = sw[x]
<1>1. is_lazy' \in [Cpu -> BOOLEAN]
  BY DEF TaskTypes, StartSwitch
<1>2. mm_cpumask' \in [Mm -> SUBSET Cpu]
  BY DEF MmTypes, StartSwitch
<1>3. \/ sw' = sw
      \/ sw' = [sw EXCEPT ![c].pc = "same", ![c].next = m]
      \/ sw' = [sw EXCEPT ![c].pc = "clear", ![c].next = m]
  BY DEF StartSwitch
<1>4. sw' \in [Cpu -> SwFrame]
  BY <1>3 DEF TaskTypes, SwFrame
<1>5. \A x \in Cpu : x # c => sw'[x] = sw[x]
  BY <1>3 DEF TaskTypes
<1>6. QED
  BY <1>1, <1>2, <1>4, <1>5

\* flush_tlb_func() up to the read of tlb_gen, called outside the switch code.
LEMMA FlushFuncType ==
    ASSUME TypeInv, NEW c \in Cpu, NEW i \in Cpu, sw[c].pc = "none", flush_tlb_func(c, i)
    PROVE  /\ is_lazy' \in [Cpu -> BOOLEAN]
           /\ mm_cpumask' \in [Mm -> SUBSET Cpu]
           /\ sw' \in [Cpu -> SwFrame]
           /\ h' \in [Cpu -> FuncFrame]
           /\ ipi' \in [Cpu -> SUBSET Cpu]
           /\ \A x \in Cpu : x # c => sw'[x] = sw[x]
<1> DEFINE mm == loaded_mm[c]
           f == [pc |-> "inv", req |-> i, gen |-> tlb_gen[mm],
                 partial |-> PartialFlush(info[i], ctx_gen[c][loaded_mm_asid[c]],
                 tlb_gen[mm])]
<1>1. MmTypes /\ SlotTypes /\ TaskTypes
  BY DEF TypeInv, TypeOK
<1>2. mm \in Mm \cup {InitMm}
  BY <1>1 DEF TypeInv, SwitchingOnlyInSwitch, SlotTypes
<1>3. CASE /\ ipi' = [ipi EXCEPT ![c] = @ \ {i}]
           /\ UNCHANGED <<h, sw, is_lazy, mm_cpumask>>
  BY <1>1, <1>3 DEF MmTypes, TaskTypes
<1>4. CASE /\ StartSwitch(c, InitMm)
           /\ h' = [h EXCEPT ![c].pc = "lazy", ![c].req = i]
           /\ UNCHANGED ipi
  <2>1. h' \in [Cpu -> FuncFrame]
    <3>1. h \in [Cpu -> FuncFrame] /\ h[c] \in FuncFrame
      BY <1>1 DEF TaskTypes
    <3>2. [h[c] EXCEPT !.pc = "lazy", !.req = i] \in FuncFrame
      BY <3>1, Zenon DEF FuncFrame
    <3>3. h' = [h EXCEPT ![c] = [h[c] EXCEPT !.pc = "lazy", !.req = i]]
      BY <1>4, <3>1, Zenon
    <3>4. QED
      BY <3>1, <3>2, <3>3
  <2>2. ipi' \in [Cpu -> SUBSET Cpu]
    BY <1>1, <1>4 DEF TaskTypes
  <2>3. QED
    BY <1>1, <1>4, <2>1, <2>2, StartSwitchType
<1>5. CASE /\ mm # InitMm
           /\ h' = [h EXCEPT ![c] = f]
           /\ UNCHANGED <<ipi, sw, is_lazy, mm_cpumask>>
  <2>1. tlb_gen[mm] \in Gen
    BY <1>1, <1>2, <1>5 DEF MmTypes
  <2>2. f \in FuncFrame
    BY <2>1 DEF FuncFrame, PartialFlush
  <2>3. QED
    BY <1>1, <1>5, <2>2 DEF MmTypes, TaskTypes
<1>6. QED
  BY <1>3, <1>4, <1>5 DEF flush_tlb_func

\* inc_mm_tlb_gen().
LEMMA IncTlbGenType ==
    ASSUME MmTypes, NEW m \in Mm, NEW R, IncTlbGen(m, R)
    PROVE  /\ tlb_gen[m] + 1 \in Gen
           /\ tlb_gen' \in [Mm -> Gen]
           /\ floor' \in [Mm -> [Gen -> [Page -> Version]]]
           /\ UNCHANGED <<mm_ctx_id, last_mm_ctx_id, pte>>
<1>1. tlb_gen[m] \in Gen /\ tlb_gen[m] + 1 \in Gen
  BY TlbAssumption DEF MmTypes, IncTlbGen, Gen
<1>2. tlb_gen' \in [Mm -> Gen]
  BY <1>1 DEF MmTypes, IncTlbGen
<1>3. [p \in Page |-> IF p \in R THEN pte[m][p] ELSE floor[m][tlb_gen[m]][p]] \in [Page -> Version]
  BY <1>1 DEF MmTypes
<1>4. floor' \in [Mm -> [Gen -> [Page -> Version]]]
  BY <1>1, <1>3 DEF MmTypes, IncTlbGen
<1>5. QED
  BY <1>1, <1>2, <1>4 DEF IncTlbGen

\* context_switch() to a user task keeps the types.
LEMMA SwitchToUserType ==
    ASSUME TypeInv, NEW c \in Cpu, NEW m \in Mm,
           SwitchToUser(c, m)
    PROVE  TypeInv'
<1>1. MmTypes /\ SlotTypes /\ HwTypes /\ TaskTypes /\ FlushTypes
  BY DEF TypeInv, TypeOK
<1>2. /\ is_lazy' \in [Cpu -> BOOLEAN]
      /\ mm_cpumask' \in [Mm -> SUBSET Cpu]
      /\ sw' \in [Cpu -> SwFrame]
      /\ \A x \in Cpu : x # c => sw'[x] = sw[x]
  BY <1>1, StartSwitchType DEF SwitchToUser
<1>3. pc' \in [Cpu -> TaskPc] /\ \A x \in Cpu : pc'[x] = "or" => pc[x] = "or"
  BY <1>1 DEF TaskTypes, SwitchToUser, TaskPc
<1>4. MmTypes' /\ TaskTypes'
  BY <1>1, <1>2, <1>3 DEF MmTypes, TaskTypes, SwitchToUser,
     mmVars, loadVars, slotVars, cr3Vars, hwVars, flushVars
<1>5. SlotTypes' /\ HwTypes' /\ FlushTypes'
  BY <1>1 DEF SlotTypes, HwTypes, FlushTypes, SwitchToUser,
     mmVars, loadVars, slotVars, cr3Vars, hwVars, flushVars
<1>6. SwitchingOnlyInSwitch'
  <2>1. loaded_mm[c] # Switching /\ UNCHANGED loaded_mm
    BY DEF TypeInv, SwitchingOnlyInSwitch, SwitchToUser, InTask, loadVars
  <2>2. QED
    BY <1>2, <2>1 DEF TypeInv, SwitchingOnlyInSwitch
<1>7. BatchedMmKnown'
  <2>1. UNCHANGED info
    BY DEF SwitchToUser, flushVars
  <2>2. QED
    BY <1>3, <2>1 DEF TypeInv, BatchedMmKnown
<1>8. QED
  BY <1>4, <1>5, <1>6, <1>7 DEF TypeInv, TypeOK

\* leave_mm() keeps the types.
LEMMA leave_mmType ==
    ASSUME TypeInv, NEW c \in Cpu,
           leave_mm(c)
    PROVE  TypeInv'
<1>1. MmTypes /\ SlotTypes /\ HwTypes /\ TaskTypes /\ FlushTypes
  BY Zenon DEF TypeInv, TypeOK
<1>2. /\ is_lazy' \in [Cpu -> BOOLEAN]
      /\ mm_cpumask' \in [Mm -> SUBSET Cpu]
      /\ sw' \in [Cpu -> SwFrame]
      /\ \A x \in Cpu : x # c => sw'[x] = sw[x]
  BY <1>1, StartSwitchType DEF leave_mm
<1>3. pc' \in [Cpu -> TaskPc] /\ \A x \in Cpu : pc'[x] = "or" => pc[x] = "or"
  BY <1>1, Zenon DEF TaskTypes, leave_mm, TaskPc
<1>4. MmTypes' /\ TaskTypes'
  BY <1>1, <1>2, <1>3, Zenon DEF MmTypes, TaskTypes, leave_mm,
     mmVars, loadVars, slotVars, cr3Vars, hwVars, flushVars
<1>5. SlotTypes' /\ HwTypes' /\ FlushTypes'
  BY <1>1 DEF SlotTypes, HwTypes, FlushTypes, leave_mm,
     mmVars, loadVars, slotVars, cr3Vars, hwVars, flushVars
<1>6. SwitchingOnlyInSwitch'
  <2>1. loaded_mm[c] # Switching /\ UNCHANGED loaded_mm
    BY DEF TypeInv, SwitchingOnlyInSwitch, leave_mm, InTask, loadVars
  <2>2. QED
    BY <1>2, <2>1, Zenon DEF TypeInv, SwitchingOnlyInSwitch
<1>7. BatchedMmKnown'
  <2>1. UNCHANGED info
    BY DEF leave_mm, flushVars
  <2>2. QED
    BY <1>3, <2>1 DEF TypeInv, BatchedMmKnown
<1>8. QED
  BY <1>4, <1>5, <1>6, <1>7 DEF TypeInv, TypeOK

\* A flush IPI keeps the types: the CPU that takes it is not inside the switch code.
LEMMA HandleIpiType ==
    ASSUME TypeInv, NEW c \in Cpu, NEW i \in Cpu,
           HandleIpi(c, i)
    PROVE  TypeInv'
<1>1. MmTypes /\ SlotTypes /\ HwTypes /\ TaskTypes /\ FlushTypes
  BY DEF TypeInv, TypeOK
<1>2. sw[c].pc = "none"
  BY DEF HandleIpi, IrqsOn, InTask
<1>3. /\ is_lazy' \in [Cpu -> BOOLEAN]
      /\ mm_cpumask' \in [Mm -> SUBSET Cpu]
      /\ sw' \in [Cpu -> SwFrame]
      /\ h' \in [Cpu -> FuncFrame]
      /\ ipi' \in [Cpu -> SUBSET Cpu]
      /\ \A x \in Cpu : x # c => sw'[x] = sw[x]
  BY <1>2, FlushFuncType DEF HandleIpi
<1>4. pc' \in [Cpu -> TaskPc] /\ \A x \in Cpu : pc'[x] = "or" => pc[x] = "or"
  BY <1>1, Zenon DEF TaskTypes, HandleIpi
<1>5. MmTypes' /\ TaskTypes'
  BY <1>1, <1>3, <1>4, Zenon DEF MmTypes, TaskTypes, HandleIpi,
     mmVars, loadVars, slotVars, cr3Vars, hwVars, flushVars
<1>6. SlotTypes' /\ HwTypes' /\ FlushTypes'
  BY <1>1, Zenon DEF SlotTypes, HwTypes, FlushTypes, HandleIpi,
     mmVars, loadVars, slotVars, cr3Vars, hwVars, flushVars
<1>7. SwitchingOnlyInSwitch'
  <2>1. loaded_mm[c] # Switching /\ UNCHANGED loaded_mm
    BY <1>2 DEF TypeInv, SwitchingOnlyInSwitch, HandleIpi, loadVars
  <2>2. QED
    BY <1>3, <2>1, Zenon DEF TypeInv, SwitchingOnlyInSwitch
<1>8. BatchedMmKnown'
  <2>1. UNCHANGED info
    BY DEF HandleIpi, flushVars
  <2>2. QED
    BY <1>4, <2>1 DEF TypeInv, BatchedMmKnown
<1>9. QED
  BY <1>5, <1>6, <1>7, <1>8 DEF TypeInv, TypeOK

\* A flush without other CPUs keeps the types.
LEMMA FlushHereType ==
    ASSUME TypeInv, NEW c \in Cpu,
           FlushHere(c)
    PROVE  TypeInv'
<1>1. MmTypes /\ SlotTypes /\ HwTypes /\ TaskTypes /\ FlushTypes
  BY DEF TypeInv, TypeOK
<1>2. sw[c].pc = "none"
  BY DEF FlushHere, InTask
<1>3. /\ is_lazy' \in [Cpu -> BOOLEAN]
      /\ mm_cpumask' \in [Mm -> SUBSET Cpu]
      /\ sw' \in [Cpu -> SwFrame]
      /\ h' \in [Cpu -> FuncFrame]
      /\ ipi' \in [Cpu -> SUBSET Cpu]
      /\ \A x \in Cpu : x # c => sw'[x] = sw[x]
  <2>1. CASE flush_tlb_func(c, c)
    BY <1>2, <2>1, FlushFuncType
  <2>2. CASE UNCHANGED <<h, sw, is_lazy, mm_cpumask, ipi>>
    BY <1>1, <2>2 DEF MmTypes, TaskTypes
  <2>3. QED
    BY <2>1, <2>2 DEF FlushHere
<1>4. pc' \in [Cpu -> TaskPc] /\ \A x \in Cpu : pc'[x] = "or" => pc[x] = "or"
  BY <1>1, Zenon DEF TaskTypes, FlushHere, TaskPc
<1>5. MmTypes' /\ TaskTypes'
  BY <1>1, <1>3, <1>4 DEF MmTypes, TaskTypes, FlushHere,
     mmVars, loadVars, slotVars, cr3Vars, hwVars, flushVars
<1>6. SlotTypes' /\ HwTypes' /\ FlushTypes'
  BY <1>1, Zenon DEF SlotTypes, HwTypes, FlushTypes, FlushHere,
     mmVars, loadVars, slotVars, cr3Vars, hwVars, flushVars
<1>7. SwitchingOnlyInSwitch'
  <2>1. loaded_mm[c] # Switching /\ UNCHANGED loaded_mm
    BY <1>2, Zenon DEF TypeInv, SwitchingOnlyInSwitch, FlushHere, loadVars
  <2>2. QED
    BY <1>3, <2>1 DEF TypeInv, SwitchingOnlyInSwitch
<1>8. BatchedMmKnown'
  <2>1. UNCHANGED info
    BY Zenon DEF FlushHere, flushVars
  <2>2. QED
    BY <1>4, <2>1 DEF TypeInv, BatchedMmKnown
<1>9. QED
  BY <1>5, <1>6, <1>7, <1>8 DEF TypeInv, TypeOK

\* The local call of a multi-CPU flush keeps the types.
LEMMA FlushLocalType ==
    ASSUME TypeInv, NEW c \in Cpu,
           FlushLocal(c)
    PROVE  TypeInv'
<1>1. MmTypes /\ SlotTypes /\ HwTypes /\ TaskTypes /\ FlushTypes
  BY DEF TypeInv, TypeOK
<1>2. sw[c].pc = "none"
  BY Zenon DEF FlushLocal, InTask
<1>3. /\ is_lazy' \in [Cpu -> BOOLEAN]
      /\ mm_cpumask' \in [Mm -> SUBSET Cpu]
      /\ sw' \in [Cpu -> SwFrame]
      /\ h' \in [Cpu -> FuncFrame]
      /\ ipi' \in [Cpu -> SUBSET Cpu]
      /\ \A x \in Cpu : x # c => sw'[x] = sw[x]
  <2>1. CASE flush_tlb_func(c, c)
    BY <1>2, <2>1, FlushFuncType
  <2>2. CASE UNCHANGED <<h, sw, is_lazy, mm_cpumask, ipi>>
    BY <1>1, <2>2 DEF MmTypes, TaskTypes
  <2>3. QED
    BY <2>1, <2>2, Zenon DEF FlushLocal
<1>4. pc' \in [Cpu -> TaskPc] /\ \A x \in Cpu : pc'[x] = "or" => pc[x] = "or"
  BY <1>1, Zenon DEF TaskTypes, FlushLocal, TaskPc
<1>5. MmTypes' /\ TaskTypes'
  BY <1>1, <1>3, <1>4 DEF MmTypes, TaskTypes, FlushLocal,
     mmVars, loadVars, slotVars, cr3Vars, hwVars, flushVars
<1>6. SlotTypes' /\ HwTypes' /\ FlushTypes'
  BY <1>1, Zenon DEF SlotTypes, HwTypes, FlushTypes, FlushLocal,
     mmVars, loadVars, slotVars, cr3Vars, hwVars, flushVars
<1>7. SwitchingOnlyInSwitch'
  <2>1. loaded_mm[c] # Switching /\ UNCHANGED loaded_mm
    BY <1>2 DEF TypeInv, SwitchingOnlyInSwitch, FlushLocal, loadVars
  <2>2. QED
    BY <1>3, <2>1 DEF TypeInv, SwitchingOnlyInSwitch
<1>8. BatchedMmKnown'
  <2>1. UNCHANGED info
    BY DEF FlushLocal, flushVars
  <2>2. QED
    BY <1>4, <2>1 DEF TypeInv, BatchedMmKnown
<1>9. QED
  BY <1>5, <1>6, <1>7, <1>8 DEF TypeInv, TypeOK

\* The start of flush_tlb_mm_range() keeps the types.
LEMMA flush_tlb_mm_rangeType ==
    ASSUME TypeInv, NEW c \in Cpu, NEW m \in Mm, NEW R \in SUBSET Page,
    NEW freed \in BOOLEAN,
           flush_tlb_mm_range(c, m, R, freed)
    PROVE  TypeInv'
<1>1. MmTypes /\ SlotTypes /\ HwTypes /\ TaskTypes /\ FlushTypes
  BY DEF TypeInv, TypeOK
<1>2. /\ tlb_gen[m] + 1 \in Gen
      /\ tlb_gen' \in [Mm -> Gen]
      /\ floor' \in [Mm -> [Gen -> [Page -> Version]]]
      /\ UNCHANGED <<mm_ctx_id, last_mm_ctx_id, pte>>
  BY <1>1, IncTlbGenType, Zenon DEF flush_tlb_mm_range
<1>3. info' \in [Cpu -> Info]
  <2> DEFINE r == [mm |-> m, pages |-> R, gen |-> tlb_gen[m] + 1, freed |-> freed,
                   all |-> Cardinality(R) > tlb_single_page_flush_ceiling]
  <2>1. r \in Info
    BY <1>2 DEF Info
  <2>2. QED
    BY <1>1, <2>1, Zenon DEF FlushTypes, flush_tlb_mm_range
<1>4. promise' \in [Cpu -> [Mm -> Gen]]
  BY <1>1, <1>2 DEF FlushTypes, flush_tlb_mm_range
<1>5. pc' \in [Cpu -> TaskPc]
  BY <1>1 DEF TaskTypes, flush_tlb_mm_range, TaskPc
<1>6. MmTypes'
  BY <1>1, <1>2 DEF MmTypes, flush_tlb_mm_range
<1>7. TaskTypes'
  BY <1>1, <1>5 DEF TaskTypes, flush_tlb_mm_range
<1>8. FlushTypes'
  BY <1>1, <1>3, <1>4, Zenon DEF FlushTypes, flush_tlb_mm_range
<1>9. SlotTypes' /\ HwTypes'
  BY <1>1 DEF SlotTypes, HwTypes, flush_tlb_mm_range, loadVars, slotVars, cr3Vars, hwVars
<1>10. SwitchingOnlyInSwitch'
  BY DEF TypeInv, SwitchingOnlyInSwitch, flush_tlb_mm_range, loadVars
<1>11. BatchedMmKnown'
  BY <1>1, Zenon DEF TypeInv, BatchedMmKnown, TaskTypes, FlushTypes, Info,
    flush_tlb_mm_range, NoInfo
<1>12. QED
  BY <1>6, <1>7, <1>8, <1>9, <1>10, <1>11 DEF TypeInv, TypeOK

\* arch_tlbbatch_add_pending() keeps the types.
LEMMA arch_tlbbatch_add_pendingType ==
    ASSUME TypeInv, NEW c \in Cpu, NEW m \in Mm, NEW p \in Page,
           arch_tlbbatch_add_pending(c, m, p)
    PROVE  TypeInv'
<1>1. MmTypes /\ SlotTypes /\ HwTypes /\ TaskTypes /\ FlushTypes
  BY DEF TypeInv, TypeOK
<1>2. /\ tlb_gen[m] + 1 \in Gen
      /\ tlb_gen' \in [Mm -> Gen]
      /\ floor' \in [Mm -> [Gen -> [Page -> Version]]]
      /\ UNCHANGED <<mm_ctx_id, last_mm_ctx_id, pte>>
  BY <1>1, IncTlbGenType DEF arch_tlbbatch_add_pending
<1>3. info' \in [Cpu -> Info]
  <2>1. [NoInfo EXCEPT !.mm = m] \in Info
    BY IdleFrames, Zenon DEF NoInfo, Info
  <2>2. QED
    BY <1>1, <2>1 DEF FlushTypes, arch_tlbbatch_add_pending
<1>4. batch' \in [mask : SUBSET Cpu, gens : [Mm -> Gen], n : Nat]
  <2> DEFINE g == [batch.gens EXCEPT ![m] = tlb_gen[m] + 1]
  <2>1. batch \in [mask : SUBSET Cpu, gens : [Mm -> Gen], n : Nat]
    BY <1>1 DEF FlushTypes
  <2>2. g \in [Mm -> Gen]
    BY <1>2, <2>1
  <2>3. batch.n + 1 \in Nat
    BY <2>1
  <2>4. batch' = [batch EXCEPT !.gens = g, !.n = batch.n + 1]
    BY <2>1 DEF arch_tlbbatch_add_pending
  <2>5. QED
    BY <2>1, <2>2, <2>3, <2>4, Zenon
<1>5. pc' \in [Cpu -> TaskPc]
  BY <1>1 DEF TaskTypes, arch_tlbbatch_add_pending, TaskPc
<1>6. MmTypes'
  BY <1>1, <1>2 DEF MmTypes, arch_tlbbatch_add_pending
<1>7. TaskTypes'
  BY <1>1, <1>5 DEF TaskTypes, arch_tlbbatch_add_pending
<1>8. FlushTypes'
  BY <1>1, <1>3, <1>4 DEF FlushTypes, arch_tlbbatch_add_pending
<1>9. SlotTypes' /\ HwTypes'
  BY <1>1 DEF SlotTypes, HwTypes, arch_tlbbatch_add_pending, loadVars, slotVars,
    cr3Vars, hwVars
<1>10. SwitchingOnlyInSwitch'
  BY DEF TypeInv, SwitchingOnlyInSwitch, arch_tlbbatch_add_pending, loadVars
<1>11. BatchedMmKnown'
  BY <1>1 DEF TypeInv, BatchedMmKnown, TaskTypes, FlushTypes, Info,
     arch_tlbbatch_add_pending, NoInfo
<1>12. QED
  BY <1>6, <1>7, <1>8, <1>9, <1>10, <1>11 DEF TypeInv, TypeOK

\* Leaving lazy mode for the same mm keeps the types: the slot reloaded is the loaded one.
LEMMA SwSameType ==
    ASSUME TypeInv, NEW c \in Cpu,
           SwSame(c)
    PROVE  TypeInv'
<1>1. MmTypes /\ SlotTypes /\ HwTypes /\ TaskTypes /\ FlushTypes
  BY DEF TypeInv, TypeOK
<1>2. sw' \in [Cpu -> SwFrame]
  <2> DEFINE g == TlbGenOf(sw[c].next)
             f == IF CaughtUp(c, g) THEN NoSw
                  ELSE [sw[c] EXCEPT !.pc = "cr3", !.asid = loaded_mm_asid[c], !.gen = g,
                                     !.flush = TRUE]
  <2>1. g \in Gen /\ loaded_mm_asid[c] \in Asid /\ sw[c] \in SwFrame /\ NoSw \in SwFrame
    BY <1>1, FrameFields, MmFields, IdleFrames DEF SlotTypes
  <2>2. f \in SwFrame
    BY <2>1, Zenon DEF SwFrame
  <2>3. sw' = [sw EXCEPT ![c] = f]
    BY <1>1 DEF SwSame, TaskTypes
  <2>4. QED
    BY <1>1, <2>2, <2>3 DEF TaskTypes
<1>3. TaskTypes'
  BY <1>1, <1>2 DEF TaskTypes, SwSame, tlbVars, mmVars, loadVars, slotVars, hwVars,
    cr3Vars, flushVars
<1>4. MmTypes' /\ SlotTypes' /\ HwTypes' /\ FlushTypes'
  BY <1>1 DEF MmTypes, SlotTypes, HwTypes, FlushTypes, SwSame, tlbVars, mmVars,
    loadVars, slotVars, hwVars, cr3Vars, flushVars
<1>5. SwitchingOnlyInSwitch'
  BY <1>1, TlbAssumption DEF TypeInv, SwitchingOnlyInSwitch, SlotTypes, TaskTypes,
    SwFrame, SwSame, NoSw, tlbVars, mmVars, loadVars, slotVars, hwVars, cr3Vars,
    flushVars
<1>6. BatchedMmKnown'
  BY <1>1, TlbAssumption DEF TypeInv, BatchedMmKnown, TaskTypes, FlushTypes, Info,
    SwSame, tlbVars, mmVars, loadVars, slotVars, hwVars, cr3Vars, flushVars
<1>7. QED
  BY <1>3, <1>4, <1>5, <1>6 DEF TypeInv, TypeOK

\* Clearing the CPU from the mask of the previous mm keeps the types.
LEMMA SwClearType ==
    ASSUME TypeInv, NEW c \in Cpu,
           SwClear(c)
    PROVE  TypeInv'
<1>1. MmTypes /\ SlotTypes /\ HwTypes /\ TaskTypes /\ FlushTypes
  BY DEF TypeInv, TypeOK
<1>2. mm_cpumask' \in [Mm -> SUBSET Cpu]
  BY <1>1, TlbAssumption, Zenon DEF MmTypes, SlotTypes, SwClear, TypeInv,
    SwitchingOnlyInSwitch
<1>3. sw' \in [Cpu -> SwFrame]
  BY <1>1, Zenon DEF TaskTypes, SwClear, SwFrame
<1>4. MmTypes'
  BY <1>1, <1>2 DEF MmTypes, SwClear, mmVars, loadVars, slotVars, hwVars, cr3Vars,
    flushVars
<1>5. TaskTypes'
  BY <1>1, <1>3 DEF TaskTypes, SwClear, mmVars, loadVars, slotVars, hwVars, cr3Vars,
    flushVars
<1>6. SlotTypes' /\ HwTypes' /\ FlushTypes'
  BY <1>1 DEF SlotTypes, HwTypes, FlushTypes, SwClear, mmVars, loadVars, slotVars,
    hwVars, cr3Vars, flushVars
<1>7. SwitchingOnlyInSwitch'
  BY <1>1, TlbAssumption DEF TypeInv, SwitchingOnlyInSwitch, SlotTypes, TaskTypes,
    SwFrame, SwClear, mmVars, loadVars, slotVars, hwVars, cr3Vars, flushVars
<1>8. BatchedMmKnown'
  BY <1>1, TlbAssumption DEF TypeInv, BatchedMmKnown, TaskTypes, FlushTypes, Info,
    SwClear, mmVars, loadVars, slotVars, hwVars, cr3Vars, flushVars
<1>9. QED
  BY <1>4, <1>5, <1>6, <1>7, <1>8 DEF TypeInv, TypeOK

\* Setting the CPU in the mask of the next mm keeps the types.
LEMMA SwSetType ==
    ASSUME TypeInv, NEW c \in Cpu,
           SwSet(c)
    PROVE  TypeInv'
<1>1. MmTypes /\ SlotTypes /\ HwTypes /\ TaskTypes /\ FlushTypes
  BY DEF TypeInv, TypeOK
<1>2. mm_cpumask' \in [Mm -> SUBSET Cpu]
  BY <1>1, FrameFields DEF MmTypes, SwSet
<1>3. sw' \in [Cpu -> SwFrame]
  BY <1>1 DEF TaskTypes, SwSet, SwFrame
<1>4. MmTypes'
  BY <1>1, <1>2 DEF MmTypes, SwSet, mmVars, loadVars, slotVars, hwVars, cr3Vars,
    flushVars
<1>5. TaskTypes'
  BY <1>1, <1>3 DEF TaskTypes, SwSet, mmVars, loadVars, slotVars, hwVars, cr3Vars,
    flushVars
<1>6. SlotTypes' /\ HwTypes' /\ FlushTypes'
  BY <1>1 DEF SlotTypes, HwTypes, FlushTypes, SwSet, mmVars, loadVars, slotVars, hwVars,
    cr3Vars, flushVars
<1>7. SwitchingOnlyInSwitch'
  BY <1>1, TlbAssumption DEF TypeInv, SwitchingOnlyInSwitch, SlotTypes, TaskTypes,
    SwFrame, SwSet, mmVars, loadVars, slotVars, hwVars, cr3Vars, flushVars
<1>8. BatchedMmKnown'
  BY <1>1, TlbAssumption DEF TypeInv, BatchedMmKnown, TaskTypes, FlushTypes, Info,
    SwSet, mmVars, loadVars, slotVars, hwVars, cr3Vars, flushVars
<1>9. QED
  BY <1>4, <1>5, <1>6, <1>7, <1>8 DEF TypeInv, TypeOK

\* choose_new_asid() as switch_mm_irqs_off() calls it keeps the types: the slot it
\* picks and the next_asid it leaves are in range.
LEMMA SwReadType ==
    ASSUME TypeInv, NEW c \in Cpu,
           SwRead(c)
    PROVE  TypeInv'
<1>1. MmTypes /\ SlotTypes /\ HwTypes /\ TaskTypes /\ FlushTypes
  BY DEF TypeInv, TypeOK
<1>2. loaded_mm' \in [Cpu -> Mm \cup {InitMm, Switching}]
  BY <1>1 DEF SlotTypes, SwRead, LoadedDuringSwitch
<1>3. next_asid' \in [Cpu -> 1 .. TLB_NR_DYN_ASIDS]
  BY <1>1, ChosenType DEF SlotTypes, SwRead
<1>4. invalidate_other' \in [Cpu -> BOOLEAN]
  BY <1>1 DEF SlotTypes, SwRead
<1>5. ctx_id' \in [Cpu -> [Asid -> Nat]]
  BY <1>1, ScannedType DEF SlotTypes, SwRead
<1>6. sw' \in [Cpu -> SwFrame]
  BY <1>1, ChosenType, FrameFields, MmFields, Zenon DEF TaskTypes, SwRead, SwFrame
<1>7. SlotTypes'
  BY <1>1, <1>2, <1>3, <1>4, <1>5 DEF SlotTypes, SwRead, mmVars, hwVars, cr3Vars,
    flushVars
<1>8. TaskTypes'
  BY <1>1, <1>6 DEF TaskTypes, SwRead, mmVars, hwVars, cr3Vars, flushVars
<1>9. MmTypes' /\ HwTypes' /\ FlushTypes'
  BY <1>1 DEF MmTypes, HwTypes, FlushTypes, SwRead, mmVars, hwVars, cr3Vars, flushVars
<1>10. SwitchingOnlyInSwitch'
  BY <1>1, TlbAssumption DEF TypeInv, SwitchingOnlyInSwitch, SlotTypes, TaskTypes,
    SwFrame, SwRead, mmVars, hwVars, cr3Vars, flushVars, LoadedDuringSwitch
<1>11. BatchedMmKnown'
  BY <1>1, TlbAssumption DEF TypeInv, BatchedMmKnown, TaskTypes, FlushTypes, Info,
    SwRead, mmVars, hwVars, cr3Vars, flushVars
<1>12. QED
  BY <1>7, <1>8, <1>9, <1>10, <1>11 DEF TypeInv, TypeOK

\* Recording the slot and writing CR3 keeps the types, with and without PCID.
LEMMA SwCr3Type ==
    ASSUME TypeInv, NEW c \in Cpu,
           SwCr3(c)
    PROVE  TypeInv'
<1>1. MmTypes /\ SlotTypes /\ HwTypes /\ TaskTypes /\ FlushTypes
  BY DEF TypeInv, TypeOK
<1>2. ctx_id' \in [Cpu -> [Asid -> Nat]]
  BY <1>1, FrameFields, MmFields DEF SlotTypes, SwCr3
<1>3. ctx_gen' \in [Cpu -> [Asid -> Gen]]
  BY <1>1, FrameFields DEF SlotTypes, SwCr3
<1>4. user_pcid_flush_mask' \in [Cpu -> SUBSET Asid]
  <2>1. sw[c].asid \in Asid
    BY <1>1, FrameFields
  <2>2. invalidate_user_asid(c, sw[c].asid) \/ UNCHANGED user_pcid_flush_mask
    BY DEF SwCr3, load_new_mm_cr3
  <2>3. QED
    BY <1>1, <2>1, <2>2, InvalidateUserType
<1>5. cr3_mm' \in [Cpu -> Mm \cup {InitMm}]
  BY <1>1, FrameFields DEF HwTypes, SwCr3, load_new_mm_cr3
<1>6. cr3_asid' \in [Cpu -> Asid]
  BY <1>1, FrameFields DEF HwTypes, SwCr3, load_new_mm_cr3
<1>7. /\ tlb' \in [Cpu -> [Asid -> SUBSET Entry]]
      /\ utlb' \in [Cpu -> [Asid -> SUBSET Entry]]
      /\ kstale' \in [Cpu -> SUBSET (Asid \X {"k", "u"})]
  <2>1. CASE PCID
    <3>1. sw[c].asid \in Asid
      BY <1>1, FrameFields DEF SwCr3
    <3>2. tlb' = tlb \/ tlb' = [tlb EXCEPT ![c][sw[c].asid] = {}]
      BY <2>1 DEF SwCr3, load_new_mm_cr3
    <3>3. utlb' = utlb \/ utlb' = [utlb EXCEPT ![c][sw[c].asid] = {}]
      BY <2>1 DEF SwCr3, load_new_mm_cr3
    <3>4. kstale' = kstale \/ \E K : kstale' = [kstale EXCEPT ![c] = @ \ K]
      BY <2>1, Zenon DEF SwCr3, load_new_mm_cr3
    <3>5. /\ tlb \in [Cpu -> [Asid -> SUBSET Entry]]
          /\ utlb \in [Cpu -> [Asid -> SUBSET Entry]]
          /\ kstale \in [Cpu -> SUBSET (Asid \X {"k", "u"})]
      BY <1>1 DEF HwTypes
    <3>6. {} \in SUBSET Entry
      OBVIOUS
    <3>7. tlb' \in [Cpu -> [Asid -> SUBSET Entry]]
      BY <3>1, <3>2, <3>5, <3>6, SetPcidType, Zenon
    <3>8. utlb' \in [Cpu -> [Asid -> SUBSET Entry]]
      BY <3>1, <3>3, <3>5, <3>6, SetPcidType, Zenon
    <3>9. kstale' \in [Cpu -> SUBSET (Asid \X {"k", "u"})]
      BY <1>1, <3>4, KstaleStepType, Zenon
    <3>10. QED
      BY <3>7, <3>8, <3>9
  <2>2. CASE ~PCID
    BY <1>1, <2>2, DropAllType DEF SwCr3, load_new_mm_cr3
  <2>3. QED
    BY <2>1, <2>2
<1>8. sw' \in [Cpu -> SwFrame]
  BY <1>1 DEF TaskTypes, SwCr3, SwFrame
<1>9. SlotTypes'
  BY <1>1, <1>2, <1>3 DEF SlotTypes, SwCr3, mmVars, loadVars, flushVars
<1>10. HwTypes'
  BY <1>1, <1>4, <1>5, <1>6, <1>7 DEF HwTypes, SwCr3, mmVars, loadVars,
    flushVars
<1>11. TaskTypes'
  BY <1>1, <1>8 DEF TaskTypes, SwCr3, mmVars, loadVars, flushVars
<1>12. MmTypes' /\ FlushTypes'
  BY <1>1 DEF MmTypes, FlushTypes, SwCr3, mmVars, loadVars, flushVars
<1>13. SwitchingOnlyInSwitch'
  BY <1>1, TlbAssumption DEF TypeInv, SwitchingOnlyInSwitch, SlotTypes, TaskTypes,
    SwFrame, SwCr3, load_new_mm_cr3, DropAll, mmVars, loadVars, flushVars
<1>14. BatchedMmKnown'
  BY <1>1, TlbAssumption DEF TypeInv, BatchedMmKnown, TaskTypes, FlushTypes, Info,
    SwCr3, mmVars, loadVars, flushVars
<1>15. QED
  BY <1>9, <1>10, <1>11, <1>12, <1>13, <1>14 DEF TypeInv, TypeOK

\* The end of switch_mm_irqs_off() keeps the types: loaded_mm is an mm again.
LEMMA SwDoneType ==
    ASSUME TypeInv, NEW c \in Cpu,
           SwDone(c)
    PROVE  TypeInv'
<1>1. MmTypes /\ SlotTypes /\ HwTypes /\ TaskTypes /\ FlushTypes
  BY DEF TypeInv, TypeOK
<1>2. loaded_mm' \in [Cpu -> Mm \cup {InitMm, Switching}]
  BY <1>1, FrameFields DEF SlotTypes, SwDone
<1>3. loaded_mm_asid' \in [Cpu -> Asid]
  BY <1>1, FrameFields DEF SlotTypes, SwDone
<1>4. sw' \in [Cpu -> SwFrame]
  BY <1>1, IdleFrames, Zenon DEF TaskTypes, SwDone
<1>5. SlotTypes'
  BY <1>1, <1>2, <1>3 DEF SlotTypes, SwDone, mmVars, slotVars, hwVars, cr3Vars,
    flushVars
<1>6. TaskTypes'
  BY <1>1, <1>4, Zenon DEF TaskTypes, SwDone, mmVars, slotVars, hwVars, cr3Vars, flushVars
<1>7. MmTypes' /\ HwTypes' /\ FlushTypes'
  BY <1>1, Zenon DEF MmTypes, HwTypes, FlushTypes, SwDone, mmVars, slotVars, hwVars,
    cr3Vars,
    flushVars
<1>8. SwitchingOnlyInSwitch'
  BY <1>1, TlbAssumption, Zenon DEF TypeInv, SwitchingOnlyInSwitch, SlotTypes, TaskTypes,
    SwFrame, SwDone, NoSw, mmVars, slotVars, hwVars, cr3Vars, flushVars
<1>9. BatchedMmKnown'
  BY <1>1, TlbAssumption DEF TypeInv, BatchedMmKnown, TaskTypes, FlushTypes, Info,
    SwDone, mmVars, slotVars, hwVars, cr3Vars, flushVars
<1>10. QED
  BY <1>5, <1>6, <1>7, <1>8, <1>9 DEF TypeInv, TypeOK

\* The end of flush_tlb_func() on a lazy CPU keeps the types.
LEMMA FuncLazyDoneType ==
    ASSUME TypeInv, NEW c \in Cpu,
           FuncLazyDone(c)
    PROVE  TypeInv'
<1>1. MmTypes /\ SlotTypes /\ HwTypes /\ TaskTypes /\ FlushTypes
  BY DEF TypeInv, TypeOK
<1>2. h' \in [Cpu -> FuncFrame]
  BY <1>1, IdleFrames DEF TaskTypes, FuncLazyDone
<1>3. ipi' \in [Cpu -> SUBSET Cpu]
  BY <1>1 DEF TaskTypes, FuncLazyDone
<1>4. TaskTypes'
  BY <1>1, <1>2, <1>3 DEF TaskTypes, FuncLazyDone, tlbVars, mmVars, loadVars, slotVars,
    hwVars, cr3Vars, flushVars
<1>5. MmTypes' /\ SlotTypes' /\ HwTypes' /\ FlushTypes'
  BY <1>1, Zenon DEF MmTypes, SlotTypes, HwTypes, FlushTypes, FuncLazyDone, tlbVars,
    mmVars,
    loadVars, slotVars, hwVars, cr3Vars, flushVars
<1>6. SwitchingOnlyInSwitch'
  BY <1>1, TlbAssumption, Zenon DEF TypeInv, SwitchingOnlyInSwitch, SlotTypes, TaskTypes,
    SwFrame, FuncLazyDone, NoH, tlbVars, mmVars, loadVars, slotVars, hwVars, cr3Vars,
    flushVars
<1>7. BatchedMmKnown'
  BY <1>1, TlbAssumption DEF TypeInv, BatchedMmKnown, TaskTypes, FlushTypes, Info,
    FuncLazyDone, tlbVars, mmVars, loadVars, slotVars, hwVars, cr3Vars, flushVars
<1>8. QED
  BY <1>4, <1>5, <1>6, <1>7 DEF TypeInv, TypeOK

\* The invalidation of flush_tlb_func() keeps the types of the TLBs and masks.
LEMMA FuncInvalidateType ==
    ASSUME TypeInv, NEW c \in Cpu,
           FuncInvalidate(c)
    PROVE  TypeInv'
<1>1. MmTypes /\ SlotTypes /\ HwTypes /\ TaskTypes /\ FlushTypes
  BY DEF TypeInv, TypeOK
<1>2. user_pcid_flush_mask' \in [Cpu -> SUBSET Asid]
  BY <1>1 DEF HwTypes, SlotTypes, FuncInvalidate, invalidate_user_asid
<1>3. /\ tlb' \in [Cpu -> [Asid -> SUBSET Entry]]
      /\ utlb' \in [Cpu -> [Asid -> SUBSET Entry]]
      /\ kstale' \in [Cpu -> SUBSET (Asid \X {"k", "u"})]
  <2> DEFINE a == loaded_mm_asid[c]
             Kept(es) == {e \in es : e.page \notin info[h[c].req].pages}
  <2>1. a \in Asid /\ Kept(tlb[c][a]) \in SUBSET Entry /\ Kept(utlb[c][a]) \in SUBSET Entry
    <3>1. a \in Asid
      BY <1>1 DEF SlotTypes
    <3>2. tlb[c][a] \in SUBSET Entry /\ utlb[c][a] \in SUBSET Entry
      BY <1>1, <3>1 DEF HwTypes
    <3>3. \A es : Kept(es) \subseteq es
      OBVIOUS
    <3> HIDE DEF a, Kept
    <3>4. QED
      BY <3>1, <3>2, <3>3
  <2>2. CASE h[c].partial
    <3>1. tlb' = [tlb EXCEPT ![c][a] = Kept(tlb[c][a])]
      BY <1>1, <2>1, <2>2 DEF FuncInvalidate, HwTypes
    <3>2. utlb' = utlb \/ utlb' = [utlb EXCEPT ![c][a] = Kept(utlb[c][a])]
      BY <1>1, <2>1, <2>2 DEF FuncInvalidate, HwTypes
    <3>3. kstale' = kstale
      BY <2>2, Zenon DEF FuncInvalidate
    <3>4. tlb' \in [Cpu -> [Asid -> SUBSET Entry]]
      <4>1. tlb \in [Cpu -> [Asid -> SUBSET Entry]]
        BY <1>1, Zenon DEF HwTypes
      <4>2. QED
        BY <2>1, <3>1, <4>1, SetPcidType
    <3>5. utlb' \in [Cpu -> [Asid -> SUBSET Entry]]
      <4>1. utlb \in [Cpu -> [Asid -> SUBSET Entry]]
        BY <1>1 DEF HwTypes
      <4>2. QED
        BY <2>1, <3>2, <4>1, SetPcidType, Zenon
    <3>6. QED
      BY <1>1, <3>3, <3>4, <3>5 DEF HwTypes
  <2>3. CASE ~h[c].partial /\ PCID
    <3>1. /\ tlb' = [tlb EXCEPT ![c][a] = {}]
          /\ utlb' = utlb
          /\ kstale' = [kstale EXCEPT ![c] = @ \ {<<a, "k">>}]
      BY <2>3 DEF FuncInvalidate
    <3>2. QED
      BY <1>1, <2>1, <3>1, SetPcidType, DropKstaleType, Zenon DEF HwTypes
  <2>4. CASE ~h[c].partial /\ ~PCID
    BY <1>1, <2>4, DropAllType DEF FuncInvalidate
  <2>5. QED
    BY <2>2, <2>3, <2>4
<1>4. h' \in [Cpu -> FuncFrame]
  BY <1>1, Zenon DEF TaskTypes, FuncInvalidate, FuncFrame
<1>5. HwTypes'
  BY <1>1, <1>2, <1>3 DEF HwTypes, FuncInvalidate, mmVars, loadVars,
    slotVars, cr3Vars, flushVars
<1>6. TaskTypes'
  BY <1>1, <1>4 DEF TaskTypes, FuncInvalidate, mmVars, loadVars, slotVars, cr3Vars,
    flushVars
<1>7. MmTypes' /\ SlotTypes' /\ FlushTypes'
  BY <1>1 DEF MmTypes, SlotTypes, FlushTypes, FuncInvalidate, mmVars, loadVars,
    slotVars, cr3Vars, flushVars
<1>8. SwitchingOnlyInSwitch'
  BY <1>1, TlbAssumption DEF TypeInv, SwitchingOnlyInSwitch, SlotTypes, TaskTypes,
    SwFrame, FuncInvalidate, DropAll, mmVars, loadVars, slotVars, cr3Vars, flushVars
<1>9. BatchedMmKnown'
  BY <1>1, TlbAssumption DEF TypeInv, BatchedMmKnown, TaskTypes, FlushTypes, Info,
    FuncInvalidate, mmVars, loadVars, slotVars, cr3Vars, flushVars
<1>10. QED
  BY <1>5, <1>6, <1>7, <1>8, <1>9 DEF TypeInv, TypeOK

\* Recording the generation at the end of flush_tlb_func() keeps the types.
LEMMA FuncSetGenType ==
    ASSUME TypeInv, NEW c \in Cpu,
           FuncSetGen(c)
    PROVE  TypeInv'
<1>1. MmTypes /\ SlotTypes /\ HwTypes /\ TaskTypes /\ FlushTypes
  BY DEF TypeInv, TypeOK
<1>2. ctx_gen' \in [Cpu -> [Asid -> Gen]]
  BY <1>1, FrameFields DEF SlotTypes, FuncSetGen, CaughtUpTo
<1>3. h' \in [Cpu -> FuncFrame]
  BY <1>1, IdleFrames DEF TaskTypes, FuncSetGen
<1>4. ipi' \in [Cpu -> SUBSET Cpu]
  BY <1>1, Zenon DEF TaskTypes, FuncSetGen
<1>5. SlotTypes'
  BY <1>1, <1>2 DEF SlotTypes, FuncSetGen, mmVars, loadVars, slotVars, hwVars, cr3Vars,
    flushVars
<1>6. TaskTypes'
  BY <1>1, <1>3, <1>4, Zenon DEF TaskTypes, FuncSetGen, mmVars, loadVars, slotVars,
    hwVars,
    cr3Vars, flushVars
<1>7. MmTypes' /\ HwTypes' /\ FlushTypes'
  BY <1>1, Zenon DEF MmTypes, HwTypes, FlushTypes, FuncSetGen, mmVars, loadVars, slotVars,
    hwVars, cr3Vars, flushVars
<1>8. SwitchingOnlyInSwitch'
  BY <1>1, TlbAssumption, Zenon DEF TypeInv, SwitchingOnlyInSwitch, SlotTypes, TaskTypes,
    SwFrame, FuncSetGen, NoH, mmVars, loadVars, slotVars, hwVars, cr3Vars, flushVars
<1>9. BatchedMmKnown'
  BY <1>1, TlbAssumption DEF TypeInv, BatchedMmKnown, TaskTypes, FlushTypes, Info,
    FuncSetGen, mmVars, loadVars, slotVars, hwVars, cr3Vars, flushVars
<1>10. QED
  BY <1>5, <1>6, <1>7, <1>8, <1>9 DEF TypeInv, TypeOK

\* switch_to() keeps the types.
LEMMA SwitchToType ==
    ASSUME TypeInv, NEW c \in Cpu,
           SwitchTo(c)
    PROVE  TypeInv'
<1>1. MmTypes /\ SlotTypes /\ HwTypes /\ TaskTypes /\ FlushTypes
  BY DEF TypeInv, TypeOK
<1>2. curr_mm' \in [Cpu -> Mm \cup {InitMm, NoMm, Switching}]
  BY <1>1 DEF SlotTypes, TaskTypes, SwitchTo
<1>3. pc' \in [Cpu -> TaskPc]
  BY <1>1, Zenon DEF TaskTypes, SwitchTo, TaskPc
<1>4. TaskTypes'
  BY <1>1, <1>2, <1>3, Zenon DEF TaskTypes, SwitchTo, tlbVars, mmVars, loadVars, slotVars,
    hwVars, cr3Vars, flushVars
<1>5. MmTypes' /\ SlotTypes' /\ HwTypes' /\ FlushTypes'
  BY <1>1, Zenon DEF MmTypes, SlotTypes, HwTypes, FlushTypes, SwitchTo, tlbVars, mmVars,
    loadVars, slotVars, hwVars, cr3Vars, flushVars
<1>6. SwitchingOnlyInSwitch'
  BY <1>1, TlbAssumption, Zenon DEF TypeInv, SwitchingOnlyInSwitch, SlotTypes, TaskTypes,
    SwFrame, SwitchTo, tlbVars, mmVars, loadVars, slotVars, hwVars, cr3Vars, flushVars
<1>7. BatchedMmKnown'
  BY <1>1, TlbAssumption DEF TypeInv, BatchedMmKnown, TaskTypes, FlushTypes, Info,
    SwitchTo, tlbVars, mmVars, loadVars, slotVars, hwVars, cr3Vars, flushVars
<1>8. QED
  BY <1>4, <1>5, <1>6, <1>7 DEF TypeInv, TypeOK

\* cpumask_or() in arch_tlbbatch_add_pending() keeps the types: the mm is known.
LEMMA BatchOrType ==
    ASSUME TypeInv, NEW c \in Cpu,
           BatchOr(c)
    PROVE  TypeInv'
<1>1. MmTypes /\ SlotTypes /\ HwTypes /\ TaskTypes /\ FlushTypes
  BY DEF TypeInv, TypeOK
<1>2. pc' \in [Cpu -> TaskPc]
  BY <1>1 DEF TaskTypes, BatchOr, TaskPc
<1>3. info' \in [Cpu -> Info]
  BY <1>1, IdleFrames DEF FlushTypes, BatchOr
<1>4. batch' \in [mask : SUBSET Cpu, gens : [Mm -> Gen], n : Nat]
  BY <1>1, Zenon DEF MmTypes, FlushTypes, BatchOr, TypeInv, BatchedMmKnown
<1>5. TaskTypes'
  BY <1>1, <1>2 DEF TaskTypes, BatchOr, tlbVars, mmVars, loadVars, slotVars, hwVars,
    cr3Vars
<1>6. FlushTypes'
  BY <1>1, <1>3, <1>4 DEF FlushTypes, BatchOr, tlbVars, mmVars, loadVars, slotVars,
    hwVars, cr3Vars
<1>7. MmTypes' /\ SlotTypes' /\ HwTypes'
  BY <1>1 DEF MmTypes, SlotTypes, HwTypes, BatchOr, tlbVars, mmVars, loadVars, slotVars,
    hwVars, cr3Vars
<1>8. SwitchingOnlyInSwitch'
  BY <1>1, TlbAssumption DEF TypeInv, SwitchingOnlyInSwitch, SlotTypes, TaskTypes,
    SwFrame, BatchOr, NoInfo, tlbVars, mmVars, loadVars, slotVars, hwVars, cr3Vars
<1>9. BatchedMmKnown'
  BY <1>1, TlbAssumption DEF TypeInv, BatchedMmKnown, TaskTypes, FlushTypes, Info,
    BatchOr, tlbVars, mmVars, loadVars, slotVars, hwVars, cr3Vars
<1>10. QED
  BY <1>5, <1>6, <1>7, <1>8, <1>9 DEF TypeInv, TypeOK

\* Entering native_flush_tlb_multi() keeps the types.
LEMMA FlushMultiType ==
    ASSUME TypeInv, NEW c \in Cpu,
           FlushMulti(c)
    PROVE  TypeInv'
<1>1. MmTypes /\ SlotTypes /\ HwTypes /\ TaskTypes /\ FlushTypes
  BY DEF TypeInv, TypeOK
<1>2. pc' \in [Cpu -> TaskPc]
  BY <1>1, Zenon DEF TaskTypes, FlushMulti, TaskPc
<1>3. TaskTypes'
  BY <1>1, <1>2, Zenon DEF TaskTypes, FlushMulti, tlbVars, mmVars, loadVars, slotVars,
    hwVars,
    cr3Vars, flushVars
<1>4. MmTypes' /\ SlotTypes' /\ HwTypes' /\ FlushTypes'
  BY <1>1, Zenon DEF MmTypes, SlotTypes, HwTypes, FlushTypes, FlushMulti, tlbVars, mmVars,
    loadVars, slotVars, hwVars, cr3Vars, flushVars
<1>5. SwitchingOnlyInSwitch'
  BY <1>1, TlbAssumption, Zenon DEF TypeInv, SwitchingOnlyInSwitch, SlotTypes, TaskTypes,
    SwFrame, FlushMulti, tlbVars, mmVars, loadVars, slotVars, hwVars, cr3Vars, flushVars
<1>6. BatchedMmKnown'
  BY <1>1, TlbAssumption DEF TypeInv, BatchedMmKnown, TaskTypes, FlushTypes, Info,
    FlushMulti, tlbVars, mmVars, loadVars, slotVars, hwVars, cr3Vars, flushVars
<1>7. QED
  BY <1>3, <1>4, <1>5, <1>6 DEF TypeInv, TypeOK

\* Copying the mask of CPUs to interrupt keeps the types.
LEMMA FlushCopyType ==
    ASSUME TypeInv, NEW c \in Cpu,
           FlushCopy(c)
    PROVE  TypeInv'
<1>1. MmTypes /\ SlotTypes /\ HwTypes /\ TaskTypes /\ FlushTypes
  BY DEF TypeInv, TypeOK
<1>2. pc' \in [Cpu -> TaskPc]
  BY <1>1 DEF TaskTypes, FlushCopy, TaskPc
<1>3. todo' \in [Cpu -> SUBSET Cpu]
  BY <1>1 DEF MmTypes, FlushTypes, FlushCopy, FlushMask, Info
<1>4. runlocal' \in [Cpu -> BOOLEAN]
  <2>1. runlocal' = [runlocal EXCEPT ![c] = c \in FlushMask(c)]
    BY Zenon DEF FlushCopy
  <2>2. runlocal \in [Cpu -> BOOLEAN]
    BY <1>1, Zenon DEF FlushTypes
  <2>3. (c \in FlushMask(c)) \in BOOLEAN
    OBVIOUS
  <2>4. QED
    BY <2>1, <2>2, <2>3
<1>5. TaskTypes'
  BY <1>1, <1>2 DEF TaskTypes, FlushCopy, tlbVars, mmVars, loadVars, slotVars, hwVars,
    cr3Vars
<1>6. FlushTypes'
  BY <1>1, <1>3, <1>4, Zenon DEF FlushTypes, FlushCopy, tlbVars, mmVars, loadVars,
    slotVars,
    hwVars, cr3Vars
<1>7. MmTypes' /\ SlotTypes' /\ HwTypes'
  BY <1>1 DEF MmTypes, SlotTypes, HwTypes, FlushCopy, tlbVars, mmVars, loadVars,
    slotVars, hwVars, cr3Vars
<1>8. SwitchingOnlyInSwitch'
  BY <1>1, TlbAssumption, Zenon DEF TypeInv, SwitchingOnlyInSwitch, SlotTypes, TaskTypes,
    SwFrame, FlushCopy, FlushMask, tlbVars, mmVars, loadVars, slotVars, hwVars, cr3Vars
<1>9. BatchedMmKnown'
  BY <1>1, TlbAssumption, Zenon DEF TypeInv, BatchedMmKnown, TaskTypes, FlushTypes, Info,
    FlushCopy, tlbVars, mmVars, loadVars, slotVars, hwVars, cr3Vars
<1>10. QED
  BY <1>5, <1>6, <1>7, <1>8, <1>9 DEF TypeInv, TypeOK

\* The return of a flush to its caller keeps the types.
LEMMA FlushReturnType ==
    ASSUME TypeInv, NEW c \in Cpu,
           FlushReturn(c)
    PROVE  TypeInv'
<1>1. MmTypes /\ SlotTypes /\ HwTypes /\ TaskTypes /\ FlushTypes
  BY DEF TypeInv, TypeOK
<1>2. pc' \in [Cpu -> TaskPc]
  BY <1>1, Zenon DEF TaskTypes, FlushReturn, TaskPc
<1>3. info' \in [Cpu -> Info]
  BY <1>1, IdleFrames, Zenon DEF FlushTypes, FlushReturn
<1>4. batch' \in [mask : SUBSET Cpu, gens : [Mm -> Gen], n : Nat]
  BY <1>1, IdleFrames, Zenon DEF FlushTypes, FlushReturn
<1>5. promise' \in [Cpu -> [Mm -> Gen]]
  BY <1>1, IdleFrames, Zenon DEF FlushTypes, FlushReturn
<1>6. done_gen' \in [Mm -> Gen]
  BY <1>1, Zenon DEF FlushTypes, FlushReturn
<1>7. table_gen' \in [Mm -> Gen]
  BY <1>1 DEF FlushTypes, FlushReturn
<1>8. TaskTypes'
  BY <1>1, <1>2, Zenon DEF TaskTypes, FlushReturn, tlbVars, mmVars, loadVars, slotVars,
    hwVars,
    cr3Vars
<1>9. FlushTypes'
  BY <1>1, <1>3, <1>4, <1>5, <1>6, <1>7, Zenon DEF FlushTypes, FlushReturn, tlbVars,
    mmVars,
    loadVars, slotVars, hwVars, cr3Vars
<1>10. MmTypes' /\ SlotTypes' /\ HwTypes'
  BY <1>1, Zenon DEF MmTypes, SlotTypes, HwTypes, FlushReturn, tlbVars, mmVars, loadVars,
    slotVars, hwVars, cr3Vars
<1>11. SwitchingOnlyInSwitch'
  BY <1>1, TlbAssumption, ZenonT(30) DEF TypeInv, SwitchingOnlyInSwitch, SlotTypes,
    TaskTypes,
    SwFrame, FlushReturn, NoInfo, NoBatch, NoPromise, tlbVars, mmVars, loadVars,
    slotVars, hwVars, cr3Vars
<1>12. BatchedMmKnown'
  BY <1>1, TlbAssumption DEF TypeInv, BatchedMmKnown, TaskTypes, FlushTypes, Info,
    FlushReturn, tlbVars, mmVars, loadVars, slotVars, hwVars, cr3Vars
<1>13. QED
  BY <1>8, <1>9, <1>10, <1>11, <1>12 DEF TypeInv, TypeOK

\* enter_lazy_tlb() keeps the types.
LEMMA enter_lazy_tlbType ==
    ASSUME TypeInv, NEW c \in Cpu,
           enter_lazy_tlb(c)
    PROVE  TypeInv'
<1>1. MmTypes /\ SlotTypes /\ HwTypes /\ TaskTypes /\ FlushTypes
  BY DEF TypeInv, TypeOK
<1>2. is_lazy' \in [Cpu -> BOOLEAN]
  BY <1>1 DEF TaskTypes, enter_lazy_tlb, CanBeLazy
<1>3. pc' \in [Cpu -> TaskPc]
  BY <1>1, Zenon DEF TaskTypes, enter_lazy_tlb, TaskPc
<1>4. TaskTypes'
  BY <1>1, <1>2, <1>3, Zenon DEF TaskTypes, enter_lazy_tlb, mmVars, loadVars, slotVars,
    hwVars,
    cr3Vars, flushVars
<1>5. MmTypes' /\ SlotTypes' /\ HwTypes' /\ FlushTypes'
  BY <1>1, Zenon DEF MmTypes, SlotTypes, HwTypes, FlushTypes, enter_lazy_tlb, mmVars,
    loadVars,
    slotVars, hwVars, cr3Vars, flushVars
<1>6. SwitchingOnlyInSwitch'
  BY <1>1, TlbAssumption, Zenon DEF TypeInv, SwitchingOnlyInSwitch, SlotTypes, TaskTypes,
    SwFrame, enter_lazy_tlb, mmVars, loadVars, slotVars, hwVars, cr3Vars, flushVars
<1>7. BatchedMmKnown'
  BY <1>1, TlbAssumption DEF TypeInv, BatchedMmKnown, TaskTypes, FlushTypes, Info,
    enter_lazy_tlb, mmVars, loadVars, slotVars, hwVars, cr3Vars, flushVars
<1>8. QED
  BY <1>4, <1>5, <1>6, <1>7 DEF TypeInv, TypeOK

\* initialize_tlbstate_and_flush() keeps the types.
LEMMA initialize_tlbstate_and_flushType ==
    ASSUME TypeInv, NEW c \in Cpu,
           initialize_tlbstate_and_flush(c)
    PROVE  TypeInv'
<1>1. MmTypes /\ SlotTypes /\ HwTypes /\ TaskTypes /\ FlushTypes
  BY DEF TypeInv, TypeOK
<1>2. loaded_mm_asid' \in [Cpu -> Asid]
  BY <1>1, Zero DEF SlotTypes, initialize_tlbstate_and_flush
<1>3. next_asid' \in [Cpu -> 1 .. TLB_NR_DYN_ASIDS]
  BY <1>1, Zero DEF SlotTypes, initialize_tlbstate_and_flush
<1>4. ctx_id' \in [Cpu -> [Asid -> Nat]]
  BY <1>1, Zero DEF SlotTypes, initialize_tlbstate_and_flush
<1>5. ctx_gen' \in [Cpu -> [Asid -> Gen]]
  BY <1>1, Zero, Zenon DEF SlotTypes, initialize_tlbstate_and_flush
<1>6. cr3_asid' \in [Cpu -> Asid]
  BY <1>1, Zero DEF HwTypes, initialize_tlbstate_and_flush
<1>7. /\ tlb' \in [Cpu -> [Asid -> SUBSET Entry]]
      /\ utlb' \in [Cpu -> [Asid -> SUBSET Entry]]
      /\ kstale' \in [Cpu -> SUBSET (Asid \X {"k", "u"})]
  <2>1. CASE PCID
    <3>1. 0 \in Asid
      BY <1>1, Zero DEF Asid
    <3>2. tlb' = tlb \/ tlb' = [tlb EXCEPT ![c][0] = {}]
      BY <2>1 DEF initialize_tlbstate_and_flush
    <3>3. utlb' = utlb \/ utlb' = [utlb EXCEPT ![c][0] = {}]
      BY <2>1 DEF initialize_tlbstate_and_flush
    <3>4. kstale' = kstale \/ \E K : kstale' = [kstale EXCEPT ![c] = @ \ K]
      BY <2>1, Zenon DEF initialize_tlbstate_and_flush
    <3>5. /\ tlb \in [Cpu -> [Asid -> SUBSET Entry]]
          /\ utlb \in [Cpu -> [Asid -> SUBSET Entry]]
          /\ kstale \in [Cpu -> SUBSET (Asid \X {"k", "u"})]
      BY <1>1 DEF HwTypes
    <3>6. {} \in SUBSET Entry
      OBVIOUS
    <3>7. tlb' \in [Cpu -> [Asid -> SUBSET Entry]]
      BY <3>1, <3>2, <3>5, <3>6, SetPcidType, Zenon
    <3>8. utlb' \in [Cpu -> [Asid -> SUBSET Entry]]
      BY <3>1, <3>3, <3>5, <3>6, SetPcidType, Zenon
    <3>9. kstale' \in [Cpu -> SUBSET (Asid \X {"k", "u"})]
      BY <1>1, <3>4, KstaleStepType, Zenon
    <3>10. QED
      BY <3>7, <3>8, <3>9
  <2>2. CASE ~PCID
    BY <1>1, <2>2, DropAllType DEF initialize_tlbstate_and_flush
  <2>3. QED
    BY <2>1, <2>2
<1>8. SlotTypes'
  BY <1>1, <1>2, <1>3, <1>4, <1>5 DEF SlotTypes, initialize_tlbstate_and_flush, mmVars,
    flushVars
<1>9. HwTypes'
  BY <1>1, <1>6, <1>7, Zenon DEF HwTypes, initialize_tlbstate_and_flush, mmVars,
    flushVars
<1>10. MmTypes' /\ TaskTypes' /\ FlushTypes'
  BY <1>1, Zenon DEF MmTypes, TaskTypes, FlushTypes, initialize_tlbstate_and_flush,
    mmVars,
    flushVars
<1>11. SwitchingOnlyInSwitch'
  BY <1>1, TlbAssumption, Zenon DEF TypeInv, SwitchingOnlyInSwitch, SlotTypes, TaskTypes,
    SwFrame, initialize_tlbstate_and_flush, DropAll, mmVars, flushVars
<1>12. BatchedMmKnown'
  BY <1>1, TlbAssumption DEF TypeInv, BatchedMmKnown, TaskTypes, FlushTypes, Info,
    initialize_tlbstate_and_flush, mmVars, flushVars
<1>13. QED
  BY <1>8, <1>9, <1>10, <1>11, <1>12 DEF TypeInv, TypeOK

\* SWITCH_TO_USER_CR3 keeps the types, whether or not a flush is due.
LEMMA SwitchToUserCr3Type ==
    ASSUME TypeInv, NEW c \in Cpu,
           SwitchToUserCr3(c)
    PROVE  TypeInv'
<1>1. MmTypes /\ SlotTypes /\ HwTypes /\ TaskTypes /\ FlushTypes
  BY DEF TypeInv, TypeOK
<1>2. user_pcid_flush_mask' \in [Cpu -> SUBSET Asid]
  <2>1. user_pcid_flush_mask \in [Cpu -> SUBSET Asid]
    BY <1>1 DEF HwTypes
  <2>2. \/ user_pcid_flush_mask' = user_pcid_flush_mask
        \/ user_pcid_flush_mask' = [user_pcid_flush_mask EXCEPT ![c] = @ \ {cr3_asid[c]}]
    BY DEF SwitchToUserCr3
  <2>3. QED
    BY <2>1, <2>2
<1>3. usermode' \in [Cpu -> BOOLEAN]
  BY <1>1, Zenon DEF HwTypes, SwitchToUserCr3
<1>4. /\ tlb' \in [Cpu -> [Asid -> SUBSET Entry]]
      /\ utlb' \in [Cpu -> [Asid -> SUBSET Entry]]
      /\ kstale' \in [Cpu -> SUBSET (Asid \X {"k", "u"})]
  <2>1. CASE PCID
    <3>1. cr3_asid[c] \in Asid
      BY <1>1 DEF HwTypes
    <3>2. tlb' = tlb \/ tlb' = [tlb EXCEPT ![c][cr3_asid[c]] = {}]
      BY <2>1 DEF SwitchToUserCr3
    <3>3. utlb' = utlb \/ utlb' = [utlb EXCEPT ![c][cr3_asid[c]] = {}]
      BY <2>1 DEF SwitchToUserCr3
    <3>4. kstale' = kstale \/ \E K : kstale' = [kstale EXCEPT ![c] = @ \ K]
      BY <2>1, Zenon DEF SwitchToUserCr3
    <3>5. /\ tlb \in [Cpu -> [Asid -> SUBSET Entry]]
          /\ utlb \in [Cpu -> [Asid -> SUBSET Entry]]
          /\ kstale \in [Cpu -> SUBSET (Asid \X {"k", "u"})]
      BY <1>1 DEF HwTypes
    <3>6. {} \in SUBSET Entry
      OBVIOUS
    <3>7. tlb' \in [Cpu -> [Asid -> SUBSET Entry]]
      BY <3>1, <3>2, <3>5, <3>6, SetPcidType, Zenon
    <3>8. utlb' \in [Cpu -> [Asid -> SUBSET Entry]]
      BY <3>1, <3>3, <3>5, <3>6, SetPcidType, ZenonT(30)
    <3>9. kstale' \in [Cpu -> SUBSET (Asid \X {"k", "u"})]
      BY <1>1, <3>4, KstaleStepType, Zenon
    <3>10. QED
      BY <3>7, <3>8, <3>9
  <2>2. CASE ~PCID
    BY <1>1, <2>2, DropAllType DEF SwitchToUserCr3
  <2>3. QED
    BY <2>1, <2>2
<1>5. HwTypes'
  BY <1>1, <1>2, <1>3, <1>4, Zenon DEF HwTypes, SwitchToUserCr3, mmVars, loadVars,
    slotVars, cr3Vars, flushVars
<1>6. MmTypes' /\ SlotTypes' /\ TaskTypes' /\ FlushTypes'
  BY <1>1, Zenon DEF MmTypes, SlotTypes, TaskTypes, FlushTypes, SwitchToUserCr3, mmVars,
    loadVars, slotVars, cr3Vars, flushVars
<1>7. SwitchingOnlyInSwitch'
  BY <1>1, TlbAssumption, Zenon DEF TypeInv, SwitchingOnlyInSwitch, SlotTypes, TaskTypes,
    SwFrame, SwitchToUserCr3, DropAll, mmVars, loadVars, slotVars, cr3Vars, flushVars
<1>8. BatchedMmKnown'
  BY <1>1, TlbAssumption DEF TypeInv, BatchedMmKnown, TaskTypes, FlushTypes, Info,
    SwitchToUserCr3, mmVars, loadVars, slotVars, cr3Vars, flushVars
<1>9. QED
  BY <1>5, <1>6, <1>7, <1>8 DEF TypeInv, TypeOK

\* SWITCH_TO_KERNEL_CR3 keeps the types.
LEMMA SwitchToKernelCr3Type ==
    ASSUME TypeInv, NEW c \in Cpu,
           SwitchToKernelCr3(c)
    PROVE  TypeInv'
<1>1. MmTypes /\ SlotTypes /\ HwTypes /\ TaskTypes /\ FlushTypes
  BY DEF TypeInv, TypeOK
<1>2. usermode' \in [Cpu -> BOOLEAN]
  BY <1>1 DEF HwTypes, SwitchToKernelCr3
<1>3. /\ tlb' \in [Cpu -> [Asid -> SUBSET Entry]]
      /\ utlb' \in [Cpu -> [Asid -> SUBSET Entry]]
      /\ kstale' \in [Cpu -> SUBSET (Asid \X {"k", "u"})]
  <2>1. CASE PCID
    BY <1>1, <2>1 DEF HwTypes, SwitchToKernelCr3
  <2>2. CASE ~PCID
    BY <1>1, <2>2, DropAllType, Zenon DEF SwitchToKernelCr3
  <2>3. QED
    BY <2>1, <2>2
<1>4. HwTypes'
  BY <1>1, <1>2, <1>3, Zenon DEF HwTypes, SwitchToKernelCr3, mmVars, loadVars,
    slotVars, cr3Vars, flushVars
<1>5. MmTypes' /\ SlotTypes' /\ TaskTypes' /\ FlushTypes'
  BY <1>1, Zenon DEF MmTypes, SlotTypes, TaskTypes, FlushTypes, SwitchToKernelCr3, mmVars,
    loadVars, slotVars, cr3Vars, flushVars
<1>6. SwitchingOnlyInSwitch'
  BY <1>1, TlbAssumption, Zenon DEF TypeInv, SwitchingOnlyInSwitch, SlotTypes, TaskTypes,
    SwFrame, SwitchToKernelCr3, DropAll, mmVars, loadVars, slotVars, cr3Vars, flushVars
<1>7. BatchedMmKnown'
  BY <1>1, TlbAssumption DEF TypeInv, BatchedMmKnown, TaskTypes, FlushTypes, Info,
    SwitchToKernelCr3, mmVars, loadVars, slotVars, cr3Vars, flushVars
<1>8. QED
  BY <1>4, <1>5, <1>6, <1>7 DEF TypeInv, TypeOK

\* The start of arch_tlbbatch_flush() keeps the types.
LEMMA arch_tlbbatch_flushType ==
    ASSUME TypeInv, NEW c \in Cpu,
           arch_tlbbatch_flush(c)
    PROVE  TypeInv'
<1>1. MmTypes /\ SlotTypes /\ HwTypes /\ TaskTypes /\ FlushTypes
  BY DEF TypeInv, TypeOK
<1>2. pc' \in [Cpu -> TaskPc]
  BY <1>1 DEF TaskTypes, arch_tlbbatch_flush, TaskPc
<1>3. promise' \in [Cpu -> [Mm -> Gen]]
  BY <1>1 DEF FlushTypes, arch_tlbbatch_flush
<1>4. TaskTypes'
  BY <1>1, <1>2, Zenon DEF TaskTypes, arch_tlbbatch_flush, tlbVars, mmVars, loadVars,
    slotVars,
    hwVars, cr3Vars
<1>5. FlushTypes'
  BY <1>1, <1>3, Zenon DEF FlushTypes, arch_tlbbatch_flush, tlbVars, mmVars, loadVars,
    slotVars, hwVars, cr3Vars
<1>6. MmTypes' /\ SlotTypes' /\ HwTypes'
  BY <1>1, Zenon DEF MmTypes, SlotTypes, HwTypes, arch_tlbbatch_flush, tlbVars, mmVars,
    loadVars, slotVars, hwVars, cr3Vars
<1>7. SwitchingOnlyInSwitch'
  BY <1>1, TlbAssumption, Zenon DEF TypeInv, SwitchingOnlyInSwitch, SlotTypes, TaskTypes,
    SwFrame, arch_tlbbatch_flush, tlbVars, mmVars, loadVars, slotVars, hwVars, cr3Vars
<1>8. BatchedMmKnown'
  BY <1>1, TlbAssumption, Zenon DEF TypeInv, BatchedMmKnown, TaskTypes, FlushTypes, Info,
    arch_tlbbatch_flush, tlbVars, mmVars, loadVars, slotVars, hwVars, cr3Vars
<1>9. QED
  BY <1>4, <1>5, <1>6, <1>7, <1>8 DEF TypeInv, TypeOK

\* do_kernel_range_flush() keeps the types.
LEMMA do_kernel_range_flushType ==
    ASSUME TypeInv, NEW c \in Cpu,
           do_kernel_range_flush(c)
    PROVE  TypeInv'
<1>1. MmTypes /\ SlotTypes /\ HwTypes /\ TaskTypes /\ FlushTypes
  BY DEF TypeInv, TypeOK
<1>2. invalidate_other' \in [Cpu -> BOOLEAN]
  BY <1>1 DEF SlotTypes, do_kernel_range_flush
<1>3. user_pcid_flush_mask' \in [Cpu -> SUBSET Asid]
  <2>1. loaded_mm_asid[c] \in Asid
    BY <1>1 DEF SlotTypes
  <2>2. invalidate_user_asid(c, loaded_mm_asid[c]) \/ UNCHANGED user_pcid_flush_mask
    BY Zenon DEF do_kernel_range_flush
  <2>3. QED
    BY <1>1, <2>1, <2>2, InvalidateUserType
<1>4. kstale' \in [Cpu -> SUBSET (Asid \X {"k", "u"})]
  BY <1>1, Zenon DEF HwTypes, do_kernel_range_flush
<1>5. SlotTypes'
  BY <1>1, <1>2, Zenon DEF SlotTypes, do_kernel_range_flush, mmVars, loadVars, cr3Vars,
    flushVars
<1>6. HwTypes'
  BY <1>1, <1>3, <1>4, Zenon DEF HwTypes, do_kernel_range_flush, mmVars, loadVars,
    cr3Vars,
    flushVars
<1>7. MmTypes' /\ TaskTypes' /\ FlushTypes'
  BY <1>1, Zenon DEF MmTypes, TaskTypes, FlushTypes, do_kernel_range_flush, mmVars,
    loadVars,
    cr3Vars, flushVars
<1>8. SwitchingOnlyInSwitch'
  BY <1>1, TlbAssumption, Zenon DEF TypeInv, SwitchingOnlyInSwitch, SlotTypes, TaskTypes,
    SwFrame, do_kernel_range_flush, mmVars, loadVars, cr3Vars, flushVars
<1>9. BatchedMmKnown'
  BY <1>1, TlbAssumption DEF TypeInv, BatchedMmKnown, TaskTypes, FlushTypes, Info,
    do_kernel_range_flush, mmVars, loadVars, cr3Vars, flushVars
<1>10. QED
  BY <1>5, <1>6, <1>7, <1>8, <1>9 DEF TypeInv, TypeOK

\* do_flush_tlb_all() keeps the types.
LEMMA do_flush_tlb_allType ==
    ASSUME TypeInv, NEW c \in Cpu,
           do_flush_tlb_all(c)
    PROVE  TypeInv'
<1>1. MmTypes /\ SlotTypes /\ HwTypes /\ TaskTypes /\ FlushTypes
  BY DEF TypeInv, TypeOK
<1>2. tlb' \in [Cpu -> [Asid -> SUBSET Entry]]
  BY <1>1 DEF HwTypes, do_flush_tlb_all, DropAll
<1>3. utlb' \in [Cpu -> [Asid -> SUBSET Entry]]
  BY <1>1 DEF HwTypes, do_flush_tlb_all, DropAll
<1>4. kstale' \in [Cpu -> SUBSET (Asid \X {"k", "u"})]
  BY <1>1, Zenon DEF HwTypes, do_flush_tlb_all, DropAll
<1>5. HwTypes'
  BY <1>1, <1>2, <1>3, <1>4, Zenon DEF HwTypes, do_flush_tlb_all, mmVars, loadVars,
    slotVars,
    cr3Vars, flushVars
<1>6. MmTypes' /\ SlotTypes' /\ TaskTypes' /\ FlushTypes'
  BY <1>1, Zenon DEF MmTypes, SlotTypes, TaskTypes, FlushTypes, do_flush_tlb_all, mmVars,
    loadVars, slotVars, cr3Vars, flushVars
<1>7. SwitchingOnlyInSwitch'
  BY <1>1, TlbAssumption, Zenon DEF TypeInv, SwitchingOnlyInSwitch, SlotTypes, TaskTypes,
    SwFrame, do_flush_tlb_all, DropAll, mmVars, loadVars, slotVars, cr3Vars, flushVars
<1>8. BatchedMmKnown'
  BY <1>1, TlbAssumption DEF TypeInv, BatchedMmKnown, TaskTypes, FlushTypes, Info,
    do_flush_tlb_all, mmVars, loadVars, slotVars, cr3Vars, flushVars
<1>9. QED
  BY <1>5, <1>6, <1>7, <1>8 DEF TypeInv, TypeOK

\* Sending one flush IPI keeps the types.
LEMMA FlushSendType ==
    ASSUME TypeInv, NEW c \in Cpu, NEW d \in Cpu,
           FlushSend(c, d)
    PROVE  TypeInv'
<1>1. MmTypes /\ SlotTypes /\ HwTypes /\ TaskTypes /\ FlushTypes
  BY DEF TypeInv, TypeOK
<1>2. ipi' \in [Cpu -> SUBSET Cpu]
  BY <1>1 DEF TaskTypes, FlushSend
<1>3. todo' \in [Cpu -> SUBSET Cpu]
  BY <1>1, Zenon DEF FlushTypes, FlushSend
<1>4. TaskTypes'
  BY <1>1, <1>2, Zenon DEF TaskTypes, FlushSend, tlbVars, mmVars, loadVars, slotVars,
    hwVars,
    cr3Vars
<1>5. FlushTypes'
  BY <1>1, <1>3, Zenon DEF FlushTypes, FlushSend, tlbVars, mmVars, loadVars, slotVars,
    hwVars,
    cr3Vars
<1>6. MmTypes' /\ SlotTypes' /\ HwTypes'
  BY <1>1, Zenon DEF MmTypes, SlotTypes, HwTypes, FlushSend, tlbVars, mmVars, loadVars,
    slotVars, hwVars, cr3Vars
<1>7. SwitchingOnlyInSwitch'
  BY <1>1, TlbAssumption, Zenon DEF TypeInv, SwitchingOnlyInSwitch, SlotTypes, TaskTypes,
    SwFrame, FlushSend, tlbVars, mmVars, loadVars, slotVars, hwVars, cr3Vars
<1>8. BatchedMmKnown'
  BY <1>1, TlbAssumption DEF TypeInv, BatchedMmKnown, TaskTypes, FlushTypes, Info,
    FlushSend, tlbVars, mmVars, loadVars, slotVars, hwVars, cr3Vars
<1>9. QED
  BY <1>4, <1>5, <1>6, <1>7, <1>8 DEF TypeInv, TypeOK

\* A page walk keeps the types: it caches an entry of a mm that exists.
LEMMA TlbFillType ==
    ASSUME TypeInv, NEW c \in Cpu, NEW p \in Page,
           TlbFill(c, p)
    PROVE  TypeInv'
<1>1. MmTypes /\ SlotTypes /\ HwTypes /\ TaskTypes /\ FlushTypes
  BY DEF TypeInv, TypeOK
<1>2. /\ tlb' \in [Cpu -> [Asid -> SUBSET Entry]]
      /\ utlb' \in [Cpu -> [Asid -> SUBSET Entry]]
  <2> DEFINE a == cr3_asid[c]
             e == [ctx |-> mm_ctx_id[cr3_mm[c]], page |-> p, ver |-> pte[cr3_mm[c]][p]]
  <2>1. a \in Asid /\ e \in Entry
    <3>1. cr3_mm[c] \in Mm
      BY DEF TlbFill
    <3>2. mm_ctx_id[cr3_mm[c]] \in CtxId /\ pte[cr3_mm[c]][p] \in Version
      BY <1>1, <3>1, Zenon DEF MmTypes
    <3>3. e \in Entry
      BY <3>2, Zenon DEF Entry
    <3>4. QED
      BY <1>1, <3>3, Zenon DEF HwTypes
  <2>2. tlb[c][a] \cup {e} \in SUBSET Entry /\ utlb[c][a] \cup {e} \in SUBSET Entry
    <3> HIDE DEF a, e
    <3>1. tlb[c] \in [Asid -> SUBSET Entry] /\ utlb[c] \in [Asid -> SUBSET Entry]
      BY <1>1, Zenon DEF HwTypes
    <3>2. tlb[c][a] \in SUBSET Entry /\ utlb[c][a] \in SUBSET Entry
      BY <2>1, <3>1
    <3>3. QED
      BY <2>1, <3>2
  <2>3. /\ tlb' = tlb \/ tlb' = [tlb EXCEPT ![c][a] = tlb[c][a] \cup {e}]
        /\ utlb' = utlb \/ utlb' = [utlb EXCEPT ![c][a] = utlb[c][a] \cup {e}]
    BY <1>1, <2>1, Zenon DEF HwTypes, TlbFill
  <2>4. tlb \in [Cpu -> [Asid -> SUBSET Entry]] /\ utlb \in [Cpu -> [Asid -> SUBSET Entry]]
    BY <1>1 DEF HwTypes
  <2>5. tlb' \in [Cpu -> [Asid -> SUBSET Entry]]
    BY <2>1, <2>2, <2>3, <2>4, SetPcidType, Zenon
  <2>6. utlb' \in [Cpu -> [Asid -> SUBSET Entry]]
    BY <2>1, <2>2, <2>3, <2>4, SetPcidType, Zenon
  <2>7. QED
    BY <2>5, <2>6
<1>3. HwTypes'
  BY <1>1, <1>2, Zenon DEF HwTypes, TlbFill, mmVars, loadVars, slotVars, cr3Vars,
    flushVars
<1>4. MmTypes' /\ SlotTypes' /\ TaskTypes' /\ FlushTypes'
  BY <1>1, Zenon DEF MmTypes, SlotTypes, TaskTypes, FlushTypes, TlbFill, mmVars, loadVars,
    slotVars, cr3Vars, flushVars
<1>5. SwitchingOnlyInSwitch'
  BY <1>1, TlbAssumption, Zenon DEF TypeInv, SwitchingOnlyInSwitch, SlotTypes, TaskTypes,
    SwFrame, TlbFill, mmVars, loadVars, slotVars, cr3Vars, flushVars
<1>6. BatchedMmKnown'
  BY <1>1, TlbAssumption, Zenon DEF TypeInv, BatchedMmKnown, TaskTypes, FlushTypes, Info,
    TlbFill, mmVars, loadVars, slotVars, cr3Vars, flushVars
<1>7. QED
  BY <1>3, <1>4, <1>5, <1>6 DEF TypeInv, TypeOK

\* A change of a page table entry keeps the types.
LEMMA ChangePteType ==
    ASSUME TypeInv, NEW m \in Mm, NEW p \in Page,
           ChangePte(m, p)
    PROVE  TypeInv'
<1>1. MmTypes /\ SlotTypes /\ HwTypes /\ TaskTypes /\ FlushTypes
  BY DEF TypeInv, TypeOK
<1>2. pte' \in [Mm -> [Page -> Version]]
  BY <1>1, TlbAssumption DEF MmTypes, ChangePte, Version
<1>3. MmTypes'
  BY <1>1, <1>2, Zenon DEF MmTypes, ChangePte, loadVars, slotVars, hwVars, cr3Vars,
    flushVars
<1>4. SlotTypes' /\ HwTypes' /\ TaskTypes' /\ FlushTypes'
  BY <1>1, ZenonT(30) DEF SlotTypes, HwTypes, TaskTypes, FlushTypes, ChangePte,
    loadVars, slotVars,
    hwVars, cr3Vars, flushVars
<1>5. SwitchingOnlyInSwitch'
  BY <1>1, TlbAssumption, Zenon DEF TypeInv, SwitchingOnlyInSwitch, SlotTypes, TaskTypes,
    SwFrame, ChangePte, loadVars, slotVars, hwVars, cr3Vars, flushVars
<1>6. BatchedMmKnown'
  BY <1>1, TlbAssumption DEF TypeInv, BatchedMmKnown, TaskTypes, FlushTypes, Info,
    ChangePte, loadVars, slotVars, hwVars, cr3Vars, flushVars
<1>7. QED
  BY <1>3, <1>4, <1>5, <1>6, Zenon DEF TypeInv, TypeOK

\* init_new_context() keeps the types.
LEMMA InitNewContextType ==
    ASSUME TypeInv, NEW m \in Mm,
           InitNewContext(m)
    PROVE  TypeInv'
<1>1. MmTypes /\ SlotTypes /\ HwTypes /\ TaskTypes /\ FlushTypes
  BY DEF TypeInv, TypeOK
<1>2. mm_ctx_id' \in [Mm -> CtxId]
  BY <1>1, TlbAssumption DEF MmTypes, InitNewContext, NewCtxId, CtxId
<1>3. last_mm_ctx_id' \in Nat
  <2>1. last_mm_ctx_id' = last_mm_ctx_id + 1
    BY Zenon DEF InitNewContext
  <2>2. last_mm_ctx_id \in Nat
    BY <1>1, Zenon DEF MmTypes
  <2>3. QED
    BY <2>1, <2>2
<1>4. tlb_gen' \in [Mm -> Gen]
  BY <1>1, Zero, Zenon DEF MmTypes, InitNewContext
<1>5. mm_cpumask' \in [Mm -> SUBSET Cpu]
  BY <1>1, Zenon DEF MmTypes, InitNewContext
<1>6. MmTypes'
  BY <1>1, <1>2, <1>3, <1>4, <1>5, Zenon DEF MmTypes, InitNewContext, loadVars, slotVars,
    hwVars, cr3Vars, flushVars
<1>7. SlotTypes' /\ HwTypes' /\ TaskTypes' /\ FlushTypes'
  BY <1>1, Zenon DEF SlotTypes, HwTypes, TaskTypes, FlushTypes, InitNewContext, loadVars,
    slotVars, hwVars, cr3Vars, flushVars
<1>8. SwitchingOnlyInSwitch'
  BY <1>1, TlbAssumption DEF TypeInv, SwitchingOnlyInSwitch, SlotTypes, TaskTypes,
    SwFrame, InitNewContext, loadVars, slotVars, hwVars, cr3Vars, flushVars
<1>9. BatchedMmKnown'
  BY <1>1, TlbAssumption, Zenon DEF TypeInv, BatchedMmKnown, TaskTypes, FlushTypes, Info,
    InitNewContext, loadVars, slotVars, hwVars, cr3Vars, flushVars
<1>10. QED
  BY <1>6, <1>7, <1>8, <1>9, Zenon DEF TypeInv, TypeOK

\* Freeing a mm keeps the types.
LEMMA FreeMmType ==
    ASSUME TypeInv, NEW m \in Mm,
           FreeMm(m)
    PROVE  TypeInv'
<1>1. MmTypes /\ SlotTypes /\ HwTypes /\ TaskTypes /\ FlushTypes
  BY DEF TypeInv, TypeOK
<1>2. mm_ctx_id' \in [Mm -> CtxId]
  BY <1>1, Zero DEF MmTypes, FreeMm
<1>3. pte' \in [Mm -> [Page -> Version]]
  BY <1>1, Zero DEF MmTypes, FreeMm
<1>4. floor' \in [Mm -> [Gen -> [Page -> Version]]]
  BY <1>1, Zero DEF MmTypes, FreeMm
<1>5. batch' \in [mask : SUBSET Cpu, gens : [Mm -> Gen], n : Nat]
  BY <1>1, Zero, Zenon DEF FlushTypes, FreeMm
<1>6. done_gen' \in [Mm -> Gen]
  BY <1>1, Zero DEF FlushTypes, FreeMm
<1>7. table_gen' \in [Mm -> Gen]
  BY <1>1, Zero DEF FlushTypes, FreeMm
<1>8. MmTypes'
  BY <1>1, <1>2, <1>3, <1>4 DEF MmTypes, FreeMm, loadVars, slotVars, hwVars, cr3Vars
<1>9. FlushTypes'
  BY <1>1, <1>5, <1>6, <1>7, Zenon DEF FlushTypes, FreeMm, loadVars, slotVars, hwVars,
    cr3Vars
<1>10. SlotTypes' /\ HwTypes' /\ TaskTypes'
  BY <1>1 DEF SlotTypes, HwTypes, TaskTypes, FreeMm, loadVars, slotVars, hwVars, cr3Vars
<1>11. SwitchingOnlyInSwitch'
  BY <1>1, TlbAssumption DEF TypeInv, SwitchingOnlyInSwitch, SlotTypes, TaskTypes,
    SwFrame, FreeMm, loadVars, slotVars, hwVars, cr3Vars
<1>12. BatchedMmKnown'
  BY <1>1, TlbAssumption DEF TypeInv, BatchedMmKnown, TaskTypes, FlushTypes, Info,
    FreeMm, loadVars, slotVars, hwVars, cr3Vars
<1>13. QED
  BY <1>8, <1>9, <1>10, <1>11, <1>12 DEF TypeInv, TypeOK

\* The CPUs start on init_mm with empty TLBs.
LEMMA InitType == Init => TypeInv
<1> SUFFICES ASSUME Init PROVE TypeInv
  BY Zenon
<1>1. MmTypes
  BY Zero, Zenon DEF Init, MmTypes
<1>2. SlotTypes
  BY Zero, TlbAssumption DEF Init, SlotTypes, InitCtx
<1>3. HwTypes
  BY Zero, Zenon DEF Init, HwTypes
<1>4. TaskTypes
  BY IdleFrames DEF Init, TaskTypes, TaskPc
<1>5. FlushTypes
  BY Zero, IdleFrames, Zenon DEF Init, FlushTypes, NoBatch, NoPromise
<1>6. SwitchingOnlyInSwitch
  BY TlbAssumption, Zenon DEF Init, SwitchingOnlyInSwitch
<1>7. BatchedMmKnown
  BY DEF Init, BatchedMmKnown
<1>8. QED
  BY <1>1, <1>2, <1>3, <1>4, <1>5, <1>6, <1>7 DEF TypeInv, TypeOK

\* What a CPU goes on with keeps the types.
LEMMA ProgressType ==
    ASSUME TypeInv, NEW c \in Cpu, Progress(c)
    PROVE  TypeInv'
<1>1. CASE SwSame(c) \/ SwClear(c) \/ SwSet(c) \/ SwRead(c) \/ SwCr3(c) \/ SwDone(c)
  BY <1>1, SwSameType, SwClearType, SwSetType, SwReadType, SwCr3Type, SwDoneType
<1>2. CASE FuncLazyDone(c) \/ FuncInvalidate(c) \/ FuncSetGen(c) \/ \E i \in Cpu : HandleIpi(c, i)
  BY <1>2, FuncLazyDoneType, FuncInvalidateType, FuncSetGenType, HandleIpiType
<1>3. CASE SwitchTo(c) \/ BatchOr(c)
  BY <1>3, SwitchToType, BatchOrType
<1>4. CASE FlushHere(c) \/ FlushMulti(c) \/ FlushCopy(c) \/ (\E d \in Cpu : FlushSend(c, d))
           \/ FlushLocal(c) \/ FlushReturn(c)
  BY <1>4, FlushHereType, FlushMultiType, FlushCopyType, FlushSendType, FlushLocalType,
     FlushReturnType
<1>5. CASE SwitchToKernelCr3(c)
  BY <1>5, SwitchToKernelCr3Type, Zenon
<1>6. QED
  BY <1>1, <1>2, <1>3, <1>4, <1>5, Zenon DEF Progress

\* What a CPU begins keeps the types.
LEMMA BeginType ==
    ASSUME TypeInv, NEW c \in Cpu, Begin(c)
    PROVE  TypeInv'
<1>1. CASE \E m \in Mm : SwitchToUser(c, m)
  BY <1>1, SwitchToUserType
<1>2. CASE enter_lazy_tlb(c) \/ leave_mm(c) \/ initialize_tlbstate_and_flush(c)
  BY <1>2, enter_lazy_tlbType, leave_mmType, initialize_tlbstate_and_flushType
<1>3. CASE SwitchToUserCr3(c) \/ SwitchToKernelCr3(c)
  BY <1>3, SwitchToUserCr3Type, SwitchToKernelCr3Type
<1>4. CASE \E m \in Mm, R \in SUBSET Page \ {{}}, freed \in FreedTables :
             flush_tlb_mm_range(c, m, R, freed)
  <2>1. PICK m \in Mm, R \in SUBSET Page, freed \in BOOLEAN :
             flush_tlb_mm_range(c, m, R, freed)
    BY <1>4, TlbAssumption
  <2>2. QED
    BY <2>1, flush_tlb_mm_rangeType
<1>5. CASE \E m \in Mm, p \in Page : arch_tlbbatch_add_pending(c, m, p)
  BY <1>5, arch_tlbbatch_add_pendingType
<1>6. CASE arch_tlbbatch_flush(c)
  BY <1>6, arch_tlbbatch_flushType
<1>7. CASE do_kernel_range_flush(c) \/ do_flush_tlb_all(c)
  BY <1>7, do_kernel_range_flushType, do_flush_tlb_allType
<1>8. QED
  BY <1>1, <1>2, <1>3, <1>4, <1>5, <1>6, <1>7 DEF Begin

\* A step that changes nothing keeps the types.
LEMMA StutterType ==
    ASSUME TypeInv, UNCHANGED vars
    PROVE  TypeInv'
<1>1. UNCHANGED <<tlbVars, curr_mm, pc, sw, h, ipi, flushVars>>
  BY DEF vars
<1>2. MmTypes'
  BY <1>1 DEF TypeInv, TypeOK, MmTypes, tlbVars, mmVars
<1>3. SlotTypes'
  BY <1>1 DEF TypeInv, TypeOK, SlotTypes, tlbVars, loadVars, slotVars
<1>4. HwTypes'
  BY <1>1 DEF TypeInv, TypeOK, HwTypes, tlbVars, hwVars, cr3Vars
<1>5. TaskTypes'
  BY <1>1 DEF TypeInv, TypeOK, TaskTypes, tlbVars
<1>6. FlushTypes'
  BY <1>1 DEF TypeInv, TypeOK, FlushTypes, flushVars
<1>7. SwitchingOnlyInSwitch'
  BY <1>1, Zenon DEF TypeInv, SwitchingOnlyInSwitch, tlbVars, loadVars
<1>8. BatchedMmKnown'
  BY <1>1 DEF TypeInv, BatchedMmKnown, flushVars
<1>9. QED
  BY <1>2, <1>3, <1>4, <1>5, <1>6, <1>7, <1>8 DEF TypeInv, TypeOK

\* The invariant is inductive.
LEMMA NextType == TypeInv /\ [Next]_vars => TypeInv'
<1> SUFFICES ASSUME TypeInv, [Next]_vars PROVE TypeInv'
  OBVIOUS
<1>1. CASE \E c \in Cpu : Progress(c) \/ Begin(c)
  BY <1>1, ProgressType, BeginType
<1>2. CASE \E c \in Cpu, p \in Page : TlbFill(c, p)
  BY <1>2, TlbFillType
<1>3. CASE \E m \in Mm, p \in Page : ChangePte(m, p)
  BY <1>3, ChangePteType
<1>4. CASE \E m \in Mm : InitNewContext(m) \/ FreeMm(m)
  BY <1>4, InitNewContextType, FreeMmType
<1>5. CASE UNCHANGED vars
  BY <1>5, StutterType
<1>6. QED
  BY <1>1, <1>2, <1>3, <1>4, <1>5 DEF Next

\* Every variable of the TLB code keeps its type in every behaviour: no ASID
\* out of range from choose_new_asid(), no generation beyond its mm's range, and
\* no dereference of LOADED_MM_SWITCHING or of a NULL mm.
THEOREM TypeCorrect == Spec => []TypeOK
<1>1. TypeInv => TypeOK
  BY DEF TypeInv
<1>2. QED
  BY InitType, NextType, <1>1, PTL DEF Spec

============================================================================
