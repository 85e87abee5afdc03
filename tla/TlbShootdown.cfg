SPECIFICATION Spec
CONSTANTS
    Cpu = {c1, c2}
    Mm = {m1}
    Page = {p1, p2}
    InitMm = init_mm
    Switching = switching
    NoMm = null
    TLB_NR_DYN_ASIDS = 2
    tlb_single_page_flush_ceiling = 1
    PCID = TRUE
    PTI = FALSE
    INVPCID = FALSE
    MaxGen = 3
    MaxVersion = 1
    MaxCtxId = 2
    MaxBatch = 0
    Flusher = {c1, c2}
    FreedTables = {FALSE}
    Switcher = {c2}
    KernelFlushed = {}
SYMMETRY Symmetry
INVARIANTS SlotInvariant NoStaleUse
CHECK_DEADLOCK FALSE
