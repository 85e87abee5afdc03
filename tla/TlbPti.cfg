SPECIFICATION Spec
CONSTANTS
    Cpu = {c1, c2}
    Mm = {m1}
    Page = {p1}
    InitMm = init_mm
    Switching = switching
    NoMm = null
    TLB_NR_DYN_ASIDS = 2
    tlb_single_page_flush_ceiling = 1
    PCID = TRUE
    PTI = TRUE
    INVPCID = FALSE
    MaxGen = 1
    MaxVersion = 1
    MaxCtxId = 2
    MaxBatch = 0
    Flusher = {c1}
    FreedTables = {FALSE}
    Switcher = {c2}
    KernelFlushed = {c2}
SYMMETRY Symmetry
INVARIANTS NoStaleUse NoStaleKernelUse
CHECK_DEADLOCK FALSE
