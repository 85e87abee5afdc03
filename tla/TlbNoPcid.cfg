SPECIFICATION FairSpec
CONSTANTS
    Cpu = {c1, c2}
    Mm = {m1}
    Page = {p1}
    InitMm = init_mm
    Switching = switching
    NoMm = null
    TLB_NR_DYN_ASIDS = 2
    tlb_single_page_flush_ceiling = 1
    PCID = FALSE
    PTI = TRUE
    INVPCID = FALSE
    MaxGen = 2
    MaxVersion = 1
    MaxCtxId = 2
    MaxBatch = 0
    Flusher = {c1, c2}
    FreedTables = {FALSE}
    Switcher = {c1, c2}
    KernelFlushed = {}
INVARIANTS NoStaleUse
PROPERTIES FlushReturns
CHECK_DEADLOCK FALSE
