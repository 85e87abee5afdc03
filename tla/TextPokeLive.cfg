SPECIFICATION FairSpec
CONSTANTS
    Cpu = {c1, c2}
    Site = {1, 2}
    LongSite = {1}
    INT3 = int3
    Insn = {a, b}
    TP_VEC_MAX = 1
    MaxPokes = 2
PROPERTIES BatchEnds
CHECK_DEADLOCK FALSE
