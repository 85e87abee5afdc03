SPECIFICATION Spec
CONSTANTS
    Cpu = {c1, c2}
    Site = {1, 2, 3}
    LongSite = {2, 3}
    INT3 = int3
    Insn = {a, b, int3}
    TP_VEC_MAX = 2
    MaxPokes = 3
SYMMETRY Symmetry
INVARIANTS TypeOK NoStrayTrap NoTornFetch VectorPinned
PROPERTIES ImplementsAtomicText
CHECK_DEADLOCK FALSE
