SPECIFICATION Spec
CONSTANTS
    Cpu = {c1, c2}
    Handler = {h1, h2}
    None = none
    Reason = {"SERR", "IOCHK"}
    MayStop = FALSE
    MayUnregister = TRUE
    MaxEvents = 2
    MaxFaults = 0
SYMMETRY Symmetry
INVARIANTS NoFreedHandler
CHECK_DEADLOCK FALSE
