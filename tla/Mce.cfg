SPECIFICATION FairSpec
CONSTANTS
    c1 = c1
    Cpu = {c1, c2}
    Bank = {1, 2}
    Sees <- MCSees
    Severity = {0, 2, 6, 7}
    Page = {p1, p2}
    MayHang = {c2}
    MayPlug = {c2}
    TimeoutSettings = {0, 1}
    MaxConsecutive = 2
    MaxEvents = 2
INVARIANTS TypeOK LoggedOnce FatalStops CleanBetween WorkOnce
PROPERTIES EvidenceKept GradedOnEvidence HandlerEnds
CHECK_DEADLOCK FALSE
