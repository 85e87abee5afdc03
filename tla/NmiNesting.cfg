SPECIFICATION FairSpec
CONSTANTS
    Cpu = {c1}
    Handler = {h1, h2}
    None = none
    Reason = {}
    MayStop = TRUE
    MayUnregister = FALSE
    MaxEvents = 3
    MaxFaults = 2
INVARIANTS TypeOK ContextRestored StateMatches NoFalseUnknown
PROPERTIES EventsHandled
CHECK_DEADLOCK FALSE
