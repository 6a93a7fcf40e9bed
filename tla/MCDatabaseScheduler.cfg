CONSTANTS
    Task = {t1}
    OneOff = {t1}
    Beat = {b1, b2}
    Admin = {q1}
    NoBeat = NoBeat
    MaxTaskChanges = 1
    MaxBeatFaults = 2
SPECIFICATION SchedSpec
INVARIANTS SchedInv
PROPERTIES
    
    OneOffDisabled
CHECK_DEADLOCK FALSE
