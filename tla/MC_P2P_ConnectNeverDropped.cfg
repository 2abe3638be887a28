CONSTANTS
    c1 = c1
    c2 = c2
    p1 = p1
    Authorities <- MC_Authorities
    Callers <- MC_Callers
    MaxCalls = 2
SPECIFICATION Spec
SYMMETRY MC_Symmetry
INVARIANT ConnectNeverDropped
CHECK_DEADLOCK FALSE
