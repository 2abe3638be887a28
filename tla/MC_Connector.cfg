CONSTANTS
    r1 = r1
    r2 = r2
    a1 = a1
    a2 = a2
    s1 = s1
    s2 = s2
    NoAddr = NoAddr
    Requests <- MC_Requests
    Addrs <- MC_Addrs
    Stoppers <- MC_Stoppers
SPECIFICATION Spec
INVARIANT TypeOK
INVARIANT ExactlyOnce
INVARIANT StopCancelsAll
INVARIANT PendingOnlyInFlight
SYMMETRY MC_Symmetry
PROPERTY ImplementsSafety
