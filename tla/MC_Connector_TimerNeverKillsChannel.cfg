CONSTANTS
    r1 = r1
    r2 = r2
    a1 = a1
    a2 = a2
    s1 = s1
    s2 = s2
    NoAddr = NoAddr
    Requests <- MC_OneRequest
    Addrs <- MC_OneAddr
    Stoppers <- MC_OneStopper
SPECIFICATION Spec
INVARIANT TimerNeverKillsChannel
