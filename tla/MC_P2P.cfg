\* The blocking join of close() and start(): a caller stuck behind a pool
\* that a concurrent start() respawned has no successor; see CallsReturn.
CONSTANTS
    c1 = c1
    c2 = c2
    p1 = p1
    Authorities <- MC_Authorities
    Callers <- MC_Callers
    MaxCalls = 3
SPECIFICATION Spec
SYMMETRY MC_Symmetry
INVARIANT TypeOK
INVARIANT HandlerOnce
CHECK_DEADLOCK FALSE
