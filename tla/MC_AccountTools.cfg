\* mvs-tools: every table, argument count and command line.  The program
\* ends, so a state with no successor is its exit, not a deadlock.
CONSTANTS
    n1 = n1
    n2 = n2
    n3 = n3
    p1 = p1
    p2 = p2
    Names <- MC_Names
    Passwords <- MC_Passwords
SPECIFICATION ToolsSpec
INVARIANT TypeOK
INVARIANT NotFoundOnlyIfAbsent
SYMMETRY MC_Symmetry
CHECK_DEADLOCK FALSE
