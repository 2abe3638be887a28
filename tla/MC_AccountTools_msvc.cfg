\* Violation run: mvstools prints mnemonics of accounts other than the
\* named one. The program ends, so a state with no successor is its exit.
CONSTANTS
    n1 = n1
    n2 = n2
    n3 = n3
    p1 = p1
    p2 = p2
    Names <- MC_Names
    Passwords <- MC_Passwords
SPECIFICATION MsvcSpec
INVARIANT PrintsOnlyOwnMnemonic
SYMMETRY MC_Symmetry
CHECK_DEADLOCK FALSE
