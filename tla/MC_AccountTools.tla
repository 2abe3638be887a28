-------------------------- MODULE MC_AccountTools ---------------------------
(* Three user names, two passwords: tables of up to three accounts, and    *)
(* a command line naming an account that is in the table or not, with     *)
(* its password or another.                                                *)
EXTENDS AccountTools, TLC

CONSTANTS n1, n2, n3, p1, p2

MC_Names == {n1, n2, n3}
MC_Passwords == {p1, p2}
MC_Symmetry == Permutations(MC_Names) \cup Permutations(MC_Passwords)
=============================================================================
