---------------------------- MODULE MC_Connector ----------------------------
(* Two connect calls whose hostnames resolve to up to two addresses, and   *)
(* two threads calling stop().                                             *)
EXTENDS Connector, TLC

CONSTANTS r1, r2, a1, a2, s1, s2

MC_Requests == {r1, r2}
MC_Addrs == {a1, a2}
MC_Stoppers == {s1, s2}
MC_Symmetry == Permutations(MC_Requests) \cup Permutations(MC_Addrs)
                 \cup Permutations(MC_Stoppers)

\* The liveness instance: one connect call, one stop() call.
MC_OneRequest == {r1}
MC_OneStopper == {s1}
MC_OneAddr == {a1}
=============================================================================
