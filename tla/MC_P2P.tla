------------------------------- MODULE MC_P2P -------------------------------
(* Two threads making up to three calls each into one p2p service.         *)
EXTENDS P2P, TLC

CONSTANTS c1, c2, p1

MC_Callers == {c1, c2}
MC_Symmetry == Permutations(MC_Callers)
\* One thread driving the service, as the node's main thread does.
MC_OneCaller == {c1}
\* One peer authority: a second store of it is refused.
MC_Authorities == {p1}
=============================================================================
