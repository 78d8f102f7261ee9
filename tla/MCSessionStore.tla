-------------------------- MODULE MCSessionStore --------------------------
(* Small instances of SessionStore.                                        *)
EXTENDS SessionStore, TLC

CONSTANTS g1, g2, p1, p2

MCGids == {g1, g2}
MCOneGid == {g1}
MCProcs == {p1, p2}
Sym == Permutations(MCGids) \cup Permutations(MCProcs)
=============================================================================
