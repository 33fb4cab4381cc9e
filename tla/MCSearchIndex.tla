----------------------------- MODULE MCSearchIndex -----------------------------
(* Values of the constants of SearchIndex for TLC.                             *)
EXTENDS SearchIndex, TLC

CONSTANTS a, b, w1, w2, x1, x2

MCItems == {a, b}
MCWorkers == {w1, w2}
MCIndexers == {x1, x2}
MCLangs == {"EN", "BN"}
MCSymmetry == Permutations(MCWorkers) \cup Permutations(MCIndexers)
=============================================================================
