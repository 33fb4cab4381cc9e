------------------------------ MODULE MCShutdown ------------------------------
(* Values of the constants of Shutdown for TLC.                                *)
EXTENDS Shutdown

CONSTANTS w1, w2, w3

MCWorkers == {w1, w2, w3}
=============================================================================
