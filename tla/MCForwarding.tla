----------------------------- MODULE MCForwarding -----------------------------
(* Values of the constants of Forwarding for TLC.                              *)
EXTENDS Forwarding, TLC

CONSTANTS s1, s2

MCSlaves == {s1, s2}
MCOneSlave == {s1}
\* The master has two threads, a slave one.
MCThreads == [n \in Node |-> IF n = Master THEN 2 ELSE 1]
\* Two threads everywhere.
MCTwoThreads == [n \in Node |-> 2]
=============================================================================
