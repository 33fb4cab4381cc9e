------------------------------ MODULE MCElection ------------------------------
(* Values of the constants of Election for TLC: node 2 is the first master,    *)
(* with slaves whose URLs are below and above its own.                         *)
EXTENDS Election

MCThreeNodes == 1..3
MCFourNodes == 1..4

\* Clocks that agree, and the clock of the last node an interval ahead.
MCSame == [n \in Node |-> 0]
MCAhead == [n \in Node |-> IF \A r \in Node : r <= n THEN 1 ELSE 0]
=============================================================================
