---------------------------- MODULE MCReplication ----------------------------
(* Values of the constants of Replication for TLC: a master and two slaves,  *)
(* the second pointed at the first.                                          *)
EXTENDS Replication, TLC

CONSTANTS m, s1, s2

MCNode == {m, s1, s2}
MCSlaves == {s1, s2}
MCPointed == (s1 :> m) @@ (s2 :> s1)
MCTwoNodes == {m, s1}
MCPointedTwo == s1 :> m
MCNone == {}
MCOnlyMaster == {m}
=============================================================================
