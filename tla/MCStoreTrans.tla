---------------------------- MODULE MCStoreTrans ----------------------------
(* Values of the constants of StoreTrans for TLC: two writes of one key and a *)
(* transaction that deletes it and writes another.                            *)
EXTENDS StoreTrans, TLC

CONSTANTS w1, w2, p1, k1, k2, va, vb

MCWorkers == {w1, w2}
MCPollers == {p1}
MCKeys == {k1, k2}
MCValues == {va, vb}
MCOneItem == {k1 :> va}
MCItems == {k1 :> va, k1 :> vb, (k1 :> Absent) @@ (k2 :> va)}
MCDisjointItems == {k1 :> va, k1 :> Absent, k2 :> vb}
=============================================================================
