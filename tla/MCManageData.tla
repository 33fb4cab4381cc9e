----------------------------- MODULE MCManageData -----------------------------
(* Values of the constants of ManageData for TLC.                              *)
EXTENDS ManageData, TLC

CONSTANTS w1, w2, a, b

MCOneWorker == {w1}
MCTwoWorkers == {w1, w2}
MCOneName == {a}
MCTwoNames == {a, b}
MCNone == {}
MCUser == {"user"}
MCServices == {"tag", "user"}
MCSymmetry == Permutations({w1, w2}) \cup Permutations({a, b})
=============================================================================
