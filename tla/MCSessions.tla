------------------------------ MODULE MCSessions ------------------------------
(* Values of the constants of Sessions for TLC.                                *)
EXTENDS Sessions, TLC

CONSTANTS m, s1, old, new

MCNodes == {m, s1}
MCPasswords == {old, new}
MCSymmetry == Permutations(MCPasswords)
=============================================================================
