---------------------------- MODULE MCRecordCache ----------------------------
(* Values of the constants of RecordCache for TLC.                             *)
EXTENDS RecordCache

CONSTANTS r1, r2, gold, silver

MCReaders == {r1, r2}
MCCategories == {gold, silver}
=============================================================================
