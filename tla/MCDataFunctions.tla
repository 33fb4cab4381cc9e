---------------------------- MODULE MCDataFunctions ---------------------------
(* Values of the constants of DataFunctions for TLC.                           *)
EXTENDS DataFunctions, TLC

CONSTANTS colour, size, red, blue, bar, inn

MCNames == {colour, size}
MCValues == {red, blue}
MCCategories == {bar, inn}

Plain == [allowed |-> TRUE, deleted |-> FALSE, repeated |-> FALSE]
MCKinds == {Unknown, Plain, [Plain EXCEPT !.repeated = TRUE],
            [Plain EXCEPT !.deleted = TRUE], [Plain EXCEPT !.allowed = FALSE]}

MCIds == 1..3
\* The first two have one number in the key (with Grain = 2).
MCScores == {1, 2, 4}
\* Above the offset of the key there is room for one negative score.
MCNegative == {-1, 1, 2}

\* Words of up to four letters, the plural of four with an "s" at the end.
MCStem(w) == IF Len(w) >= MinStem /\ Last(w) = "s" THEN Front(w) ELSE w
MCLetters == {"a", "s"}
MCWords == UNION {[1..n -> MCLetters] : n \in 1..4}
MCTexts == UNION {[1..n -> MCWords] : n \in 1..3}
MCShortTexts == UNION {[1..n -> MCWords] : n \in 1..2}
=============================================================================
