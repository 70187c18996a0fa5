----------------------------- MODULE MCServices -----------------------------
(* Small instances of Services for TLC. *)
EXTENDS Services, TLC

CONSTANTS alice, bob    \* two callers, workers, tasks or threads

Symmetry == Permutations({alice, bob})

MCGaps == {-5, 0, 3, 7, 12, 16, 40, 61}
MCMoves == {-1, 0, 1, 2, 3}
MCAsks == {-3, 0, 4, 5, 7, 9, 11, 16, 30, 70}
MCNewlines == {{}, {4}}
MCBlanks == {{3}}
MCStretches == {{}, {1}}
MCKeys == {<<"x">>, <<"b", "y">>}

\* July to June, February with 29 days.
MCMonths == <<31, 31, 30, 31, 30, 31, 31, 29, 31, 30, 31, 30>>
\* Clocks put forward and back at 2 in the morning of two days; at midnight, where
\* one midnight does not come and another comes twice; back over midnight; and a
\* date left out.
At2(offset) == <<[from |-> 0, offset |-> offset],
                 [from |-> 244 * 24 + 2 - offset, offset |-> offset + 1],
                 [from |-> 274 * 24 + 1 - offset, offset |-> offset]>>
AtMidnight == <<[from |-> 0, offset |-> -5], [from |-> 244 * 24 + 5, offset |-> -4], [from |-> 274 * 24 + 5, offset |-> -5]>>
OverMidnight == <<[from |-> 0, offset |-> -3], [from |-> 274 * 24 + 3, offset |-> -4]>>
DateLeftOut == <<[from |-> 0, offset |-> -10], [from |-> 244 * 24 + 10, offset |-> 14]>>
MCOffsets == [newYork |-> At2(-5), paris |-> At2(1), havana |-> AtMidnight, asuncion |-> OverMidnight, apia |-> DateLeftOut]
MCTodays == {184, 214, 243, 244, 245, 273, 274, 275, 304, 335}
MCCustom == {0, 10, 11, 376}
=============================================================================
