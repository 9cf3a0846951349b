----------------------------- MODULE MCCalendar -----------------------------
(* A small instance of Calendar for TLC: thirteen months around the turns of *)
(* years and the ends of February in common and leap years, and in the two   *)
(* kinds of years that are divisible by 100.                                 *)
EXTENDS Calendar

MCKind == [r \in Report |-> r]

Day(y, m, d) == [year |-> y, month |-> m, day |-> d]

MCStart == {Day(1999, 12, 20), Day(2023, 12, 31), Day(2024, 11, 25),
            Day(2025, 2, 1), Day(2099, 12, 30)}

=============================================================================
