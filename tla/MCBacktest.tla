------------------------------- MODULE MCBacktest -------------------------------
(***************************************************************************)
(* Three interchangeable pairs, two slots and six bars: enough for a book *)
(* of two that is halved, for an entry, its mark, a halt, the end of the   *)
(* cooldown and an entry after it, on either side of the out-of-sample     *)
(* boundary.                                                               *)
(***************************************************************************)
EXTENDS Backtest, TLC

TierTable == <<3, 5, 8, 12>>
Limits == [p \in Pairs |-> 2]
Values == 1 .. 400
Outcomes == {-9, 4}
Interchangeable == Permutations(Pairs)
================================================================================
