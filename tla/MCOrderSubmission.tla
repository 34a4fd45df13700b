------------------------- MODULE MCOrderSubmission --------------------------
(* Instances of OrderSubmission: two order ids, at most two copies of each.  *)
EXTENDS OrderSubmission, TLC
CONSTANTS o1, o2
TwoOrders == {o1, o2}
OneOrder == {o1}
Interchangeable == Permutations(TwoOrders)
=============================================================================
