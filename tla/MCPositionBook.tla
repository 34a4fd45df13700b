--------------------------- MODULE MCPositionBook ---------------------------
(* Instances of PositionBook for TLC.  Pairs are interchangeable. *)
EXTENDS PositionBook, TLC

Symmetry == Permutations(Pairs)
Trail == {"crash", "midnight", "timeout", "refused", "raises", "corrupt", "rotate"}
Live == EventKinds \ {"midnight", "corrupt", "rotate"}
Crashes == {"crash"}
Entries == {"long", "short"}
Short == {"short"}
=============================================================================
