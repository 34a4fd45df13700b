------------------------------ MODULE MCPaperLoop -------------------------------
(* An instance of the loop of main.py alone. *)
EXTENDS PaperLoop

NoSectors == [p \in Pairs |-> NoSector]
================================================================================
