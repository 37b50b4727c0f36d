----------------------------- MODULE MCListLoop -----------------------------
(* Loops over lists of up to three entries, in a DEBUG_LIST build: there a *)
(* removed entry cannot be followed to anywhere.                           *)
EXTENDS ListLoop

============================================================================
