------------------------------- MODULE MCList -------------------------------
(* Small instances of List: two lists and three or four entries, which are *)
(* interchangeable among themselves.                                       *)
EXTENDS ListRings, TLC

Symmetry == Permutations(Heads) \cup Permutations(Entries)

============================================================================
