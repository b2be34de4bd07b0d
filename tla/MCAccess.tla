------------------------------ MODULE MCAccess ------------------------------
(* Small instances of Access for TLC.                                       *)
EXTENDS Access, TLC

Symmetry == Permutations(User \ Admin) \cup Permutations(Handler)
=============================================================================
