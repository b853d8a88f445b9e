------------------------------- MODULE Absent -------------------------------
(* The value of what the code leaves undefined or sets to null.            *)
EXTENDS Naturals
CONSTANT None
ASSUME AbsentAssumption == None \notin Nat
=============================================================================
