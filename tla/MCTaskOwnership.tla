-------------------------- MODULE MCTaskOwnership --------------------------
(* The instance of TaskOwnership that TLC checks. *)
EXTENDS TaskOwnership

OneTask == {"open shop"}
=============================================================================
