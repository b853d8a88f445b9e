--------------------------- MODULE MCCommitGuard ---------------------------
(* The instance of CommitGuard that TLC checks. *)
EXTENDS CommitGuard

\* Two classes, so that a record of another class can be open.
TwoClasses == {"BUY", "SUBMIT"}
=============================================================================
