---------------------------- MODULE EvidenceGate ----------------------------
(***************************************************************************)
(* What the commit guard promises of consequential dispatches, with none of *)
(* its records: one action is in flight at a time, nothing is dispatched    *)
(* after the run ended, and every dispatch is paid for.  An observation      *)
(* gives each class a credit of one dispatch, a confirmation by the user     *)
(* adds one to the class confirmed.                                          *)
(***************************************************************************)
EXTENDS Naturals

CONSTANT Classes

VARIABLES
  credit,  \* for each class, how often it may be dispatched before anything is observed
  flying,  \* the class of the action in flight, or "NONE"
  page,    \* the outcome wording the page shows
  over     \* the run has ended

gateVars == <<credit, flying, page, over>>

GateInit ==
  /\ credit = [c \in Classes |-> 1]
  /\ flying = "NONE"
  /\ page \in {"silent", "confirms", "fails"}
  /\ over = FALSE

PageTurns ==
  /\ ~over
  /\ page' \in {"silent", "confirms", "fails"}
  /\ UNCHANGED <<credit, flying, over>>

Observe ==
  /\ ~over
  /\ flying = "NONE"
  /\ credit' = [c \in Classes |-> 1]
  /\ over' \in BOOLEAN
  /\ UNCHANGED <<flying, page>>

UserConfirms(c) ==
  /\ ~over
  /\ flying = "NONE"
  /\ credit' = [credit EXCEPT ![c] = @ + 1]
  /\ UNCHANGED <<flying, page, over>>

Dispatch(c) ==
  /\ ~over
  /\ flying = "NONE"
  /\ credit[c] > 0
  /\ credit' = [credit EXCEPT ![c] = @ - 1]
  /\ flying' = c
  /\ UNCHANGED <<page, over>>

\* The page is read and the action dispatched in one synchronous section.
ObserveAndDispatch(c) ==
  /\ ~over
  /\ flying = "NONE"
  /\ page = "fails"
  /\ credit' = [d \in Classes |-> IF d = c THEN 0 ELSE 1]
  /\ flying' = c
  /\ UNCHANGED <<page, over>>

Return ==
  /\ flying # "NONE"
  /\ flying' = "NONE"
  /\ over' \in BOOLEAN
  /\ UNCHANGED <<credit, page>>

End ==
  /\ ~over
  /\ flying = "NONE"
  /\ over' = TRUE
  /\ UNCHANGED <<credit, flying, page>>

GateNext ==
  \/ PageTurns
  \/ Observe
  \/ Return
  \/ End
  \/ \E c \in Classes : UserConfirms(c) \/ Dispatch(c) \/ ObserveAndDispatch(c)

GateSpec == GateInit /\ [][GateNext]_gateVars
=============================================================================
