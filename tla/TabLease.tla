------------------------------ MODULE TabLease ------------------------------
(***************************************************************************)
(* What the service worker promises about the browser tab: it is leased to *)
(* one run at a time, a run that lost the lease never gets it back, and    *)
(* at most the one action it had already begun still reaches the tab.      *)
(***************************************************************************)
EXTENDS Naturals

CONSTANT Runs

VARIABLES
  holder,  \* the run that holds the tab, or 0
  gone,    \* the runs that held it before
  late     \* actions each run sent to the tab after it lost the lease

vars == <<holder, gone, late>>

Init ==
  /\ holder = 0
  /\ gone = {}
  /\ late = [n \in Runs |-> 0]

\* The lease goes to a run that never held it.
Grant(n) ==
  /\ n \notin gone
  /\ n # holder
  /\ holder' = n
  /\ gone' = IF holder = 0 THEN gone ELSE gone \cup {holder}
  /\ UNCHANGED late

\* The lease ends and nobody has it.
Revoke ==
  /\ holder # 0
  /\ holder' = 0
  /\ gone' = gone \cup {holder}
  /\ UNCHANGED late

\* The action that was on its way when the lease ended.
LateAct(n) ==
  /\ n \in gone
  /\ late[n] = 0
  /\ late' = [late EXCEPT ![n] = 1]
  /\ UNCHANGED <<holder, gone>>

Next == Revoke \/ \E n \in Runs : Grant(n) \/ LateAct(n)

Spec == Init /\ [][Next]_vars
=============================================================================
