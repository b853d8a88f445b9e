--------------------------- MODULE MCPlanEngine ---------------------------
(* The instance of PlanEngine that TLC checks: three subgoals, planned as a *)
(* chain that begins with the destination, and as the decomposer plans an   *)
(* information request from an unknown address, with two destinations of    *)
(* equal rank.                                                              *)
EXTENDS PlanEngine, TLC

CONSTANTS reach, search, read

ChainAndTwins ==
    {[prereqs |-> reach :> {} @@ search :> {reach} @@ read :> {search},
      destinations |-> {reach}],
     [prereqs |-> reach :> {} @@ search :> {} @@ read :> {reach, search},
      destinations |-> {reach, search}]}
=============================================================================
