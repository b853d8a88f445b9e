------------------------- MODULE MCLongHorizon -------------------------
(* LongHorizon on small sets; the two directions of a scroll are alike. *)
EXTENDS LongHorizon, TLC

CONSTANTS g1, t1, raw, up, down

Directions == Permutations(Scrolls)

\* The longest plan the decomposer makes has six subgoals.
Plans == [r \in 1 .. MaxRuns |-> 6]
=========================================================================
