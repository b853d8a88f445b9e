-------------------------- MODULE MCReasoningTurn --------------------------
(* ReasoningTurn on a small instance: time is scaled so that the order of  *)
(* the source's durations is kept (one post < one attempt < two posts).    *)
EXTENDS ReasoningTurn

MCLimitRetries == [p \in Providers |-> IF p = "PRIMARY" THEN 1 ELSE 0]
MCFormats == [p \in Providers |-> 1]
=============================================================================
