------------------------------ MODULE MCOutput ------------------------------
EXTENDS Output

\* a step is blocked, the user is asked
MCStages ==
    {[planning |-> "CHROME_EXECUTION", outcome |-> "BLOCKED", status |-> "IN_PROGRESS"],
     [planning |-> "USER_CONFIRMATION", outcome |-> None, status |-> "NEEDS_USER_CONFIRMATION"]}

\* a goal reached
MCLoopEnds == {[LoopState("SUCCESS") EXCEPT !.titles = <<Body(1, TRUE), Body(1, FALSE)>>]}
=============================================================================
