----------------------------- MODULE MCBoundary -----------------------------
(* Five boundaries, side by side: from a message to a loop on a tab        *)
(* (TaskTarget), from a turn to the conversation it belongs to             *)
(* (Conversation), from a page to what the model may see of it             *)
(* (PagePerception), from the model to an action (WireContract), from the  *)
(* loop to what the user is told (Output).  A behaviour is of one of them, *)
(* the others stand still.                                                 *)
EXTENDS MCTaskTarget, MCConversation, MCPagePerception, MCWireContract, MCOutput

VARIABLE side  \* the boundary this behaviour is about

PerceptionRests ==
    PerceptionInit /\ vPage = [t \in Tabs |-> Form] /\ vActive = OtherTab /\ ~vVisual
WireRests == WireInit /\ wTyped = {} /\ wReference = None

BoundaryInit ==
    \/ side = "target" /\ TargetInit /\ ConversationInit /\ PerceptionRests /\ WireRests /\ OutputInit
    \/ side = "conversation" /\ TargetInit /\ ConversationInit /\ PerceptionRests /\ WireRests /\ OutputInit
    \/ side = "perception" /\ TargetInit /\ ConversationInit /\ PerceptionInit /\ WireRests /\ OutputInit
    \/ side = "wire" /\ TargetInit /\ ConversationInit /\ PerceptionRests /\ WireInit /\ OutputInit
    \/ side = "output" /\ TargetInit /\ ConversationInit /\ PerceptionRests /\ WireRests /\ OutputInit

TargetSteps ==
    /\ side = "target" /\ TargetNext
    /\ UNCHANGED <<conversationVars, perceptionVars, wireVars, outputVars, side>>
ConversationSteps ==
    /\ side = "conversation" /\ ConversationNext
    /\ UNCHANGED <<targetVars, perceptionVars, wireVars, outputVars, side>>
PerceptionSteps ==
    /\ side = "perception" /\ PerceptionNext
    /\ UNCHANGED <<targetVars, conversationVars, wireVars, outputVars, side>>
WireSteps ==
    /\ side = "wire" /\ WireNext
    /\ UNCHANGED <<targetVars, conversationVars, perceptionVars, outputVars, side>>
OutputSteps ==
    /\ side = "output" /\ OutputNext
    /\ UNCHANGED <<targetVars, conversationVars, perceptionVars, wireVars, side>>

BoundaryNext == TargetSteps \/ ConversationSteps \/ PerceptionSteps \/ WireSteps \/ OutputSteps
boundaryVars == <<targetVars, conversationVars, perceptionVars, wireVars, outputVars, side>>
BoundarySpec == BoundaryInit /\ [][BoundaryNext]_boundaryVars
=============================================================================
