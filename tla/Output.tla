------------------------------- MODULE Output -------------------------------
(***************************************************************************)
(* What the user is told.  The worker projects the state of a loop onto an *)
(* interaction and screens it (extension/src/agent/agentOutput.ts,         *)
(* sendToDashboard); the card takes the message over                       *)
(* (frontend/src/adapters/extensionAdapter.ts), the workspace folds the    *)
(* card into the turn of its run (components/agentWorkspace.ts,            *)
(* ui/uiProjection.ts), and ended runs leave a receipt from which their    *)
(* turns are shown again, also after the page was loaded anew              *)
(* (state/receiptsStore.ts, main.ts).                                      *)
(*                                                                         *)
(* A message in flight may be lost, repeated and overtaken.                *)
(* Wording is left out but for who wrote it: a body is an answer of the    *)
(* model, taken to hold a private value, or one of the fixed texts.  The   *)
(* fixed labels hold no digits, so the structural half of the screen finds *)
(* nothing.  The awaits of startTask, the watchdog's time and the answers  *)
(* to prompts are in ExtensionAdapter, ownership of runs in TaskOwnership. *)
(***************************************************************************)
EXTENDS Naturals, FiniteSets, Sequences, Functions, Sifting, Absent

CONSTANTS
  Stages,        \* what a loop reports on its way: planning state, outcome of a step or None, status
  LoopEnds,      \* the states browser tasks end in
  Wordings,      \* texts of tasks
  MaxSaid,       \* bound of the model: messages the user sends
  MaxStages,     \* bound of the model: reports of a run before its end; a run has 10 steps
  MaxInFlight,   \* bound of the model: calls of sendToDashboard under way
  MaxOpened,     \* bound of the model: receipts the user opens
  MaxReloads     \* bound of the model: times the dashboard is loaded anew

VARIABLES
  runs,          \* what became of each message of the user, in order
  outbox,        \* progress messages that may still arrive
  card,          \* the adapter's state
  runCounter,    \* currentRunId; starts over with the page
  conversationId,\* activeConversationId, numbered
  turns,         \* the turn objects of this page; receipts and workspace share them
  shown,         \* the turns the workspace shows, by index
  receipts,      \* conversation -> its receipt, turns by index
  stored,        \* the same in localStorage, turns by value
  opened,
  reloads

\* stepActivity: what becomes of a step; the phase of a run at work is ACTIVE
StepStates == {"COMPLETE", "BLOCKED", "FAILED"}

outputVars == <<runs, outbox, card, runCounter, conversationId, turns, shown, receipts, stored, opened, reloads>>
----------------------------------------------------------------------------
(* The worker's projection.                                                *)

Body(by, secret) == [by |-> by, secret |-> secret]
Fixed == Body(0, FALSE)

\* what AgentTaskState holds, with the values a fresh run has
LoopState(status) ==
    [status |-> status, planning |-> "UNINITIALIZED", steps |-> <<>>, answer |-> None, source |-> None,
     code |-> None, left |-> FALSE, verdict |-> None, category |-> None, spent |-> FALSE, opening |-> None,
     atBound |-> FALSE, titles |-> <<>>, wants |-> FALSE]

ASSUME OutputAssumption ==
    /\ \A stage \in Stages : stage.outcome \in StepStates \cup {None}
    /\ \A end \in LoopEnds : DOMAIN end = DOMAIN LoopState("SUCCESS")
    /\ MaxReloads \in Nat

Ended == {"SUCCESS", "FAILED", "STOPPED", "ANSWER", "PARTIAL", "CANNOT_VERIFY", "NEEDS_INFORMATION",
          "NEEDS_CLARIFICATION", "COMMIT_UNKNOWN", "FRESHNESS_UNVERIFIED", "PROVIDER_UNAVAILABLE"}

Phase == [DECOMPOSING |-> "PLANNING", SUBGOAL_SELECTION |-> "PLANNING", DYNAMIC_REPLANNING |-> "RECOVERY",
          TARGET_GROUNDING |-> "VALIDATION", M5_VALIDATION |-> "VALIDATION", RISK_POLICY_CHECK |-> "VALIDATION",
          USER_CONFIRMATION |-> "AWAITING_CONFIRMATION", CHROME_EXECUTION |-> "EXECUTION",
          EFFECT_VERIFICATION |-> "VERIFICATION", GOAL_VERIFICATION |-> "VERIFICATION",
          COMPLETED |-> "TERMINAL", FAILED |-> "TERMINAL", ABORTED |-> "TERMINAL", UNINITIALIZED |-> "IDLE"]

\* the second of the first pair whose first holds
FirstThat(pairs) == pairs[CHOOSE i \in DOMAIN pairs : pairs[i][1] /\ \A j \in 1..i - 1 : ~pairs[j][1]][2]

TerminalReason(s) == FirstThat(<<
    <<s.status = "COMMIT_UNKNOWN", "COMMIT_UNVERIFIED">>,
    <<s.status = "FRESHNESS_UNVERIFIED", "FRESHNESS_UNVERIFIED">>,
    <<s.status = "SUCCESS", "GOAL_ACHIEVED">>,
    <<s.status = "ANSWER" /\ s.source = "CONVERSATION", "CONVERSATIONAL_ANSWER">>,
    <<s.status \in {"ANSWER", "PARTIAL"}, "ANSWERED">>,
    <<s.status \in {"CANNOT_VERIFY", "NEEDS_INFORMATION"}, "NO_VERIFIABLE_RESULT">>,
    <<s.status = "NEEDS_CLARIFICATION", "NEEDS_CLARIFICATION">>,
    <<s.status = "STOPPED" /\ s.code = "SUPERSEDED_BY_NEW_TASK", "SUPERSEDED_BY_NEW_TASK">>,
    <<s.status = "STOPPED" /\ s.code # "USER_CANCELLED" /\ s.opening = "declined", "CONFIRMATION_DECLINED">>,
    <<s.status = "STOPPED", "STOPPED_BY_USER">>,
    <<s.left, "CONTAINMENT_DENIED">>,
    <<s.verdict = "HALT_ENVIRONMENT", "HARNESS_HALTED">>,
    <<s.verdict = "BUDGET_EXHAUSTED", IF s.spent THEN "RECOVERY_EXHAUSTED" ELSE "STEP_BOUND_EXHAUSTED">>,
    <<s.category \in {"PROVIDER_TIMEOUT", "LLM_RATE_LIMIT", "INVALID_MODEL_RESPONSE"}, "REASONER_FAILED">>,
    <<s.category \in {"TARGET_TAB_NOT_FOUND", "RECOVERY_EXHAUSTED", "CONTAINMENT_DENIED"}, s.category>>,
    <<s.opening = "Target tab", "TARGET_TAB_NOT_FOUND">>,
    <<s.opening = "Perception failed", "PERCEPTION_FAILED">>,
    <<s.opening = "Agent reasoning failed" \/ s.status = "PROVIDER_UNAVAILABLE", "REASONER_FAILED">>,
    <<s.atBound, "STEP_BOUND_EXHAUSTED">>,
    <<TRUE, "UNKNOWN">>>>)

FinalResult(s) ==
    LET kind == IF s.status \notin Ended THEN "NONE"
                ELSE IF s.status = "FAILED" /\ TerminalReason(s) = "REASONER_FAILED" THEN "PROVIDER_UNAVAILABLE"
                ELSE s.status
    IN  [kind |-> kind,
         body |-> IF kind \in {"ANSWER", "PARTIAL", "SUCCESS"} THEN s.answer
                  ELSE IF kind = "NONE" THEN None ELSE Fixed]

Projected(s) ==
    LET early == s.status = "IN_PROGRESS" /\ s.steps = <<>> /\ s.planning = "UNINITIALIZED"
    IN  [phase |-> IF s.status \in Ended THEN "TERMINAL"
                   ELSE IF s.status = "NEEDS_USER_CONFIRMATION" THEN "AWAITING_CONFIRMATION"
                   ELSE IF early THEN "PERCEPTION" ELSE Phase[s.planning],
         reason |-> IF s.status \in Ended THEN TerminalReason(s) ELSE None,
         final |-> FinalResult(s),
         titles |-> s.titles,
         wants |-> s.status = "NEEDS_USER_CONFIRMATION" /\ s.wants]

Withheld(body) == IF body # None /\ body.secret THEN Fixed ELSE body

\* screenAgentOutput
Screened(o) ==
    [o EXCEPT !.titles = [i \in DOMAIN o.titles |-> Withheld(o.titles[i])],
              !.final.body = Withheld(o.final.body)]

Message(m, s, interaction) ==
    [runId |-> runs[m].runId, task |-> runs[m].task, status |-> s.status, steps |-> s.steps,
     source |-> s.source, answer |-> s.answer, wants |-> s.wants, interaction |-> interaction]

\* sendToDashboard: the fields of the loop's state go along as they are
Sent(m, s) == Message(m, s, Screened(Projected(s)))
----------------------------------------------------------------------------
(* The dashboard's projection of a card, and the log of a turn.            *)

Conversational(c) ==
    c.source = "CONVERSATION" \/ (c.interaction # None /\ c.interaction.reason = "CONVERSATIONAL_ANSWER")

HasFinal(c) == c.interaction # None /\ c.interaction.final.kind # "NONE"

\* the bodies and titles projectUi and the card's panel put on the screen
ShownBodies(c) ==
    LET final == IF HasFinal(c) THEN c.interaction.final.body ELSE None
        legacy == IF c.status \in {"SUCCESS", "PARTIAL"} /\ final = None /\ c.interaction # None
                  THEN Range(c.interaction.titles) ELSE {}
    IN  IF Conversational(c) THEN {FirstThat(<<<<final # None, final>>, <<TRUE, c.answer>>>>)} \ {None}
        ELSE IF c.status \in Ended THEN ({final} \ {None}) \cup legacy
        ELSE {}

EmptyLog(task) == [task |-> task, items |-> <<>>]

Pushed(items, entry) ==
    IF \E i \in DOMAIN items : items[i].key = entry.key THEN items ELSE Append(items, entry)

Settled(items, from, to) ==
    [i \in DOMAIN items |-> IF i \in from..to /\ items[i].status = "ACTIVE"
                            THEN [items[i] EXCEPT !.status = "COMPLETE"] ELSE items[i]]

\* what a report adds: its steps, and the phase of a run at work
EntriesOf(log, c) ==
    LET old == IF c.task # log.task THEN <<>> ELSE log.items
        acted[i \in 0 .. Len(c.steps)] ==
            IF i = 0 THEN old
            ELSE Pushed(acted[i - 1], [key |-> [step |-> i, phase |-> None], status |-> c.steps[i]])
        done == acted[Len(c.steps)]
        phase == IF c.interaction = None THEN "TERMINAL" ELSE c.interaction.phase
    IN  IF c.status = "RUNNING" /\ phase \notin {"TERMINAL", "IDLE"}
        THEN Pushed(done, [key |-> [step |-> 0, phase |-> phase], status |-> "ACTIVE"]) ELSE done

MergeActivities(log, c) ==
    LET items == EntriesOf(log, c)
    IN  [task |-> c.task,
         items |-> IF c.status = "RUNNING" THEN Settled(items, 1, Len(items) - 1)
                   ELSE IF c.status \in Ended THEN Settled(items, 1, Len(items)) ELSE items]

Turn(c) == [runId |-> c.runId, card |-> c, log |-> MergeActivities(EmptyLog(c.task), c)]

RefusesNothing(turn, c) == FALSE
\* a terminal turn refuses the progress of its own run
Refuses(turn, c) == turn.card.status \in Ended /\ c.status = "RUNNING" /\ turn.runId = c.runId

Folded(turn, c) ==
    [turn EXCEPT !.log = MergeActivities(@, c),
                 !.card = [c EXCEPT !.answer = FirstThat(<<<<@ # None, @>>, <<TRUE, turn.card.answer>>>>),
                                    !.interaction = FirstThat(<<<<@ # None, @>>, <<TRUE, turn.card.interaction>>>>)]]

\* AgentWorkspace.update: the turns there are and those shown, after card c
Updated(v, c) ==
    LET same == {i \in DOMAIN v.shown : v.turns[v.shown[i]].runId = c.runId}
        its == v.shown[CHOOSE i \in same : \A j \in same : i <= j]
    IN  IF c.status = "IDLE" THEN v
        ELSE IF same = {} THEN [turns |-> Append(v.turns, Turn(c)), shown |-> Append(v.shown, Len(v.turns) + 1)]
        ELSE IF Refuses(v.turns[its], c) THEN v
        ELSE [v EXCEPT !.turns[its] = Folded(@, c)]

Board == [turns |-> turns, shown |-> shown]
Display(v) == turns' = v.turns /\ shown' = v.shown
----------------------------------------------------------------------------
(* The user.                                                               *)

FreshCard ==
    [status |-> "IDLE", task |-> None, runId |-> 0, steps |-> <<>>, interaction |-> None,
     source |-> None, answer |-> None, wants |-> FALSE, superseded |-> FALSE]

OutputInit ==
    /\ runs = <<>> /\ outbox = {} /\ card = FreshCard /\ runCounter = 0 /\ conversationId = 1
    /\ turns = <<>> /\ shown = <<>> /\ opened = 0 /\ reloads = 0
    /\ receipts = [c \in 1..MaxReloads + 1 |-> None] /\ stored = receipts

Ceased(run) == [run EXCEPT !.live = FALSE, !.stages = 0, !.loop = LoopState("IN_PROGRESS")]

\* startTask: the replaced task first says so, then the card is the new one's.
\* The answer of the card is not reset.
StartTask(task) ==
    LET replaced == [card EXCEPT !.status = "STOPPED", !.superseded = TRUE]
        started == [card EXCEPT !.task = task, !.runId = runCounter + 1, !.status = "RUNNING",
                                !.steps = <<>>, !.interaction = None, !.source = None, !.superseded = FALSE,
                                !.wants = FALSE]
        before == IF card.status = "RUNNING" /\ card.task # task THEN Updated(Board, replaced) ELSE Board
    IN  /\ Len(runs) < MaxSaid
        /\ runs' = Append(runs, [runId |-> runCounter + 1, task |-> task, route |-> None, live |-> FALSE,
                                 stages |-> 0, loop |-> LoopState("IN_PROGRESS")])
        /\ runCounter' = runCounter + 1
        /\ card' = started
        /\ Display(Updated(before, started))
        /\ UNCHANGED <<outbox, conversationId, receipts, stored, opened, reloads>>

\* stopTask; the worker's loop and its reports are over with it
StopTask ==
    /\ card.status = "RUNNING"
    /\ runCounter' = runCounter + 1
    /\ card' = [card EXCEPT !.status = "STOPPED"]
    /\ runs' = [m \in DOMAIN runs |-> Ceased(runs[m])]
    /\ Display(Updated(Board, card'))
    /\ UNCHANGED <<outbox, conversationId, receipts, stored, opened, reloads>>

\* handleSelectHistoricalTask: the conversation goes on, its turns are shown
OpenReceipt(c) ==
    /\ receipts[c] # None /\ shown # receipts[c].turns
    /\ opened < MaxOpened /\ opened' = opened + 1
    /\ conversationId' = c
    /\ shown' = receipts[c].turns
    /\ UNCHANGED <<runs, outbox, card, runCounter, turns, receipts, stored, reloads>>

\* the dashboard is loaded anew: only what was stored is left
Reload ==
    LET old == [c \in DOMAIN stored |-> IF stored[c] = None THEN <<>> ELSE stored[c].turns]
    IN  /\ reloads < MaxReloads /\ reloads' = reloads + 1
        /\ card' = FreshCard /\ runCounter' = 0
        /\ conversationId' = reloads + 2
        /\ turns' = Joined(old, Len(old))
        /\ shown' = <<>>
        /\ receipts' = [c \in DOMAIN stored |-> IF stored[c] = None THEN None
              ELSE [stored[c] EXCEPT !.turns = [t \in DOMAIN @ |-> Len(Joined(old, c - 1)) + t]]]
        /\ UNCHANGED <<runs, outbox, stored, opened>>

\* the watchdog: a card that stays silent is called failed
Watchdog ==
    /\ card.status = "RUNNING"
    /\ card' = [card EXCEPT !.status = "FAILED"]
    /\ Display(Updated(Board, card'))
    /\ UNCHANGED <<runs, outbox, runCounter, conversationId, receipts, stored, opened, reloads>>
----------------------------------------------------------------------------
(* The worker: a message is a chat, is refused, or starts a loop.          *)

\* one call at a time until the last page, so that reloads and overtaking both occur
Room == Cardinality(outbox) < IF reloads = MaxReloads THEN MaxInFlight ELSE 1

Acknowledged(m, status, source) == Message(m, [LoopState(status) EXCEPT !.source = source], None)

Receive(m) ==
    /\ Room /\ runs[m].route = None /\ \A n \in 1..m - 1 : runs[n].route # None
    /\ \/ /\ runs' = [runs EXCEPT ![m].route = "chat", ![m].live = TRUE]
          /\ outbox' = outbox \cup {Acknowledged(m, "ANSWER", "CONVERSATION")}
       \/ LET over == [n \in DOMAIN runs |-> Ceased(runs[n])]
          IN  \/ /\ runs' = [over EXCEPT ![m].route = "refused"]
                 /\ outbox' = outbox \cup {Acknowledged(m, "NEEDS_CLARIFICATION", None),
                                           Sent(m, LoopState("NEEDS_CLARIFICATION"))}
              \/ /\ runs' = [over EXCEPT ![m].route = "loop", ![m].live = TRUE]
                 /\ outbox' = outbox \cup {Acknowledged(m, "RUNNING", None)}
    /\ UNCHANGED <<card, runCounter, conversationId, turns, shown, receipts, stored, opened, reloads>>

\* onStepProgress
ReportStage(m) ==
    /\ Room /\ runs[m].route = "loop" /\ runs[m].live /\ runs[m].stages < MaxStages
    /\ \E stage \in Stages :
          LET steps == runs[m].loop.steps
              s == [runs[m].loop EXCEPT !.planning = stage.planning, !.status = stage.status,
                                        !.wants = stage.status = "NEEDS_USER_CONFIRMATION",
                                        !.steps = IF stage.outcome = None THEN steps ELSE Append(steps, stage.outcome)]
          IN  /\ runs' = [runs EXCEPT ![m].loop = s, ![m].stages = @ + 1]
              /\ outbox' = outbox \cup {Sent(m, s)}
    /\ UNCHANGED <<card, runCounter, conversationId, turns, shown, receipts, stored, opened, reloads>>

\* the last report of a loop
ReportEnd(m) ==
    /\ Room /\ runs[m].route = "loop" /\ runs[m].live
    /\ \E end \in LoopEnds :
          /\ runs' = [runs EXCEPT ![m] = Ceased(@)]
          /\ outbox' = outbox \cup {Sent(m, [end EXCEPT !.steps = runs[m].loop.steps])}
    /\ UNCHANGED <<card, runCounter, conversationId, turns, shown, receipts, stored, opened, reloads>>

\* the reasoning service answers a chat, or does not
ChatAnswers(m) ==
    /\ Room /\ runs[m].route = "chat" /\ runs[m].live
    /\ runs' = [runs EXCEPT ![m] = Ceased(@)]
    /\ \/ \E secret \in BOOLEAN : outbox' = outbox \cup
              {Sent(m, [LoopState("ANSWER") EXCEPT !.source = "CONVERSATION", !.answer = Body(m, secret)])}
       \/ outbox' = outbox \cup {Sent(m, [LoopState("PROVIDER_UNAVAILABLE") EXCEPT !.source = "CONVERSATION"])}
    /\ UNCHANGED <<card, runCounter, conversationId, turns, shown, receipts, stored, opened, reloads>>

\* handleExtensionProgress, with the receipt it writes before the workspace is told
CardFrom(msg) ==
    LET own(new, old) == IF new # None THEN new ELSE IF msg.runId = card.runId THEN old ELSE None
    IN  [status |-> IF msg.status = "IN_PROGRESS" THEN "RUNNING" ELSE msg.status, task |-> card.task,
         runId |-> msg.runId, steps |-> msg.steps, interaction |-> own(msg.interaction, card.interaction),
         source |-> own(msg.source, card.source), answer |-> own(msg.answer, card.answer),
         wants |-> msg.wants, superseded |-> card.superseded]

AcceptsReport(msg) ==
    /\ msg.runId = runCounter
    /\ card.task \in {None, msg.task}
    /\ ~(card.status \in {"STOPPED", "FAILED"} /\ msg.status = "RUNNING")

Deliver(msg) ==
    LET receipt == [result |-> card'.status,
                    turns |-> IF shown = <<>> /\ receipts[conversationId] # None
                              THEN receipts[conversationId].turns ELSE shown]
    IN  /\ AcceptsReport(msg)
        /\ card' = CardFrom(msg)
        /\ receipts' = IF card'.status \in {"SUCCESS", "FAILED", "STOPPED"}
                       THEN [receipts EXCEPT ![conversationId] = receipt] ELSE receipts
        /\ stored' = IF reloads = MaxReloads THEN stored  \* no one reads it any more
                     ELSE IF card'.status \notin {"SUCCESS", "FAILED", "STOPPED"} THEN stored
                     ELSE [c \in DOMAIN receipts |-> IF receipts'[c] = None THEN None
                             ELSE [receipts'[c] EXCEPT !.turns = [t \in DOMAIN @ |-> turns[@[t]]]]]
        /\ Display(Updated(Board, card'))
        /\ UNCHANGED <<runs, outbox, runCounter, conversationId, opened, reloads>>

\* no further attempt is made for a message
GiveUp(msg) ==
    /\ outbox' = outbox \ {msg}
    /\ UNCHANGED <<runs, card, runCounter, conversationId, turns, shown, receipts, stored, opened, reloads>>

OutputNext ==
    \/ \E task \in Wordings : StartTask(task)
    \/ StopTask
    \/ \E c \in DOMAIN receipts : OpenReceipt(c)
    \/ Reload
    \/ Watchdog
    \/ \E m \in DOMAIN runs : Receive(m) \/ ReportStage(m) \/ ReportEnd(m) \/ ChatAnswers(m)
    \/ \E msg \in outbox : Deliver(msg) \/ GiveUp(msg)

OutputSpec == OutputInit /\ [][OutputNext]_outputVars
----------------------------------------------------------------------------
\* At most one entry of a turn is under way, and none once its run has ended.
SettledLog ==
    \A t \in DOMAIN turns :
        LET active == {i \in DOMAIN turns[t].log.items : turns[t].log.items[i].status = "ACTIVE"}
        IN  /\ \A i, j \in active : i = j
            /\ turns[t].card.status \in Ended => active = {}

\* A turn that showed how its run ended does not show it at work again,
\* however late the reports of the run come in.
NeverWorksAgain ==
    [][\A t \in DOMAIN turns \cap DOMAIN turns' :
          turns[t].card.status \in Ended /\ reloads' = reloads => turns'[t].card.status # "RUNNING"]_outputVars

\* Whatever a turn shows of a model's words went through the screen.
ScreenedOnly == \A t \in DOMAIN turns : \A b \in ShownBodies(turns[t].card) : ~b.secret
=============================================================================
