----------------------------- MODULE GateChain -----------------------------
(***************************************************************************)
(* From a proposed action to its dispatch: the gates of one cycle of       *)
(* AgentLoop.runTask in their order (grounding, M5 with self-healing, the  *)
(* security critic, risk with semantics and confidence, the review, the    *)
(* confirmation, containment, freshness) and what a refusal does to the    *)
(* run.                                                                    *)
(*                                                                         *)
(* A text is the set of the telling words in it.  An element lists the     *)
(* actions its type takes, the hints that find it by name (match), and the *)
(* words its selector shares enough of (near).                             *)
(***************************************************************************)
EXTENDS Absent, Integers, Sequences, FiniteSets, SequencesExt, FiniteSetsExt

CONSTANTS
    GateTasks,    \* what the user asks: the words of the task
    GatePages,    \* what a reading may show
    GateActions,  \* what the model may propose
    MaxRetries,   \* maxRetries
    MaxCycles     \* bound on the cycles of the run

\* the fields a proposal is parsed into
IsAction(a) ==
    a = [kind |-> a.kind, target |-> a.target, reason |-> a.reason, secret |-> a.secret,
         formed |-> a.formed, site |-> a.site]

ASSUME GateAssumption ==
    /\ MaxRetries \in Nat
    /\ None \notin {"FAILED", "BLOCKED", "NEEDS_USER_CONFIRMATION", "FRESHNESS_UNVERIFIED"}
    /\ \A a \in GateActions : IsAction(a)

VARIABLES
    gTask,    \* words of the task
    gPage,    \* the reading of this cycle
    gAct,     \* the action as it now stands
    gAsked,   \* the action as the model proposed it
    gHealed,  \* the last action was given another target by self-healing
    gDone,    \* previousActions: the actions that succeeded
    gSeen,    \* url of the snapshot taken before the dispatch, or None
    gRetries, \* retryCount
    gStale,   \* attempts of STALE_PERCEPTION of the typed planner
    gBlind,   \* attempts of EFFECT_UNVERIFIABLE
    gIdle,    \* cycles without a success since the last one
    gCycles,
    gAt,      \* the gate that is next
    gEnd      \* how the run ended, or None

gateVars == <<gTask, gPage, gAct, gAsked, gHealed, gDone, gSeen, gRetries,
              gStale, gBlind, gIdle, gCycles, gAt, gEnd>>

-----------------------------------------------------------------------------
(* The gates as functions of action a, page p, task words t.               *)

Targeted(a) == a.kind \in {"click", "type", "select", "pressKey"}
Element(a, p) == {e \in p.elements : Targeted(a) /\ e.id = a.target}
Words(a, p) == UNION {e.says : e \in Element(a, p)} \cup a.reason
Surface(a, p) == UNION {e.says \cup e.label : e \in Element(a, p)}

\* groundProposedTarget: the actions it may ground a as, {} when it refuses
Ground(a, p) ==
    CASE ~Targeted(a) -> {a}
      [] a.target = None -> {}
      [] Element(a, p) # {} ->
            IF \A e \in Element(a, p) : a.kind \in e.takes /\ e.shown THEN {a} ELSE {}
      [] OTHER ->
            {[a EXCEPT !.target = e.id] :
                e \in {x \in p.elements : a.kind \in x.takes /\ x.shown /\ a.target \in x.match}}

\* validateAction; the provider's answer was parsed already
Valid(a, p) ==
    /\ a.formed /\ a.secret = "none"
    /\ Targeted(a) => a.target # None /\ Ground(a, p) # {}

\* recoverStaleTarget: any element whose selector is near enough, and a new
\* action with the fields that it copies
Heal(a, p) ==
    {IF a.kind = "pressKey" THEN a
     ELSE [a EXCEPT !.target = e.id, !.reason = e.says,
                    !.secret = IF @ = "reason" THEN "none" ELSE @] :
        e \in {x \in p.elements : x.near \cap ({a.target} \cup a.reason) # {}}}

HealedUnvalidated(a, p) == {h \in Heal(a, p) : Ground(h, p) # {}}

\* the healed actions that pass grounding and M5 again
Healed(a, p) == {h \in Heal(a, p) : Ground(h, p) # {} /\ Valid(h, p)}

\* detectGoalMismatch
ReadOnly(t) == "read" \in t /\ t \cap {"search", "type", "delete", "buy"} = {}
Mismatch(a, p, t) ==
    LET anchored == \E e \in p.elements : e.related
    IN \/ a.kind = "navigate" /\ ReadOnly(t) /\ "navigate" \notin t
       \/ a.kind = "navigate" /\ t \cap {"search", "navigate", "type", "scroll", "read"} = {}
       \/ /\ a.kind = "type"
          /\ \/ ReadOnly(t)
             \/ ~anchored /\ t \cap {"search", "navigate", "type", "scroll", "read"} = {}
       \/ /\ a.kind = "click" /\ "search" \in t /\ anchored
          /\ Surface(a, p) = {} /\ \A e \in Element(a, p) : ~e.related

\* reviewSequence: after a navigation a numbered id is taken for one of the page left
Contradicts(a, p, done) ==
    /\ done # <<>>
    /\ \/ Last(done).kind = "navigate" /\ \E e \in Element(a, p) : e.numbered
       \/ /\ "delete" \in a.reason
          /\ Len(SelectSeq(done, LAMBDA d : /\ d.kind = a.kind /\ d.target = a.target
                                            /\ d.reason = a.reason)) >= 2

\* reviewProposedAction with a blocking finding
Criticised(a, p, t, done) ==
    LET said == Words(a, p) \cup Surface(a, p)
    IN \/ /\ a.kind = "navigate" /\ a.site # p.site
          /\ ~("host" \in t \/ (a.site = "sub" /\ "navigate" \in t))
       \/ a.kind = "type" /\ "send" \in said
       \/ a.kind # "navigate" /\ "send" \in Surface(a, p) /\ "buy" \in said
       \/ "hostile" \in said \/ p.injected
       \/ "delete" \in said /\ "delete" \notin t
       \/ Mismatch(a, p, t)
       \/ Contradicts(a, p, done)

\* assessActionRisk: selector and reason count, the label does not
Modifies(a) == a.kind \in {"type", "select"}
Costly(a, p) == Words(a, p) \cap {"buy", "delete"} # {}
Submits(a, p) ==
    LET w == Words(a, p)
    IN "send" \in w \/ ("submit" \in w /\ "search" \notin w)
Sensitivity(a, p) ==
    IF \E e \in Element(a, p) : e.holds = "secret" THEN IF Modifies(a) THEN 40 ELSE 5
    ELSE IF \E e \in Element(a, p) : e.holds = "contact" THEN IF Modifies(a) THEN 20 ELSE 5
    ELSE 0
Crosses(a, p) == a.kind = "navigate" /\ a.site # p.site
Score(a, p) ==
    Min({100, [scroll |-> 10, click |-> 20, select |-> 25, pressKey |-> 25,
               type |-> 30, navigate |-> 35][a.kind]
              + Sensitivity(a, p)
              + (IF Costly(a, p) THEN 55 ELSE IF Submits(a, p) THEN 35 ELSE 0)
              + (IF Crosses(a, p) THEN 35 ELSE 0)
              + (IF "delete" \in Words(a, p) THEN 50 ELSE 0)})
High(a, p) ==
    Costly(a, p) \/ Submits(a, p) \/ Crosses(a, p) \/ Sensitivity(a, p) = 40 \/ Score(a, p) >= 55

\* verifySemanticAction: what contradicts the domain of the task
Conflict(a, p, t) ==
    LET w == Words(a, p)
    IN \/ "history" \in t /\ w \cap {"buy", "delete"} # {}
       \/ t \cap {"history", "scroll"} = {"scroll"} /\ w \cap {"submit", "buy", "delete"} # {}
       \/ t \cap {"history", "scroll", "navigate", "search"} = {"search"} /\ w \cap {"buy", "delete"} # {}
Alignment(a, p, t) ==
    CASE "history" \in t /\ "view" \in Words(a, p) -> IF Score(a, p) < 25 THEN 95 ELSE 85
      [] a.kind = "scroll" -> 90
      [] a.kind = "navigate" -> 80
      [] \E e \in Element(a, p) : e.related -> 85
      [] High(a, p) -> 40
      [] OTHER -> 75

\* evaluateExecutionConfidence: below 0.70 after rounding the user is asked;
\* earlier successes of the run count
Confident(a, p, t, wins) ==
    60 * Alignment(a, p, t) + 35 * (100 - Score(a, p)) + Min({1000, 300 * wins}) > 6950

\* requiresConfirmation: an external navigation is High already
Confirms(a, p, t, wins) == High(a, p) \/ ~Confident(a, p, t, wins)

\* classifyConsequential: words of the id and, for a click or a key, of the task
Consequential(a, p, t) ==
    \/ \E e \in Element(a, p) : e.named \cap {"buy", "delete", "submit", "send"} # {}
    \/ a.kind \in {"click", "pressKey"} /\ "delete" \in t

\* evaluateContainment; the tab's address is the snapshot's, else the reading's
Contained(a, p, url) ==
    /\ a.kind = "navigate" => a.site # "off"
    /\ (IF url # None THEN url.site ELSE p.site) # "off"

-----------------------------------------------------------------------------
GateInit ==
    /\ gTask \in GateTasks
    /\ gPage = None /\ gAct = None /\ gAsked = None /\ gHealed = FALSE
    /\ gDone = <<>> /\ gSeen = None
    /\ gRetries = 0 /\ gStale = 0 /\ gBlind = 0 /\ gIdle = 0 /\ gCycles = 0
    /\ gAt = "look" /\ gEnd = None

Look(p) ==
    /\ gAt = "look" /\ gCycles < MaxCycles
    /\ gPage' = p
    /\ gCycles' = gCycles + 1 /\ gAt' = "propose"
    /\ gAct' = None /\ gAsked' = None /\ gHealed' = FALSE /\ gSeen' = None
    /\ UNCHANGED <<gTask, gDone, gRetries, gStale, gBlind, gIdle, gEnd>>

ProposeAction(a) ==
    /\ gAt = "propose"
    /\ gAct' = a /\ gAsked' = a /\ gAt' = "ground"
    /\ UNCHANGED <<gTask, gPage, gHealed, gDone, gSeen, gRetries, gStale, gBlind, gIdle, gCycles, gEnd>>

\* retryCount++, and the run fails when it is above maxRetries
Refuse ==
    /\ gRetries' = gRetries + 1 /\ gIdle' = gIdle + 1
    /\ IF gRetries' > MaxRetries THEN gAt' = "end" /\ gEnd' = "FAILED"
                                 ELSE gAt' = "look" /\ gEnd' = gEnd
    /\ UNCHANGED <<gTask, gPage, gAct, gAsked, gHealed, gDone, gSeen, gStale, gBlind, gCycles>>

Stop(how) ==
    /\ gAt' = "end" /\ gEnd' = how
    /\ UNCHANGED <<gTask, gPage, gAct, gAsked, gHealed, gDone, gSeen, gRetries,
                   gStale, gBlind, gIdle, gCycles>>

PassTo(gate) ==
    /\ gAt' = gate
    /\ UNCHANGED <<gTask, gPage, gAsked, gDone, gSeen, gRetries, gStale, gBlind, gIdle, gCycles, gEnd>>

GroundingRefuses == gAt = "ground" /\ Ground(gAct, gPage) = {} /\ Refuse

GroundingPasses ==
    /\ gAt = "ground" /\ gAct' \in Ground(gAct, gPage)
    /\ PassTo("validate") /\ UNCHANGED gHealed

ValidatorPasses ==
    /\ gAt = "validate" /\ Valid(gAct, gPage)
    /\ PassTo("critic") /\ UNCHANGED <<gAct, gHealed>>

\* any refusal of M5 is healed where a target can be found
ValidatorHeals ==
    /\ gAt = "validate" /\ ~Valid(gAct, gPage) /\ Targeted(gAct)
    /\ gAct' \in Healed(gAct, gPage) /\ gHealed' = TRUE
    /\ PassTo("critic")

\* the best match need not be one that passes
ValidatorRefuses ==
    /\ gAt = "validate" /\ ~Valid(gAct, gPage)
    /\ Targeted(gAct) => Heal(gAct, gPage) = {} \/ Heal(gAct, gPage) # Healed(gAct, gPage)
    /\ Refuse

CriticBlocks == gAt = "critic" /\ Criticised(gAct, gPage, gTask, gDone) /\ Refuse

\* the privacy policy grants an agent everything a page control is for
CriticPasses ==
    /\ gAt = "critic" /\ ~Criticised(gAct, gPage, gTask, gDone)
    /\ PassTo("risk") /\ UNCHANGED <<gAct, gHealed>>

RiskBlocks == gAt = "risk" /\ Conflict(gAct, gPage, gTask) /\ Stop("BLOCKED")

RiskPasses ==
    /\ gAt = "risk" /\ ~Conflict(gAct, gPage, gTask)
    /\ PassTo("review") /\ UNCHANGED <<gAct, gHealed>>

\* provider.reviewAction says what it says
ReviewRejects == gAt = "review" /\ Refuse

ReviewPasses ==
    /\ gAt = "review"
    /\ PassTo("confirm") /\ UNCHANGED <<gAct, gHealed>>

Confirm ==
    /\ gAt = "confirm" /\ Confirms(gAct, gPage, gTask, Len(gDone))
    /\ Stop("NEEDS_USER_CONFIRMATION")

\* the tab may have moved on since it was read, and the snapshot may fail
Snapshot(url) ==
    /\ gAt = "confirm" /\ ~Confirms(gAct, gPage, gTask, Len(gDone))
    /\ gSeen' = url /\ gAt' = "contain"
    /\ UNCHANGED <<gTask, gPage, gAct, gAsked, gHealed, gDone, gRetries, gStale,
                   gBlind, gIdle, gCycles, gEnd>>

ContainmentDenies ==
    /\ gAt = "contain" /\ ~Contained(gAct, gPage, gSeen)
    /\ gRetries' = gRetries + 1 /\ gAt' = "end" /\ gEnd' = "FAILED"
    /\ UNCHANGED <<gTask, gPage, gAct, gAsked, gHealed, gDone, gSeen, gStale, gBlind, gIdle, gCycles>>

ContainmentPasses ==
    /\ gAt = "contain" /\ Contained(gAct, gPage, gSeen)
    /\ PassTo("fresh") /\ UNCHANGED <<gAct, gHealed>>

\* assessActionFreshness: the page is another one
FreshnessStops ==
    /\ gAt = "fresh" /\ Consequential(gAct, gPage, gTask)
    /\ gSeen # None /\ gSeen # gPage.url
    /\ Stop("FRESHNESS_UNVERIFIED")

\* it could not be observed: once per run it is read again
FreshnessRereads ==
    /\ gAt = "fresh" /\ Consequential(gAct, gPage, gTask) /\ gSeen = None
    /\ gStale' = gStale + 1 /\ gIdle' = gIdle + 1
    /\ IF gStale >= 1 THEN gAt' = "end" /\ gEnd' = "FAILED"
                      ELSE gAt' = "look" /\ gEnd' = gEnd
    /\ UNCHANGED <<gTask, gPage, gAct, gAsked, gHealed, gDone, gSeen, gRetries, gBlind, gCycles>>

FreshnessPasses ==
    /\ gAt = "fresh" /\ (Consequential(gAct, gPage, gTask) => gSeen = gPage.url)
    /\ PassTo("dispatch") /\ UNCHANGED <<gAct, gHealed>>

Succeed ==
    /\ gAt = "dispatch" /\ gSeen # None
    /\ gDone' = Append(gDone, gAct)
    /\ gRetries' = 0 /\ gIdle' = 0 /\ gAt' = "look"
    /\ UNCHANGED <<gTask, gPage, gAct, gAsked, gHealed, gSeen, gStale, gBlind, gCycles, gEnd>>

\* an execution that failed counts like a refusal
ActionFails == gAt = "dispatch" /\ Refuse

\* before or after it the page could not be observed: once per run it goes on
Unobserved ==
    /\ gAt = "dispatch"
    /\ gRetries' = gRetries + 1 /\ gBlind' = gBlind + 1 /\ gIdle' = gIdle + 1
    /\ IF gBlind >= 1 THEN gAt' = "end" /\ gEnd' = "FAILED"
                      ELSE gAt' = "look" /\ gEnd' = gEnd
    /\ UNCHANGED <<gTask, gPage, gAct, gAsked, gHealed, gDone, gSeen, gStale, gCycles>>

Urls == {p.url : p \in GatePages} \cup {None}

GateNext ==
    \/ \E p \in GatePages : Look(p)
    \/ \E a \in GateActions : ProposeAction(a)
    \/ GroundingRefuses \/ GroundingPasses
    \/ ValidatorPasses \/ ValidatorHeals \/ ValidatorRefuses
    \/ CriticBlocks \/ CriticPasses
    \/ RiskBlocks \/ RiskPasses
    \/ ReviewRejects \/ ReviewPasses
    \/ Confirm \/ (\E url \in Urls : Snapshot(url))
    \/ ContainmentDenies \/ ContainmentPasses
    \/ FreshnessStops \/ FreshnessRereads \/ FreshnessPasses
    \/ Succeed \/ ActionFails \/ Unobserved

GateSpec == GateInit /\ [][GateNext]_gateVars

-----------------------------------------------------------------------------
(* Properties.                                                             *)

\* Whatever leaves the chain, to the page or to the user, is in the form in
\* which it leaves one that no gate objects to, whichever of them changed it on
\* the way: its target is on the page last read, takes that action and shows.
LeavesJudged ==
    gAt = "dispatch" \/ gEnd = "NEEDS_USER_CONFIRMATION" =>
       /\ Targeted(gAct) => \E e \in gPage.elements :
             e.id = gAct.target /\ gAct.kind \in e.takes /\ e.shown
       /\ gAct.formed /\ gAct.secret = "none"
       /\ ~Criticised(gAct, gPage, gTask, gDone)
       /\ ~Conflict(gAct, gPage, gTask)

\* A run that goes on has not been refused more often in a row than maxRetries
\* allows, and once more for a page that could not be observed before an
\* action and once for an effect that could not.
RefusalsBounded == gEnd = None => gIdle <= MaxRetries + 2

-----------------------------------------------------------------------------
(* What the repository says and the code does not do.                      *)

\* Only an action whose target is gone is healed ("when an intended DOM element
\* ID becomes stale, mutated, or missing").
HealedOnlyIfStale ==
    gHealed => gAsked.target \notin {e.id : e \in gPage.elements}

\* An element of the page just read is not called one of the page that was left.
LiveTargetNotContradicted ==
    gAt = "critic" /\ Element(gAct, gPage) # {} /\ "delete" \notin gAct.reason =>
       ~Contradicts(gAct, gPage, gDone)
=============================================================================
