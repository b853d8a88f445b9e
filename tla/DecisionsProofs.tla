--------------------------- MODULE DecisionsProofs ---------------------------
(***************************************************************************)
(* What AgentLoop decides about one action, for every page, proposal,      *)
(* task, reply and duration: what the gates let through is sound and a run *)
(* is not refused for ever (GateChain); an effect that is reported was     *)
(* there and is the action's own (Execution); a goal that is called done   *)
(* was read, and nothing is concluded from what a reading leaves out       *)
(* (GoalVerdict); the provider is not asked again in vain, nor waited for  *)
(* in silence (ReasoningTurn); a run recalls what failed where it is       *)
(* (AgentMemory).                                                          *)
(***************************************************************************)
EXTENDS GateChain, Execution, GoalVerdict, ReasoningTurn, AgentMemory, FiniteSetTheorems,
        WellFoundedInduction, TLAPS

-----------------------------------------------------------------------------
(* GateChain: what the gates an action has passed say of it, and who pays  *)
(* for a cycle without a success.                                          *)

\* an action whose target, if it has one, is there, takes it and shows
OnPage(a, p) ==
    Targeted(a) => \E e \in p.elements : e.id = a.target /\ a.kind \in e.takes /\ e.shown

Sound(a, p) == a.formed /\ a.secret = "none" /\ OnPage(a, p)

\* what the gates that an action has passed say of it, gate by gate
Passed ==
    /\ gAt \in {"ground", "validate"} => IsAction(gAct)
    /\ gAt = "validate" => OnPage(gAct, gPage)
    /\ gAt \in {"critic", "risk", "review", "confirm", "contain", "fresh", "dispatch"}
         => Sound(gAct, gPage)
    /\ gAt \in {"risk", "review", "confirm", "contain", "fresh", "dispatch"}
         => ~Criticised(gAct, gPage, gTask, gDone)
    /\ gAt \in {"review", "confirm", "contain", "fresh", "dispatch"}
         => ~Conflict(gAct, gPage, gTask)
    /\ gEnd = "NEEDS_USER_CONFIRMATION" =>
          /\ Sound(gAct, gPage)
          /\ ~Criticised(gAct, gPage, gTask, gDone)
          /\ ~Conflict(gAct, gPage, gTask)

\* a cycle without a success is paid for by one of three counters
Counted ==
    /\ gRetries \in Nat /\ gStale \in Nat /\ gBlind \in Nat /\ gIdle \in Nat
    /\ gIdle <= gRetries + gStale
    /\ gAt # "end" =>
          gEnd = None /\ gRetries <= MaxRetries + gBlind /\ gStale <= 1 /\ gBlind <= 1
    /\ gAt = "end" => gEnd # None

GateInv == Passed /\ Counted

\* What grounding makes of a proposal is an action again, and on the page.
LEMMA GroundedIsOnPage ==
  ASSUME NEW a, IsAction(a), NEW p, NEW b \in Ground(a, p)
  PROVE  IsAction(b) /\ OnPage(b, p)
<1>1. CASE ~Targeted(a)
  BY <1>1 DEF Ground, OnPage
<1>2. CASE Targeted(a) /\ Element(a, p) # {}
  <2>1. PICK e \in Element(a, p) : TRUE
    BY <1>2
  <2>2. b = a
    BY <1>2 DEF Ground
  <2>3. \A x \in Element(a, p) : a.kind \in x.takes /\ x.shown
    BY <1>2 DEF Ground
  <2> QED BY <2>1, <2>2, <2>3 DEF OnPage, Element
<1>3. CASE Targeted(a) /\ Element(a, p) = {}
  <2>1. PICK e \in p.elements : /\ a.kind \in e.takes /\ e.shown
                                /\ b = [a EXCEPT !.target = e.id]
    BY <1>3 DEF Ground
  <2>2. b = [kind |-> a.kind, target |-> e.id, reason |-> a.reason, secret |-> a.secret,
             formed |-> a.formed, site |-> a.site]
    BY <2>1 DEF IsAction
  <2> QED BY <2>1, <2>2 DEF IsAction, OnPage
<1> QED BY <1>1, <1>2, <1>3

\* What passes M5 after it was healed is sound: its target was looked up on
\* this page, or it is the key press that was grounded before.
LEMMA HealedIsSound ==
  ASSUME NEW a, IsAction(a), NEW p, OnPage(a, p), NEW h \in Healed(a, p)
  PROVE  Sound(h, p)
<1>1. h \in Heal(a, p) /\ Ground(h, p) # {} /\ h.formed /\ h.secret = "none"
  BY DEF Healed, Valid
<1>2. CASE a.kind = "pressKey"
  <2>1. h = a
    BY <1>1, <1>2 DEF Heal
  <2> QED BY <1>1, <2>1 DEF Sound
<1>3. CASE a.kind # "pressKey"
  <2>1. PICK e \in p.elements :
          h = [a EXCEPT !.target = e.id, !.reason = e.says,
                        !.secret = IF @ = "reason" THEN "none" ELSE @]
    BY <1>1, <1>3 DEF Heal
  <2>2. h.kind = a.kind /\ h.target = e.id
    BY <2>1 DEF IsAction
  <2>3. ASSUME Targeted(h)
        PROVE  \E x \in p.elements : x.id = h.target /\ h.kind \in x.takes /\ x.shown
    <3>1. e \in Element(h, p)
      BY <2>2, <2>3 DEF Element
    <3>2. \A x \in Element(h, p) : h.kind \in x.takes /\ x.shown
      BY <1>1, <2>3, <3>1 DEF Ground
    <3> QED BY <3>1, <3>2 DEF Element
  <2> QED BY <1>1, <2>3 DEF Sound, OnPage
<1> QED BY <1>2, <1>3

\* What M5 lets pass as it stands is sound once it was grounded.
LEMMA ValidIsSound ==
  ASSUME NEW a, NEW p, OnPage(a, p), Valid(a, p)
  PROVE  Sound(a, p)
BY DEF Valid, Sound

LEMMA GateStart == GateInit => GateInv
BY GateAssumption DEF GateInit, GateInv, Passed, Counted

LEMMA RefusalKeeps ==
  ASSUME GateInv, Refuse, gAt # "end"
  PROVE  GateInv'
<1>1. Counted'
  BY GateAssumption DEF GateInv, Counted, Refuse
<1>2. Passed'
  BY GateAssumption DEF GateInv, Counted, Passed, Refuse
<1> QED BY <1>1, <1>2 DEF GateInv

LEMMA GateStep == GateInv /\ [GateNext]_gateVars => GateInv'
<1> SUFFICES ASSUME GateInv, [GateNext]_gateVars
             PROVE  GateInv'
  OBVIOUS
<1> USE DEF GateInv
<1>1. CASE UNCHANGED gateVars
  BY <1>1 DEF gateVars, Passed, Counted, Sound, OnPage
<1>2. ASSUME NEW p \in GatePages, Look(p)
      PROVE  GateInv'
  BY <1>2, GateAssumption DEF Look, Passed, Counted
<1>3. ASSUME NEW a \in GateActions, ProposeAction(a)
      PROVE  GateInv'
  BY <1>3, GateAssumption DEF ProposeAction, Passed, Counted
<1>4. CASE GroundingRefuses
  BY <1>4, RefusalKeeps DEF GroundingRefuses
<1>5. CASE GroundingPasses
  <2>1. IsAction(gAct') /\ OnPage(gAct', gPage')
    BY <1>5, GroundedIsOnPage DEF GroundingPasses, PassTo, Passed
  <2> QED BY <1>5, <2>1, GateAssumption DEF GroundingPasses, PassTo, Passed, Counted
<1>6. CASE ValidatorPasses
  <2>1. Sound(gAct', gPage')
    BY <1>6, ValidIsSound DEF ValidatorPasses, PassTo, Passed
  <2> QED BY <1>6, <2>1, GateAssumption DEF ValidatorPasses, PassTo, Passed, Counted
<1>7. CASE ValidatorHeals
  <2>1. Sound(gAct', gPage')
    BY <1>7, HealedIsSound DEF ValidatorHeals, PassTo, Passed
  <2> QED BY <1>7, <2>1, GateAssumption DEF ValidatorHeals, PassTo, Passed, Counted
<1>8. CASE ValidatorRefuses
  BY <1>8, RefusalKeeps DEF ValidatorRefuses
<1>9. CASE CriticBlocks
  BY <1>9, RefusalKeeps DEF CriticBlocks
<1>10. CASE CriticPasses
  BY <1>10, GateAssumption DEF CriticPasses, PassTo, Passed, Counted
<1>11. CASE RiskBlocks
  BY <1>11, GateAssumption DEF RiskBlocks, Stop, Passed, Counted
<1>12. CASE RiskPasses
  BY <1>12, GateAssumption DEF RiskPasses, PassTo, Passed, Counted
<1>13. CASE ReviewRejects
  BY <1>13, RefusalKeeps DEF ReviewRejects
<1>14. CASE ReviewPasses
  BY <1>14, GateAssumption DEF ReviewPasses, PassTo, Passed, Counted
<1>15. CASE Confirm
  BY <1>15, GateAssumption DEF Confirm, Stop, Passed, Counted
<1>16. ASSUME NEW url \in Urls, Snapshot(url)
       PROVE  GateInv'
  BY <1>16, GateAssumption DEF Snapshot, Passed, Counted
<1>17. CASE ContainmentDenies
  BY <1>17, GateAssumption DEF ContainmentDenies, Passed, Counted
<1>18. CASE ContainmentPasses
  BY <1>18, GateAssumption DEF ContainmentPasses, PassTo, Passed, Counted
<1>19. CASE FreshnessStops
  BY <1>19, GateAssumption DEF FreshnessStops, Stop, Passed, Counted
<1>20. CASE FreshnessRereads
  BY <1>20, GateAssumption DEF FreshnessRereads, Passed, Counted
<1>21. CASE FreshnessPasses
  BY <1>21, GateAssumption DEF FreshnessPasses, PassTo, Passed, Counted
<1>22. CASE Succeed
  BY <1>22, GateAssumption DEF Succeed, Passed, Counted
<1>23. CASE ActionFails
  BY <1>23, RefusalKeeps DEF ActionFails
<1>24. CASE Unobserved
  BY <1>24, GateAssumption DEF Unobserved, Passed, Counted
<1> QED
  BY <1>1, <1>2, <1>3, <1>4, <1>5, <1>6, <1>7, <1>8, <1>9, <1>10, <1>11, <1>12, <1>13, <1>14,
     <1>15, <1>16, <1>17, <1>18, <1>19, <1>20, <1>21, <1>22, <1>23, <1>24 DEF GateNext

LEMMA GateInvariance == GateSpec => []GateInv
<1> QED BY GateStart, GateStep, PTL DEF GateSpec

\* For every page, every proposal and every task: what is dispatched, or put
\* to the user, is in the form in which no gate objects to it, and its target
\* is on the page, takes it and shows.
THEOREM OnlyJudgedLeaves == GateSpec => []LeavesJudged
<1>1. GateInv => LeavesJudged
  BY DEF GateInv, Passed, Sound, OnPage, LeavesJudged
<1> QED BY <1>1, GateInvariance, PTL

\* For every maxRetries: a run that goes on was refused in a row at most
\* maxRetries and two times, the two being the readings it may once repeat.
THEOREM RefusalsEnd == GateSpec => []RefusalsBounded
<1>1. GateInv => RefusalsBounded
  BY GateAssumption DEF GateInv, Counted, RefusalsBounded
<1> QED BY <1>1, GateInvariance, PTL

-----------------------------------------------------------------------------
(* Execution: what the snapshots tell of the page, and that no action of   *)
(* an earlier cycle is left to run while a later one is tried.             *)

\* a snapshot says what was there when it was read, or only the tab's url
Tells(s, was) ==
    s # None =>
       \/ s = [url |-> was.url, dialog |-> FALSE, count |-> 0, focus |-> None, down |-> FALSE,
               length |-> None, read |-> FALSE]
       \/ s = [url |-> was.url, dialog |-> was.dialog, count |-> was.count, focus |-> was.focus,
               down |-> was.down, length |-> was.length, read |-> TRUE]

\* while an action is tried no earlier one waits for the page, and none ran
Alone ==
    /\ xAt \in {"choose", "before", "dispatch"} => xQueue = <<>>
    /\ xAt \in {"sent", "after"} => \/ xQueue = <<>>
                                    \/ \E m : xQueue = <<m>> /\ m.n = xTried
    /\ xAt \in {"before", "dispatch", "sent", "after"} => ~xLate

\* the url a snapshot under way holds is the one the tab's record gave
Reading ==
    /\ xAt = "before" => xTab = xWas.url
    /\ xAt = "after" => xTab = xIs.url

ExecutionInv ==
    /\ xAt # "before" => Tells(xPre, xWas)
    /\ xAt # "after" => Tells(xPost, xIs)
    /\ Reading
    /\ Alone

LEMMA ExecutionStart == ExecutionInit => ExecutionInv
BY DEF ExecutionInit, ExecutionInv, Reading, Alone, Tells

\* the second half of a snapshot tells of the page it reads, under the url read before
LEMMA SnapshotTells ==
  ASSUME NEW target, NEW s \in Snapshots(target), NEW was, was.url = xTab
  PROVE  Tells(s, [Truth(target) EXCEPT !.url = was.url])
<1>1. s = TabOnly \/ s = PageRead(target)
  BY DEF Snapshots
<1>2. [Truth(target) EXCEPT !.url = was.url].url = xTab
  BY DEF Truth
<1> QED BY <1>1, <1>2 DEF Tells, TabOnly, PageRead, Truth

\* What the page does of its own leaves the loop's variables alone, and runs
\* no action but the one that is being tried.
LEMMA PageKeeps ==
  ASSUME ExecutionInv, PageLives
  PROVE  ExecutionInv'
<1>1. ASSUME UNCHANGED <<loopVars, xLate>>, xQueue' = xQueue \/ xQueue' = <<>>
      PROVE  ExecutionInv'
  BY <1>1 DEF ExecutionInv, Reading, Alone, loopVars
<1>2. ASSUME NEW m \in ToSet(xQueue), Runs(m), Reply(m, "done") \/ Reply(m, "failed"),
             UNCHANGED xLate \/ \E e : Hit(m, e)
      PROVE  ExecutionInv'
  <2>1. UNCHANGED <<xOwned, xAct, xTab, xPre, xPost, xWas, xIs, xTried, xAt>> /\ xQueue # <<>>
        /\ m = Head(xQueue) /\ xQueue' = Tail(xQueue)
    BY <1>2 DEF Runs
  <2>2. /\ (xAt # "before" => Tells(xPre, xWas))'
        /\ (xAt # "after" => Tells(xPost, xIs))'
        /\ Reading'
    BY <2>1 DEF ExecutionInv, Reading
  <2>3. xAt \notin {"choose", "before", "dispatch"}
    BY <2>1 DEF ExecutionInv, Alone
  <2>4. ASSUME xAt \in {"sent", "after"}
        PROVE  xQueue' = <<>> /\ UNCHANGED xLate
    <3>1. PICK k : xQueue = <<k>> /\ k.n = xTried
      BY <2>1, <2>4 DEF ExecutionInv, Alone
    <3> QED BY <1>2, <2>1, <3>1 DEF Hit
  <2> QED BY <2>1, <2>2, <2>3, <2>4 DEF ExecutionInv, Alone
<1>3. CASE \/ PageChanges \/ PageNavigates \/ NavigationCommits \/ NavigationDropped
           \/ ScriptStarts \/ OwnScan \/ WindowPasses
  BY <1>1, <1>3 DEF PageChanges, PageNavigates, NavigationCommits, NavigationDropped,
     ScriptStarts, OwnScan, WindowPasses
<1>4. CASE PageRuns
  <2>1. PICK m \in ToSet(xQueue) :
            \/ ClickRefused(m) \/ ClickRuns(m) \/ WriteRefused(m) \/ WriteRuns(m)
            \/ KeyRefused(m) \/ KeyRuns(m) \/ ScrollRuns(m) \/ NavigateRuns(m)
    BY <1>4 DEF PageRuns
  <2>2. Runs(m)
    BY <2>1 DEF ClickRefused, ClickRuns, WriteRefused, WriteRuns, KeyRefused, KeyRuns,
       ScrollRuns, NavigateRuns
  <2>3. Reply(m, "done") \/ Reply(m, "failed")
    BY <2>1 DEF ClickRefused, ClickRuns, WriteRefused, WriteRuns, KeyRefused, KeyRuns,
       ScrollRuns, NavigateRuns, Refused
  <2>4. UNCHANGED xLate \/ \E e : Hit(m, e)
    BY <2>1 DEF ClickRefused, ClickRuns, WriteRefused, WriteRuns, KeyRefused, KeyRuns,
       ScrollRuns, NavigateRuns, Refused
  <2> QED BY <1>2, <2>2, <2>3, <2>4
<1> QED BY <1>3, <1>4 DEF PageLives

LEMMA ExecutionStep == ExecutionInv /\ [ExecutionNext]_executionVars => ExecutionInv'
<1> SUFFICES ASSUME ExecutionInv, [ExecutionNext]_executionVars
             PROVE  ExecutionInv'
  OBVIOUS
<1>1. CASE PageLives
  BY <1>1, PageKeeps
<1>2. CASE Reread
  BY <1>2 DEF Reread, ExecutionInv, Reading, Alone
<1>3. CASE RereadFails
  BY <1>3 DEF RereadFails, ExecutionInv, Reading, Alone
<1>4. CASE Choose
  <2>1. PICK c \in Proposals : xAct' = c /\ xWas' = Truth(c.target)
    BY <1>4 DEF Choose
  <2>2. Reading'
    BY <1>4, <2>1 DEF Choose, Reading, Truth
  <2>3. Tells(xPre, xWas)' /\ Tells(xPost, xIs)'
    BY <1>4 DEF Choose, Tells
  <2> QED BY <1>4, <2>2, <2>3 DEF Choose, ExecutionInv, Alone
<1>5. CASE DispatchFails
  BY <1>5 DEF DispatchFails, ExecutionInv, Reading, Alone
<1>6. CASE Dispatch
  <2>1. \E m : xQueue' = <<m>> /\ m.n = xTried'
    <3> DEFINE m == [kind |-> xAct.kind, target |-> xAct.target, url |-> xAct.url, n |-> xTried]
    <3>1. xQueue' = Append(<<>>, m) /\ xTried' = xTried
      BY <1>6 DEF Dispatch, ExecutionInv, Reading, Alone
    <3>2. xQueue' = <<m>>
      BY <3>1
    <3> QED BY <3>1, <3>2
  <2> QED BY <1>6, <2>1 DEF Dispatch, ExecutionInv, Reading, Alone
<1>7. CASE ReplyLost
  BY <1>7 DEF ReplyLost, ExecutionInv, Reading, Alone
<1>8. CASE Supersede
  BY <1>8 DEF Supersede, ExecutionInv, Reading, Alone
<1>9. CASE Abandon
  BY <1>9 DEF Abandon, ExecutionInv, Reading, Alone
<1>10. CASE Failed
  BY <1>10 DEF Failed, ExecutionInv, Reading, Alone
<1>11. CASE Measure
  <2>1. xAt = "sent" /\ UNCHANGED <<xPre, xPost, xWas, xQueue, xLate, xTried>>
    BY <1>11 DEF Measure
  <2>2. CASE xTab' = TabUrl /\ xIs' = Truth(xAct.target) /\ xAt' = "after"
    BY <2>1, <2>2 DEF ExecutionInv, Reading, Alone, Truth
  <2>3. CASE UNCHANGED <<xTab, xIs, xAt>>
    BY <2>1, <2>3 DEF ExecutionInv, Reading, Alone
  <2> QED BY <1>11, <2>2, <2>3 DEF Measure
<1>12. CASE Conclude
  BY <1>12 DEF Conclude, ExecutionInv, Reading, Alone
<1>13. CASE Finish
  BY <1>13 DEF Finish, ExecutionInv, Reading, Alone
<1>14. CASE SeenBefore
  <2>1. Tells(xPre, xWas)'
    <3>1. PICK s \in Snapshots(xAct.target) : xPre' = s
      BY <1>14 DEF SeenBefore
    <3>2. xWas' = [Truth(xAct.target) EXCEPT !.url = xWas.url] /\ xWas.url = xTab
      BY <1>14 DEF SeenBefore, ExecutionInv, Reading
    <3> QED BY <3>1, <3>2, SnapshotTells
  <2> QED BY <1>14, <2>1 DEF SeenBefore, ExecutionInv, Reading, Alone
<1>15. CASE SeenAfter
  <2>1. Tells(xPost, xIs)'
    <3>1. PICK s \in Snapshots(xAct.target) : xPost' = s
      BY <1>15 DEF SeenAfter
    <3>2. xIs' = [Truth(xAct.target) EXCEPT !.url = xIs.url] /\ xIs.url = xTab
      BY <1>15 DEF SeenAfter, ExecutionInv, Reading
    <3> QED BY <3>1, <3>2, SnapshotTells
  <2> QED BY <1>15, <2>1 DEF SeenAfter, ExecutionInv, Reading, Alone
<1>16. CASE UNCHANGED executionVars
  BY <1>16 DEF executionVars, loopVars, ExecutionInv, Reading, Alone
<1> QED
  BY <1>1, <1>2, <1>3, <1>4, <1>5, <1>6, <1>7, <1>8, <1>9, <1>10, <1>11, <1>12, <1>13, <1>14,
     <1>15, <1>16
  DEF ExecutionNext

LEMMA ExecutionInvariance == ExecutionSpec => []ExecutionInv
<1> QED BY ExecutionStart, ExecutionStep, PTL DEF ExecutionSpec

\* Whatever the page does and however long it is busy: no earlier action runs
\* between the two snapshots an effect is read from.
THEOREM NothingElseRan == ExecutionSpec => []EffectIsItsOwn
<1>1. ExecutionInv => EffectIsItsOwn
  BY DEF ExecutionInv, Alone, EffectIsItsOwn, Measured
<1> QED BY <1>1, ExecutionInvariance, PTL

LEMMA Compared ==
  ASSUME NEW s, NEW t, NEW was, NEW is, s # None, t # None, Tells(s, was), Tells(t, is)
  PROVE  /\ s.url = was.url /\ t.url = is.url
         /\ t.length = 1 => is.length = 1
         /\ \A f \in Comparable(s, t) : s[f] = was[f] /\ t[f] = is[f]
<1>1. t.length = 1 => is.length = 1
  BY AbsentAssumption DEF Tells
<1>2. ASSUME NEW f \in Comparable(s, t)
      PROVE  s[f] = was[f] /\ t[f] = is[f]
  <2>1. s.read /\ t.read /\ f \in {"dialog", "count", "focus", "down", "length"}
    BY <1>2 DEF Comparable
  <2>2. s = [url |-> was.url, dialog |-> was.dialog, count |-> was.count, focus |-> was.focus,
               down |-> was.down, length |-> was.length, read |-> TRUE]
    BY <2>1 DEF Tells
  <2>3. t = [url |-> is.url, dialog |-> is.dialog, count |-> is.count, focus |-> is.focus,
               down |-> is.down, length |-> is.length, read |-> TRUE]
    BY <2>1 DEF Tells
  <2> QED BY <2>1, <2>2, <2>3
<1> QED BY <1>1, <1>2 DEF Tells

LEMMA AllTellingCompared ==
  ASSUME NEW s, NEW t, NEW kind, Required(kind) \subseteq Comparable(s, t), NEW f \in Telling(kind)
  PROVE  f \in Comparable(s, t) \/ (f = "length" /\ (s.read /\ t.read) /\ None \in {s.length, t.length})
<1>1. kind # "navigate" /\ f \in {"dialog", "count", "focus", "down", "length"}
  BY DEF Telling
<1>2. Comparable(s, t) # {}
  BY <1>1 DEF Required
<1>3. s.read /\ t.read
  BY <1>2 DEF Comparable
<1> QED BY <1>1, <1>3 DEF Comparable

\* Whatever the page shows, however its readings fail and whatever it becomes between the two
\* halves of a snapshot: an effect that is
\* reported was there, and where none is reported nothing that the verdict
\* looks at was different.
THEOREM EffectsAreReal == ExecutionSpec => []EffectWasMeasured
<1>1. ASSUME ExecutionInv, Measured
      PROVE  /\ Outcome = "effect" => xWas # xIs \/ (xAct.kind = "type" /\ xIs.length = 1)
             /\ Outcome = "no_effect" /\ xWas.url = xIs.url =>
                  \A f \in Telling(xAct.kind) :
                     xWas[f] = xIs[f] \/ (f = "length" /\ None \in {xWas.length, xIs.length})
  <2> DEFINE s == xPre
             t == xPost
             kind == xAct.kind
             moved == s.url # t.url
             readable == moved \/ (t.read /\ Required(kind) \subseteq Comparable(s, t))
             effect == IF moved
                       THEN kind \in {"navigate", "click", "pressKey"}
                              \/ (kind = "type" /\ t.length = 1)
                       ELSE Changed(s, t, Telling(kind)) # {} \/ (kind = "type" /\ t.length = 1)
  <2>1. s # None /\ t # None /\ Tells(s, xWas) /\ Tells(t, xIs)
    BY <1>1 DEF Measured, ExecutionInv
  <2>2. /\ s.url = xWas.url /\ t.url = xIs.url
        /\ t.length = 1 => xIs.length = 1
        /\ \A f \in Comparable(s, t) : s[f] = xWas[f] /\ t[f] = xIs[f]
    BY <2>1, Compared
  <2>3. Outcome = CASE ~readable -> "unverifiable"
                    [] readable /\ effect -> "effect"
                    [] OTHER -> "no_effect"
    BY <2>1 DEF Outcome, Verdict
  <2>4. /\ Outcome = "effect" => readable /\ effect
        /\ Outcome = "no_effect" => readable /\ ~effect
    <3> HIDE DEF readable, effect
    <3> QED BY <2>3
  <2>5. ASSUME Outcome = "effect"
        PROVE  xWas # xIs \/ (kind = "type" /\ xIs.length = 1)
    <3>1. CASE moved
      BY <2>2, <3>1
    <3>2. CASE ~moved /\ Changed(s, t, Telling(kind)) # {}
      BY <2>2, <3>2 DEF Changed
    <3> QED BY <2>2, <2>4, <2>5, <3>1, <3>2
  <2>6. ASSUME Outcome = "no_effect", xWas.url = xIs.url, NEW f \in Telling(kind)
        PROVE  xWas[f] = xIs[f] \/ (f = "length" /\ None \in {xWas.length, xIs.length})
    <3>1. ~moved /\ Changed(s, t, Telling(kind)) = {} /\ Required(kind) \subseteq Comparable(s, t)
      BY <2>2, <2>4, <2>6
    <3>2. CASE f \in Comparable(s, t)
      BY <2>2, <3>1, <3>2 DEF Changed
    <3>3. CASE f \notin Comparable(s, t)
      <4>1. f = "length" /\ s.read /\ t.read /\ None \in {s.length, t.length}
        BY <3>1, <3>3, AllTellingCompared
      <4> QED BY <2>1, <4>1 DEF Tells
    <3> QED BY <3>2, <3>3
  <2> QED BY <2>5, <2>6
<1>2. ExecutionInv => EffectWasMeasured
  BY <1>1 DEF EffectWasMeasured
<1> QED BY <1>2, ExecutionInvariance, PTL

-----------------------------------------------------------------------------
(* GoalVerdict: the addresses the rules look at were read from the tab, and *)
(* a reading that shows less satisfies no more.                            *)

Known == seen.urls \cup {{}}

\* every address the rules may look at was read from the tab in this run
FromTheTab ==
    /\ mem = [url |-> mem.url, base |-> mem.base, last |-> mem.last, type |-> mem.type,
              items |-> mem.items]
    /\ mem.url \in Known
    /\ goalAt = "judge" => Url(context, mem) \in Known
    /\ \A s \in steps : s.url \in Known

GoalInv == FromTheTab /\ SuccessWasRead

LEMMA Least ==
  ASSUME NEW T, T \subseteq Nat, T # {}
  PROVE  \E x \in T : \A y \in T : x <= y
<1>1. PICK x \in T : \A y \in T : ~(<<y, x>> \in OpToRel(<, Nat))
  BY NatLessThanWellFounded, WFMin, Zenon
<1>2. ASSUME NEW y \in T
      PROVE  x <= y
  <2>1. ~(<<y, x>> \in {ss \in Nat \X Nat : ss[1] < ss[2]})
    BY <1>1 DEF OpToRel
  <2> QED BY <2>1
<1> QED BY <1>2

LEMMA FirstOf ==
  ASSUME NEW S, S \subseteq 1 .. 12, NEW k \in S, \A j \in S : k <= j
  PROVE  Min(S) = k
<1>1. ASSUME NEW x \in S, \A j \in S : x <= j
      PROVE  x = k
  <2>1. x <= k /\ k <= x /\ x \in 1 .. 12 /\ k \in 1 .. 12
    BY <1>1
  <2> QED BY <2>1
<1>2. Min(S) = CHOOSE x \in S : \A y \in S : x <= y
  BY DEF Min
<1> QED BY <1>1, <1>2

LEMMA FirstIs ==
  ASSUME NEW S, S \subseteq 1 .. 12, S # {}
  PROVE  Min(S) \in S /\ \A j \in S : Min(S) <= j
<1>1. PICK k \in S : \A j \in S : k <= j
  <2>1. S \subseteq Nat
    OBVIOUS
  <2> QED BY <2>1, Least
<1> QED BY <1>1, FirstOf

LEMMA Rules ==
    /\ DOMAIN Order = 1 .. 12
    /\ Order[1] = "search" /\ Order[2] = "google" /\ Order[3] = "login"
    /\ Order[4] = "research" /\ Order[5] = "report" /\ Order[6] = "shopping"
    /\ Order[7] = "transactions" /\ Order[8] = "account number" /\ Order[9] = "scroll"
    /\ Order[10] = "details" /\ Order[11] = "picture" /\ Order[12] = "destination"
BY DEF Order

LEMMA DecidingIs ==
  ASSUME NEW g, NEW p, NEW c, NEW m
  PROVE  /\ Deciding(g, p, c, m) \subseteq 1 .. 12
         /\ 1 \in Deciding(g, p, c, m) <=> Applies("search", g, p, c, m)
         /\ 2 \in Deciding(g, p, c, m) <=> Applies("google", g, p, c, m)
         /\ 3 \in Deciding(g, p, c, m) <=> Applies("login", g, p, c, m)
         /\ 4 \in Deciding(g, p, c, m) <=> Applies("research", g, p, c, m)
         /\ 5 \in Deciding(g, p, c, m) <=> Applies("report", g, p, c, m)
         /\ 6 \in Deciding(g, p, c, m) <=> Applies("shopping", g, p, c, m)
         /\ 7 \in Deciding(g, p, c, m) <=> Applies("transactions", g, p, c, m)
         /\ 8 \in Deciding(g, p, c, m) <=> Applies("account number", g, p, c, m)
         /\ 9 \in Deciding(g, p, c, m) <=> Applies("scroll", g, p, c, m)
         /\ 10 \in Deciding(g, p, c, m) <=> Applies("details", g, p, c, m)
         /\ 11 \in Deciding(g, p, c, m) <=> Applies("picture", g, p, c, m)
         /\ 12 \in Deciding(g, p, c, m) <=> Applies("destination", g, p, c, m)
<1>1. /\ Deciding(g, p, c, m) \subseteq 1 .. 12
      /\ \A i \in 1 .. 12 : i \in Deciding(g, p, c, m) <=> Applies(Order[i], g, p, c, m)
  BY Rules DEF Deciding
<1>2. \A i \in {1, 2, 3, 4, 5, 6, 7, 8, 9, 10, 11, 12} :
         i \in Deciding(g, p, c, m) <=> Applies(Order[i], g, p, c, m)
  BY <1>1
<1> QED BY <1>1, <1>2, Rules, Zenon

\* Research asks for nothing but addresses; nor does the rule about a login.
LEMMA ResearchDecides ==
  ASSUME NEW g, NEW p, NEW c, NEW m, NEW past,
         g.research # {}, g.words = {}, Satisfied(g, p, c, m, past)
  PROVE  Researched(g, c, m, past)
<1>1. /\ 1 \notin Deciding(g, p, c, m) /\ 2 \notin Deciding(g, p, c, m)
      /\ 3 \notin Deciding(g, p, c, m) /\ 4 \in Deciding(g, p, c, m)
  <2>1. /\ ~Applies("search", g, p, c, m) /\ ~Applies("google", g, p, c, m)
        /\ ~Applies("login", g, p, c, m) /\ Applies("research", g, p, c, m)
    BY DEF Applies, says
  <2> QED BY <2>1, DecidingIs
<1>2. Min(Deciding(g, p, c, m)) = 4
  <2>1. Deciding(g, p, c, m) \subseteq 1 .. 12
    BY DecidingIs
  <2>2. \A j \in Deciding(g, p, c, m) : 4 <= j
    BY <1>1, <2>1
  <2> QED BY <1>1, <2>1, <2>2, FirstOf
<1>3. Holds("research", g, p, c, m, past)
  BY <1>2, Rules DEF Satisfied
<1> QED BY <1>3 DEF Holds

LEMMA LoginDecides ==
  ASSUME NEW g, NEW p, NEW c, NEW m, NEW past,
         g.words = {"login"}, Satisfied(g, p, c, m, past)
  PROVE  LoggedIn(c, m, past)
<1>1. /\ 1 \notin Deciding(g, p, c, m) /\ 2 \notin Deciding(g, p, c, m)
      /\ 3 \in Deciding(g, p, c, m)
  <2>1. /\ ~Applies("search", g, p, c, m) /\ ~Applies("google", g, p, c, m)
        /\ Applies("login", g, p, c, m)
    BY DEF Applies, says
  <2> QED BY <2>1, DecidingIs
<1>2. Min(Deciding(g, p, c, m)) = 3
  <2>1. Deciding(g, p, c, m) \subseteq 1 .. 12
    BY DecidingIs
  <2>2. \A j \in Deciding(g, p, c, m) : 3 <= j
    BY <1>1, <2>1
  <2> QED BY <1>1, <2>1, <2>2, FirstOf
<1>3. Holds("login", g, p, c, m, past)
  BY <1>2, Rules DEF Satisfied
<1> QED BY <1>3 DEF Holds

LEMMA GoalStart == GoalInit => GoalInv
BY DEF GoalInit, GoalInv, FromTheTab, Known, SuccessWasRead

LEMMA GoalStep == GoalInv /\ [GoalNext]_goalVars => GoalInv'
<1> SUFFICES ASSUME GoalInv, [GoalNext]_goalVars
             PROVE  GoalInv'
  OBVIOUS
<1> USE DEF GoalInv
<1>1. ASSUME NEW c \in Contexts, Perceive(c)
      PROVE  GoalInv'
  <2>1. seen'.urls = seen.urls \cup {c.url} /\ context' = c /\ mem' = Perceived(c, mem)
    BY <1>1 DEF Perceive
  <2>2. /\ mem'.url = Url(c, mem)
        /\ mem' = [url |-> mem'.url, base |-> mem'.base, last |-> mem'.last, type |-> mem'.type,
                   items |-> mem'.items]
    BY <2>1 DEF Perceived, FromTheTab
  <2>3. Url(c, mem) \in Known'
    BY <2>1 DEF Url, FromTheTab, Known
  <2>4. Url(context, mem)' \in Known'
    BY <2>1, <2>2, <2>3 DEF Url
  <2>5. FromTheTab'
    BY <1>1, <2>1, <2>2, <2>3, <2>4 DEF FromTheTab, Known, Perceive
  <2>6. SuccessWasRead'
    BY <1>1, <2>1 DEF Perceive, SuccessWasRead
  <2> QED BY <2>5, <2>6
<1>2. ASSUME NEW i \in DOMAIN plan, Advance(i)
      PROVE  GoalInv'
  BY <1>2 DEF Advance, FromTheTab, Known, SuccessWasRead, Url
<1>3. CASE Judge
  <2>1. /\ mem'.url = mem.url
        /\ mem' = [url |-> mem'.url, base |-> mem'.base, last |-> mem'.last, type |-> mem'.type,
                   items |-> mem'.items]
    BY <1>3 DEF Judge, FromTheTab
  <2>2. FromTheTab'
    BY <1>3, <2>1 DEF Judge, FromTheTab, Known, Url
  <2>3. ObservedUrls(context, mem, steps) \subseteq seen.urls
    BY <1>3 DEF Judge, FromTheTab, Known, ObservedUrls
  <2>4. ASSUME sat', goal.research # {}, goal.words = {}
        PROVE  \A item \in goal.research : \E u \in seen.urls : item \in u
    <3>1. Researched(goal, context, mem, steps)
      BY <1>3, <2>4, ResearchDecides DEF Judge
    <3> QED BY <2>3, <3>1 DEF Researched
  <2>5. ASSUME sat', goal.words = {"login"}
        PROVE  \E u \in seen.urls : "login" \in u
    <3>1. LoggedIn(context, mem, steps)
      BY <1>3, <2>5, LoginDecides DEF Judge
    <3> QED BY <3>1 DEF LoggedIn, FromTheTab, Known
  <2>6. SuccessWasRead'
    BY <1>3, <2>4, <2>5 DEF Judge, SuccessWasRead
  <2> QED BY <2>2, <2>6
<1>4. CASE JudgeFailed
  BY <1>4 DEF JudgeFailed, FromTheTab, Known, SuccessWasRead, Url
<1>5. ASSUME NEW asked \in Requests, Act(asked)
      PROVE  GoalInv'
  BY <1>5 DEF Act, FromTheTab, Known, SuccessWasRead, Url
<1>6. CASE UNCHANGED goalVars
  BY <1>6 DEF goalVars, FromTheTab, Known, SuccessWasRead, Url
<1> QED BY <1>1, <1>2, <1>3, <1>4, <1>5, <1>6 DEF GoalNext

LEMMA GoalInvariance == GoalSpec => []GoalInv
<1> QED BY GoalStart, GoalStep, PTL DEF GoalSpec

\* For every goal and every page: research or a login that is called done
\* rests on addresses that were read from the tab.
THEOREM DoneWasRead == GoalSpec => []SuccessWasRead
<1>1. GoalInv => SuccessWasRead
  BY DEF GoalInv
<1> QED BY <1>1, GoalInvariance, PTL

\* b shows nothing that c does not show
Lesser(b, c) ==
    /\ b.url = c.url
    /\ b.model = c.model \/ b.model = None
    /\ b.marks \subseteq c.marks /\ b.offers \subseteq c.offers
    /\ (b.facts = c.facts /\ (b.fresh => c.fresh)) \/ ~b.fresh
    /\ b.ocr => c.ocr
    /\ b.observable => c.observable /\ b.scroll = c.scroll
    /\ b.verified => c.verified

LEMMA BlankedIsLesser ==
  ASSUME NEW c, IsReading(c), NEW b \in Blanked(c)
  PROVE  Lesser(b, c)
<1> USE DEF IsReading, Lesser
<1>1. CASE b = [c EXCEPT !.model = None]
  BY <1>1
<1>2. CASE b = [c EXCEPT !.facts = <<>>, !.fresh = FALSE]
  BY <1>2
<1>3. CASE b = [c EXCEPT !.marks = {}]
  BY <1>3
<1>4. CASE b = [c EXCEPT !.offers = {}]
  BY <1>4
<1>5. CASE b = [c EXCEPT !.ocr = FALSE]
  BY <1>5
<1>6. CASE b = [c EXCEPT !.scroll = 0, !.observable = FALSE]
  BY <1>6
<1>7. CASE \E items : b = [c EXCEPT !.items = items]
  BY <1>7
<1>8. CASE b = [c EXCEPT !.verified = FALSE]
  BY <1>8
<1> QED BY <1>1, <1>2, <1>3, <1>4, <1>5, <1>6, <1>7, <1>8 DEF Blanked

LEMMA LesserProves ==
  ASSUME NEW b, NEW c, Lesser(b, c), NEW s, NEW before, s.cond # "STATE_CHANGED",
         SubgoalProven(s, b, before)
  PROVE  SubgoalProven(s, c, before)
<1>1. CASE s.cond = "DESTINATION_VERIFIED"
  <2>1. s.dest.kind = "DECLARED" /\ b.model # None /\ VerifyDestination(s.dest, b.model, b.url) = "MATCH"
    BY <1>1 DEF SubgoalProven
  <2>2. b.model = c.model /\ b.url = c.url
    BY <2>1 DEF Lesser
  <2> QED BY <1>1, <2>1, <2>2 DEF SubgoalProven
<1>2. CASE s.cond # "DESTINATION_VERIFIED"
  BY <1>2 DEF SubgoalProven, Lesser
<1> QED BY <1>1, <1>2

LEMMA LesserPictures ==
  ASSUME NEW b, NEW c, Lesser(b, c), NEW g, Pictured(g, b)
  PROVE  Pictured(g, c)
BY DEF Pictured, Lesser

LEMMA LesserShows ==
  ASSUME NEW b, NEW c, Lesser(b, c), NEW g, FactShown(g, b)
  PROVE  FactShown(g, c)
<1>1. b.fresh /\ b.facts = c.facts /\ c.fresh
  BY DEF FactShown, Lesser
<1>2. Evidence(b) = Evidence(c)
  BY <1>1 DEF Evidence
<1>3. Named(g, b) = Named(g, c)
  BY <1>2 DEF Named
<1>4. Reported(g, b) = Reported(g, c)
  BY <1>3 DEF Reported
<1> QED BY <1>1, <1>2, <1>3, <1>4 DEF FactShown

LEMMA PerceivedIs ==
  ASSUME NEW c, NEW m,
         m = [url |-> m.url, base |-> m.base, last |-> m.last, type |-> m.type, items |-> m.items]
  PROVE  /\ Perceived(c, m).url = Url(c, m)
         /\ Perceived(c, m).base = IF m.base = None THEN c.scroll ELSE m.base
         /\ Perceived(c, m).last = c.scroll
<1> DEFINE u == Url(c, m)
           t == PageType(c, m)
<1> HIDE DEF u, t
<1>1. Perceived(c, m) = [m EXCEPT !.url = u, !.base = IF @ = None THEN c.scroll ELSE @,
                                  !.last = c.scroll, !.type = t]
  BY DEF Perceived, u, t
<1>2. Perceived(c, m) = [url |-> u, base |-> IF m.base = None THEN c.scroll ELSE m.base,
                         last |-> c.scroll, type |-> t, items |-> m.items]
  BY <1>1
<1> QED BY <1>2 DEF u

\* the memory after a reading, seen by the rules
LEMMA LesserRemembers ==
  ASSUME NEW b, NEW c, Lesser(b, c), NEW m,
         m = [url |-> m.url, base |-> m.base, last |-> m.last, type |-> m.type, items |-> m.items]
  PROVE  /\ Url(b, Perceived(b, m)) = Url(c, Perceived(c, m))
         /\ b.scroll = c.scroll => /\ Perceived(b, m).base = Perceived(c, m).base
                                   /\ Perceived(b, m).last = Perceived(c, m).last
<1>1. /\ Perceived(b, m).url = Url(b, m)
      /\ Perceived(b, m).base = IF m.base = None THEN b.scroll ELSE m.base
      /\ Perceived(b, m).last = b.scroll
  BY PerceivedIs
<1>2. /\ Perceived(c, m).url = Url(c, m)
      /\ Perceived(c, m).base = IF m.base = None THEN c.scroll ELSE m.base
      /\ Perceived(c, m).last = c.scroll
  BY PerceivedIs
<1> QED BY <1>1, <1>2 DEF Url, Lesser

\* b with memory mb shows nothing that c with memory mc does not show
Poorer(b, mb, c, mc) ==
    /\ Lesser(b, c)
    /\ Url(b, mb) = Url(c, mc)
    /\ b.scroll = c.scroll => mb.base = mc.base /\ mb.last = mc.last

\* a rule that the first reading satisfies the second satisfies too, and one that
\* only the second calls upon it satisfies
Carries(rule, g, p, past, b, mb, c, mc) ==
    /\ Applies(rule, g, p, b, mb) /\ Holds(rule, g, p, b, mb, past)
          => Applies(rule, g, p, c, mc) /\ Holds(rule, g, p, c, mc, past)
    /\ Applies(rule, g, p, c, mc) /\ ~Applies(rule, g, p, b, mb)
          => Holds(rule, g, p, c, mc, past)

Unshopped == {"search", "google", "login", "research", "report", "transactions",
              "account number", "scroll", "details", "picture", "destination"}

LEMMA LesserRule ==
  ASSUME NEW g, NEW p, NEW past, NEW b, NEW c, NEW mb, NEW mc, Poorer(b, mb, c, mc),
         NEW rule \in Unshopped
  PROVE  Carries(rule, g, p, past, b, mb, c, mc)
<1> USE DEF Poorer, Carries
<1>1. CASE rule = "search"
  BY <1>1 DEF Applies, Holds
<1>2. CASE rule = "google"
  BY <1>2 DEF Applies, Holds
<1>3. CASE rule = "login"
  BY <1>3 DEF Applies, Holds, LoggedIn
<1>4. CASE rule = "research"
  BY <1>4 DEF Applies, Holds, Researched, ObservedUrls
<1>5. CASE rule = "report"
  BY <1>5, LesserShows DEF Applies, Holds
<1>6. CASE rule = "transactions"
  BY <1>6 DEF Applies, Holds, Lesser
<1>7. CASE rule = "account number"
  BY <1>7 DEF Applies, Holds
<1>8. CASE rule = "scroll"
  <2>1. Scrolled(g, b, mb) => Scrolled(g, c, mc)
    BY DEF Scrolled, Lesser
  <2> QED BY <1>8, <2>1 DEF Applies, Holds
<1>9. CASE rule = "details"
  BY <1>9 DEF Applies, Holds
<1>10. CASE rule = "picture"
  BY <1>10, LesserPictures DEF Applies, Holds, Pictured, Lesser
<1>11. CASE rule = "destination"
  <2>1. Arrived(p, b) => Arrived(p, c)
    <3>1. ASSUME NEW i \in Destinations(p), SubgoalProven(p[i], b, None)
          PROVE  SubgoalProven(p[i], c, None)
      BY <3>1, LesserProves DEF Destinations
    <3> QED BY <3>1 DEF Arrived
  <2> QED BY <1>11, <2>1 DEF Applies, Holds
<1> QED BY <1>1, <1>2, <1>3, <1>4, <1>5, <1>6, <1>7, <1>8, <1>9, <1>10, <1>11 DEF Unshopped

LEMMA LesserSatisfies ==
  ASSUME NEW g, NEW p, NEW past, NEW b, NEW c, Lesser(b, c), NEW m,
         m = [url |-> m.url, base |-> m.base, last |-> m.last, type |-> m.type, items |-> m.items],
         ~Shopping(g),
         Satisfied(g, p, b, Perceived(b, m), past)
  PROVE  Satisfied(g, p, c, Perceived(c, m), past)
<1> DEFINE mb == Perceived(b, m)
           mc == Perceived(c, m)
           B == Deciding(g, p, b, mb)
           C == Deciding(g, p, c, mc)
<1>1. Poorer(b, mb, c, mc)
  BY LesserRemembers DEF Poorer
<1> HIDE DEF mb, mc
<1>2. /\ B \subseteq 1 .. 12 /\ C \subseteq 1 .. 12
      /\ \A i \in 1 .. 12 : i \in B <=> Applies(Order[i], g, p, b, mb)
      /\ \A i \in 1 .. 12 : i \in C <=> Applies(Order[i], g, p, c, mc)
  BY Rules DEF Deciding
<1>3. 6 \notin B /\ 6 \notin C
  <2>1. ~Applies("shopping", g, p, b, mb) /\ ~Applies("shopping", g, p, c, mc)
    BY DEF Applies
  <2> HIDE DEF B, C
  <2> QED BY <2>1, DecidingIs DEF B, C
<1>4. ASSUME NEW i \in 1 .. 12, i # 6
      PROVE  /\ i \in B /\ Holds(Order[i], g, p, b, mb, past)
                => i \in C /\ Holds(Order[i], g, p, c, mc, past)
             /\ i \in C /\ i \notin B => Holds(Order[i], g, p, c, mc, past)
  <2>1. Order[i] \in Unshopped
    <3>1. i \in {1, 2, 3, 4, 5, 7, 8, 9, 10, 11, 12}
      BY <1>4
    <3> QED BY <3>1, Rules, Zenon DEF Unshopped
  <2>2. Carries(Order[i], g, p, past, b, mb, c, mc)
    BY <1>1, <2>1, LesserRule, Zenon
  <2>3. /\ i \in B <=> Applies(Order[i], g, p, b, mb)
        /\ i \in C <=> Applies(Order[i], g, p, c, mc)
    BY <1>2, <1>4
  <2> HIDE DEF B, C
  <2> QED BY <2>2, <2>3, Zenon DEF Carries
<1>5. /\ g.needsEvidence => b.verified
      /\ B # {} /\ Holds(Order[Min(B)], g, p, b, mb, past)
  BY DEF Satisfied, mb
<1>6. g.needsEvidence => c.verified
  BY <1>5 DEF Lesser
<1> HIDE DEF B, C
<1>7. Min(B) \in B /\ \A j \in B : Min(B) <= j
  BY <1>2, <1>5, FirstIs
<1>8. Min(B) \in C /\ Holds(Order[Min(B)], g, p, c, mc, past)
  BY <1>2, <1>3, <1>4, <1>5, <1>7
<1>9. Min(C) \in C /\ Min(C) <= Min(B)
  BY <1>2, <1>8, FirstIs
<1>10. Min(C) = Min(B) \/ Min(C) \notin B
  BY <1>2, <1>7, <1>9
<1>11. Holds(Order[Min(C)], g, p, c, mc, past)
  BY <1>2, <1>3, <1>4, <1>8, <1>9, <1>10
<1> QED BY <1>6, <1>8, <1>11 DEF Satisfied, C, mc

\* Of every reading, whatever perception leaves out of it: no task that it does
\* not show done is called done, and no subgoal proven.
THEOREM NothingFromAbsence == GoalSpec => AbsenceProvesNothing
<1>1. ASSUME GoalInv, [GoalNext]_goalVars, looks' # looks, NEW b \in Blanked(context')
      PROVE  /\ ~Shopping(goal) =>
                   (Satisfied(goal, plan, b, Perceived(b, mem), steps)
                    => Satisfied(goal, plan, context', mem', steps))
             /\ \A i \in DOMAIN plan : plan[i].cond # "STATE_CHANGED" =>
                   (SubgoalProven(plan[i], b, context)
                    => SubgoalProven(plan[i], context', context))
  <2>1. PICK c \in Contexts : Perceive(c)
    BY <1>1 DEF GoalNext, goalVars, Advance, Judge, JudgeFailed, Act
  <2>2. context' = c /\ mem' = Perceived(c, mem)
    BY <2>1 DEF Perceive
  <2>3. Lesser(b, c)
    BY <1>1, <2>2, ReadingsAssumption, BlankedIsLesser
  <2>4. ASSUME ~Shopping(goal),
               Satisfied(goal, plan, b, Perceived(b, mem), steps)
        PROVE  Satisfied(goal, plan, context', mem', steps)
    BY <1>1, <2>2, <2>3, <2>4, LesserSatisfies DEF GoalInv, FromTheTab
  <2>5. ASSUME NEW i \in DOMAIN plan, plan[i].cond # "STATE_CHANGED",
               SubgoalProven(plan[i], b, context)
        PROVE  SubgoalProven(plan[i], context', context)
    BY <2>2, <2>3, <2>5, LesserProves
  <2> QED BY <2>4, <2>5
<1>2. GoalInv /\ [GoalNext]_goalVars =>
        [looks' # looks => \A b \in Blanked(context') :
         /\ ~Shopping(goal) =>
               (Satisfied(goal, plan, b, Perceived(b, mem), steps)
                => Satisfied(goal, plan, context', mem', steps))
         /\ \A i \in DOMAIN plan : plan[i].cond # "STATE_CHANGED" =>
               (SubgoalProven(plan[i], b, context)
                => SubgoalProven(plan[i], context', context))]_goalVars
  BY <1>1
<1> QED BY <1>2, GoalInvariance, PTL DEF GoalSpec, AbsenceProvesNothing

-----------------------------------------------------------------------------
(* ReasoningTurn: every reply is candid about what asking again would      *)
(* change, and a client timer bounds what is left of a silence.            *)

\* what the same question does not change
Hopeless == {"bad_request", "auth", "not_configured", "unusable", "unknown_proposal_kind",
             "inapplicable", "policy", "bad_proposal", "unreadable", "rate_limit_without_hint"}

\* a reply the client may read: its hint is a time, and if the cause is
\* hopeless and it is no answer, the client does not take it for retryable
Candid(r) ==
    /\ r = [status |-> r.status, kind |-> r.kind, retryable |-> r.retryable, hint |-> r.hint,
            why |-> r.why]
    /\ r.hint \in Nat \cup {None}
    /\ r.status # 200 /\ r.why \in Hopeless => ~ParseError(r).retryable

\* the work of the server carries a hint a provider may send
Hinted(w) ==
    /\ w = [provider |-> w.provider, tries |-> w.tries, format |-> w.format, phase |-> w.phase,
            left |-> w.left, first |-> w.first, hint |-> w.hint]
    /\ w.hint \in Nat \cup {None}

Served ==
    /\ server # None => server = [req |-> server.req, work |-> server.work] /\ Hinted(server.work)
    /\ pc = "READING" => Candid(reply)
    /\ pc = "BACKOFF" => cause \notin Hopeless

\* what is left of a client timer, and how long the run has been silent
Timed ==
    /\ left \in Nat /\ silence \in Nat
    /\ silence <= AttemptTime + MaxHonoured
    /\ pc = "PLANNING" => silence = 0
    /\ pc \in {"WAITING", "READING"} => silence + left <= AttemptTime
    /\ pc = "BACKOFF" => silence + left <= AttemptTime + MaxHonoured

TurnInv == Served /\ Timed

LEMMA HintsClamped ==
  ASSUME NEW hint \in Nat \cup {None}
  PROVE  /\ ParseRetryAfter(hint) \in 0 .. MaxHonoured \cup {None}
         /\ ParseRetryAfter(hint) = None <=> hint = None
BY ReasoningAssumption, AbsentAssumption DEF ParseRetryAfter

\* When the client may try again after reply r: the category's own rule, or
\* what the route said of it.
LEMMA RetryableIs ==
  ASSUME NEW r
  PROVE  /\ ErrorKind(r) = "rate_limit" /\ ParseRetryAfter(r.hint) = None
              => ~ParseError(r).retryable
         /\ ErrorKind(r) # "rate_limit" /\ (r.kind # None \/ ~(r.status >= 500)) /\ r.retryable = FALSE
              => ~ParseError(r).retryable
<1> DEFINE hint == ParseRetryAfter(r.hint)
           retryable == CASE ErrorKind(r) = "rate_limit" -> hint # None
                          [] ErrorKind(r) # "rate_limit" /\ r.kind = None /\ r.status >= 500 -> TRUE
                          [] OTHER -> r.retryable
<1>1. ParseError(r).retryable = retryable
  BY DEF ParseError, ProviderError
<1>2. ErrorKind(r) = "rate_limit" /\ hint = None => ~retryable
  <2> HIDE DEF hint
  <2> QED OBVIOUS
<1>3. ErrorKind(r) # "rate_limit" /\ (r.kind # None \/ ~(r.status >= 500)) /\ r.retryable = FALSE
        => ~retryable
  <2> HIDE DEF hint
  <2> QED OBVIOUS
<1> QED BY <1>1, <1>2, <1>3

LEMMA JudgementCandid ==
  ASSUME NEW judgement \in Judgements
  PROVE  Candid(JudgementReply(judgement))
<1> DEFINE r == JudgementReply(judgement)
<1>1. CASE judgement \in {"action", "proposal"}
  <2>1. r = [status |-> 200, kind |-> None, retryable |-> FALSE, hint |-> None, why |-> judgement]
    BY <1>1 DEF JudgementReply, Answer
  <2> QED BY <2>1 DEF Candid
<1>2. CASE judgement = "inapplicable"
  <2>1. r = [status |-> 502, kind |-> "model_contract", retryable |-> FALSE, hint |-> None,
             why |-> judgement]
    BY <1>2 DEF JudgementReply, Answer
  <2>2. ErrorKind(r) = "model_contract"
    BY <2>1 DEF ErrorKind
  <2>3. r.kind # None
    BY <2>1, NamesAssumption DEF ErrorNames
  <2>4. r.retryable = FALSE /\ r.status = 502 /\ r.hint = None
    BY <2>1
  <2> HIDE DEF r
  <2>5. ErrorKind(r) # "rate_limit"
    BY <2>2
  <2>6. ~ParseError(r).retryable
    BY <2>3, <2>4, <2>5, RetryableIs, Zenon
  <2> QED BY <2>1, <2>4, <2>6 DEF Candid, r
<1>3. CASE judgement \in {"bad_proposal", "policy"}
  <2>1. r = [status |-> 502, kind |-> "invalid_action", retryable |-> FALSE, hint |-> None,
             why |-> judgement]
    BY <1>3 DEF JudgementReply, Answer
  <2>2. ErrorKind(r) = "http_error"
    BY <2>1 DEF ErrorKind
  <2>3. r.kind # None
    BY <2>1, NamesAssumption DEF ErrorNames
  <2>4. r.retryable = FALSE /\ r.status = 502 /\ r.hint = None
    BY <2>1
  <2> HIDE DEF r
  <2>5. ErrorKind(r) # "rate_limit"
    BY <2>2
  <2>6. ~ParseError(r).retryable
    BY <2>3, <2>4, <2>5, RetryableIs, Zenon
  <2> QED BY <2>1, <2>4, <2>6 DEF Candid, r
<1>4. CASE judgement \in {"malformed", "unknown_target", "crash"}
  <2>1. r.why = judgement /\ r.hint = None
        /\ r = [status |-> r.status, kind |-> r.kind, retryable |-> r.retryable, hint |-> r.hint,
                why |-> r.why]
    BY <1>4 DEF JudgementReply, Answer
  <2> QED BY <1>4, <2>1 DEF Candid, Hopeless
<1> QED BY <1>1, <1>2, <1>3, <1>4 DEF Judgements

LEMMA BadRequestCandid == Candid(BadRequestReply)
<1> DEFINE r == BadRequestReply
<1>1. r = [status |-> 422, kind |-> None, retryable |-> FALSE, hint |-> None, why |-> "bad_request"]
  BY DEF BadRequestReply, Answer
<1>2. ErrorKind(r) = "http_error"
  BY <1>1, NamesAssumption DEF ErrorKind, ErrorNames, ReasonerFailures
<1>3. r.retryable = FALSE /\ ~(r.status >= 500) /\ r.hint = None
  BY <1>1
<1> HIDE DEF r
<1>4. ErrorKind(r) # "rate_limit"
  BY <1>2
<1>5. ~ParseError(r).retryable
  BY <1>3, <1>4, RetryableIs, Zenon
<1> QED BY <1>1, <1>5 DEF Candid, r

LEMMA FailureCandid ==
  ASSUME NEW failure \in ReasonerFailures, NEW hint \in Nat \cup {None}
  PROVE  Candid(FailureReply(failure, hint))
<1> DEFINE r == FailureReply(failure, hint)
           limited == failure = "rate_limit" /\ hint # None
<1>1. /\ r.kind = IF failure = "unusable" THEN "model_contract" ELSE failure
      /\ r.retryable = limited
      /\ r.hint = IF failure = "rate_limit" THEN hint ELSE None
      /\ r.why = IF failure = "rate_limit" /\ ~limited THEN "rate_limit_without_hint" ELSE failure
      /\ r = [status |-> r.status, kind |-> r.kind, retryable |-> r.retryable, hint |-> r.hint,
              why |-> r.why]
  BY DEF FailureReply, Answer
<1> HIDE DEF r
<1>2. r.kind \in ErrorNames /\ r.kind # None
  BY <1>1, NamesAssumption DEF ErrorNames
<1>3. CASE failure = "rate_limit" /\ hint # None
  BY <1>1, <1>3 DEF Candid, Hopeless, r
<1>4. CASE failure = "rate_limit" /\ hint = None
  <2>1. ErrorKind(r) = "rate_limit" /\ ParseRetryAfter(r.hint) = None
    BY <1>1, <1>4 DEF ErrorKind, ParseRetryAfter
  <2> QED BY <1>1, <1>4, <2>1, RetryableIs DEF Candid, r
<1>5. CASE failure # "rate_limit"
  <2>1. ErrorKind(r) # "rate_limit" /\ r.retryable = FALSE
    BY <1>1, <1>5 DEF ErrorKind
  <2>2. ~ParseError(r).retryable
    BY <1>2, <2>1, RetryableIs, Zenon
  <2> QED BY <1>1, <1>5, <2>2 DEF Candid, r
<1> QED BY <1>3, <1>4, <1>5

\* After both providers failed the first one's limit is reported, if it said
\* how long; what the second said is not to be tried again.
LEMMA FallbackCandid ==
  ASSUME NEW first, NEW hint \in Nat \cup {None}, NEW second \in ReasonerFailures
  PROVE  Candid(FallbackFailureReply(first, hint, second))
<1> DEFINE r == FallbackFailureReply(first, hint, second)
           limited == first = "rate_limit" /\ hint # None
<1>1. /\ r.kind = IF limited THEN "rate_limit" ELSE second
      /\ r.retryable = limited
      /\ r.hint = IF first = "rate_limit" THEN hint ELSE None
      /\ r.why = IF limited THEN "rate_limit" ELSE second
      /\ r = [status |-> r.status, kind |-> r.kind, retryable |-> r.retryable, hint |-> r.hint,
              why |-> r.why]
  BY DEF FallbackFailureReply, Answer
<1> HIDE DEF r
<1>2. r.kind # None
  BY <1>1, NamesAssumption DEF ErrorNames, ReasonerFailures
<1>3. CASE limited
  BY <1>1, <1>3 DEF Candid, Hopeless, r
<1>4. CASE ~limited
  <2>1. r.hint = None /\ r.retryable = FALSE
    BY <1>1, <1>4
  <2>2. ParseRetryAfter(r.hint) = None
    BY <2>1 DEF ParseRetryAfter
  <2>3. ~ParseError(r).retryable
    BY <1>2, <2>1, <2>2, RetryableIs, Zenon
  <2> QED BY <1>1, <2>1, <2>3 DEF Candid, r
<1> QED BY <1>3, <1>4

LEMMA HintedField ==
  ASSUME NEW w, Hinted(w), NEW x
  PROVE  /\ Hinted([w EXCEPT !.tries = x]) /\ Hinted([w EXCEPT !.format = x])
         /\ Hinted([w EXCEPT !.phase = x]) /\ Hinted([w EXCEPT !.left = x])
<1>1. w = [provider |-> w.provider, tries |-> w.tries, format |-> w.format, phase |-> w.phase,
           left |-> w.left, first |-> w.first, hint |-> w.hint]
  BY DEF Hinted
<1>2. [w EXCEPT !.tries = x]
        = [provider |-> w.provider, tries |-> x, format |-> w.format, phase |-> w.phase,
           left |-> w.left, first |-> w.first, hint |-> w.hint]
  BY <1>1
<1>3. [w EXCEPT !.format = x]
        = [provider |-> w.provider, tries |-> w.tries, format |-> x, phase |-> w.phase,
           left |-> w.left, first |-> w.first, hint |-> w.hint]
  BY <1>1
<1>4. [w EXCEPT !.phase = x]
        = [provider |-> w.provider, tries |-> w.tries, format |-> w.format, phase |-> x,
           left |-> w.left, first |-> w.first, hint |-> w.hint]
  BY <1>1
<1>5. [w EXCEPT !.left = x]
        = [provider |-> w.provider, tries |-> w.tries, format |-> w.format, phase |-> w.phase,
           left |-> x, first |-> w.first, hint |-> w.hint]
  BY <1>1
<1>6. \A v : v.hint = w.hint /\ v = [provider |-> v.provider, tries |-> v.tries,
              format |-> v.format, phase |-> v.phase, left |-> v.left, first |-> v.first,
              hint |-> v.hint] => Hinted(v)
  BY DEF Hinted
<1> QED BY <1>2, <1>3, <1>4, <1>5, <1>6

LEMMA HintedStays ==
  ASSUME NEW w, Hinted(w), NEW f, NEW l, NEW n, NEW p
  PROVE  /\ Hinted([w EXCEPT !.format = f, !.left = l])
         /\ Hinted([w EXCEPT !.tries = n, !.format = f])
         /\ Hinted([w EXCEPT !.phase = p, !.left = l])
         /\ Hinted([w EXCEPT !.left = l])
<1>1. /\ Hinted([w EXCEPT !.format = f]) /\ Hinted([w EXCEPT !.tries = n])
      /\ Hinted([w EXCEPT !.phase = p])
  BY HintedField
<1> QED BY <1>1, HintedField, Zenon

LEMMA TurnStart == Init => TurnInv
BY ReasoningAssumption DEF Init, TurnInv, Served, Timed

(***************************************************************************)
(* The backend's steps.                                                    *)

LEMMA SendKeeps ==
  ASSUME TurnInv, NEW r, Candid(r), Send(r)
  PROVE  TurnInv'
<1>1. server' = None /\ UNCHANGED <<left, silence, cause>>
      /\ (UNCHANGED <<pc, reply>> \/ (pc = "WAITING" /\ pc' = "READING" /\ reply' = r))
  BY DEF Send, client, clock
<1>2. Served'
  BY <1>1 DEF TurnInv, Served
<1>3. Timed'
  BY <1>1 DEF TurnInv, Timed
<1> QED BY <1>2, <1>3 DEF TurnInv

LEMMA WorkKeeps ==
  ASSUME TurnInv, server # None, NEW w, Hinted(w), Work(w)
  PROVE  TurnInv'
<1>1. server' = [req |-> server.req, work |-> w] /\ UNCHANGED <<left, silence, cause, pc, reply>>
  BY DEF Work, client, clock, TurnInv, Served
<1>2. Served'
  BY <1>1 DEF TurnInv, Served
<1>3. Timed'
  BY <1>1 DEF TurnInv, Timed
<1> QED BY <1>2, <1>3 DEF TurnInv

LEMMA ReasonerFailsKeeps ==
  ASSUME TurnInv, server # None, NEW failure \in ReasonerFailures, NEW hint \in Nat \cup {None},
         ReasonerFails(failure, hint)
  PROVE  TurnInv'
<1> DEFINE w == server.work
<1>1. Hinted(w)
  BY DEF TurnInv, Served
<1>2. CASE w.provider = "PRIMARY" /\ HasFallback /\ failure \in MayFallBack
  <2>1. Work(Serving("FALLBACK", failure, hint))
    BY <1>2 DEF ReasonerFails
  <2>2. Hinted(Serving("FALLBACK", failure, hint))
    BY DEF Hinted, Serving
  <2> QED BY <2>1, <2>2, WorkKeeps
<1>3. CASE ~(w.provider = "PRIMARY" /\ HasFallback /\ failure \in MayFallBack)
  <2>1. Send(FailureReply(failure, hint)) \/ Send(FallbackFailureReply(w.first, w.hint, failure))
    BY <1>3 DEF ReasonerFails
  <2>2. Candid(FailureReply(failure, hint)) /\ Candid(FallbackFailureReply(w.first, w.hint, failure))
    BY <1>1, FailureCandid, FallbackCandid DEF Hinted
  <2> QED BY <2>1, <2>2, SendKeeps
<1> QED BY <1>2, <1>3

LEMMA BackendKeeps ==
  ASSUME TurnInv,
         \/ ServerTakes \/ RequestRefused \/ ModelAnswers \/ PostFails \/ FormatRefused
         \/ PostTimesOut \/ RateLimited \/ SleepEnds
  PROVE  TurnInv'
<1>1. CASE ServerTakes
  <2>1. Hinted(Serving("PRIMARY", None, None))
    BY DEF Hinted, Serving
  <2>2. /\ server' = [req |-> Head(queue), work |-> Serving("PRIMARY", None, None)]
        /\ UNCHANGED <<left, silence, cause, pc, reply>>
    BY <1>1 DEF ServerTakes, client, clock
  <2> HIDE DEF Serving
  <2>3. Served' /\ Timed'
    BY <2>1, <2>2 DEF TurnInv, Served, Timed
  <2> QED BY <2>3 DEF TurnInv
<1>2. CASE RequestRefused
  BY <1>2, BadRequestCandid, SendKeeps DEF RequestRefused
<1>3. CASE ModelAnswers
  <2>1. PICK judgement \in Judgements : Send(JudgementReply(judgement))
    BY <1>3 DEF ModelAnswers
  <2> QED BY <2>1, JudgementCandid, SendKeeps
<1>4. CASE PostFails
  <2>1. PICK failure \in ReasonerFailures : \/ ReasonerFails("http_client_error", None)
                                            \/ ReasonerFails(failure, None)
    BY <1>4 DEF PostFails
  <2>2. "http_client_error" \in ReasonerFailures /\ server # None
    BY <1>4 DEF PostFails, Posting, ReasonerFailures
  <2> QED BY <2>1, <2>2, ReasonerFailsKeeps
<1>5. CASE FormatRefused
  <2>1. /\ server # None /\ Hinted(server.work)
        /\ Work([server.work EXCEPT !.format = @ + 1, !.left = PostTime])
    BY <1>5 DEF FormatRefused, Posting, TurnInv, Served
  <2>2. Hinted([server.work EXCEPT !.format = @ + 1, !.left = PostTime])
    BY <2>1, HintedStays
  <2> QED BY <2>1, <2>2, WorkKeeps
<1>6. CASE PostTimesOut
  <2>1. /\ server # None
        /\ ReasonerFails("http_client_error", None) \/ ReasonerFails("timeout", None)
    BY <1>6 DEF PostTimesOut, Posting
  <2>2. "http_client_error" \in ReasonerFailures /\ "timeout" \in ReasonerFailures
    BY DEF ReasonerFailures
  <2> QED BY <2>1, <2>2, ReasonerFailsKeeps
<1>7. CASE RateLimited
  <2> DEFINE w == server.work
             again == [w EXCEPT !.tries = @ + 1, !.format = 0]
  <2>1. /\ server # None /\ Hinted(w)
        /\ \/ Work([again EXCEPT !.phase = "SLEEPING", !.left = SleepTime])
           \/ Work([again EXCEPT !.left = PostTime])
           \/ \E hint \in Hints \cup {None} : ReasonerFails("rate_limit", hint)
    BY <1>7 DEF RateLimited, Posting, TurnInv, Served
  <2>2. /\ Hinted([again EXCEPT !.phase = "SLEEPING", !.left = SleepTime])
        /\ Hinted([again EXCEPT !.left = PostTime])
    BY <2>1, HintedStays
  <2>3. "rate_limit" \in ReasonerFailures /\ \A hint \in Hints : hint \in Nat
    BY ReasoningAssumption DEF ReasonerFailures
  <2> HIDE DEF again
  <2> QED BY <2>1, <2>2, <2>3, WorkKeeps, ReasonerFailsKeeps
<1>8. CASE SleepEnds
  <2>1. /\ server # None /\ Hinted(server.work)
        /\ Work([server.work EXCEPT !.phase = "POSTING", !.left = PostTime])
    BY <1>8 DEF SleepEnds, TurnInv, Served
  <2>2. Hinted([server.work EXCEPT !.phase = "POSTING", !.left = PostTime])
    BY <2>1, HintedStays
  <2> QED BY <2>1, <2>2, WorkKeeps
<1> QED BY <1>1, <1>2, <1>3, <1>4, <1>5, <1>6, <1>7, <1>8

(***************************************************************************)
(* The client's steps.                                                     *)

LEMMA FailKeeps ==
  ASSUME TurnInv, pc \in {"WAITING", "READING"}, UNCHANGED server \/ server' = server,
         NEW e, NEW why, Fail(e, why), e.hint \in 0 .. MaxHonoured \cup {None},
         e.retryable => why \notin Hopeless
  PROVE  TurnInv'
<1>1. CASE e.retryable /\ attempt < RetryBudget(e)
  <2>1. /\ pc' = "BACKOFF" /\ cause' = why /\ silence' = silence /\ reply' = None
        /\ left' = IF e.hint = None THEN 0 ELSE e.hint
    BY <1>1 DEF Fail
  <2>2. left' \in 0 .. MaxHonoured
    BY <2>1, ReasoningAssumption
  <2>3. Timed'
    BY <2>1, <2>2, ReasoningAssumption DEF TurnInv, Timed
  <2>4. Served'
    BY <1>1, <2>1 DEF TurnInv, Served
  <2> QED BY <2>3, <2>4 DEF TurnInv
<1>2. CASE ~(e.retryable /\ attempt < RetryBudget(e))
  <2>1. pc' = "RETURNED" /\ UNCHANGED <<left, silence>>
    BY <1>2 DEF Fail, Return, clock
  <2> QED BY <2>1 DEF TurnInv, Served, Timed
<1> QED BY <1>1, <1>2

LEMMA BodyKeeps ==
  ASSUME TurnInv, BodyArrives \/ BodyGarbled
  PROVE  TurnInv'
<1>1. pc = "READING" /\ Candid(reply) /\ UNCHANGED server
  BY DEF BodyArrives, BodyGarbled, TurnInv, Served, backend
<1>2. CASE BodyArrives /\ reply.status # 200
  <2>1. Fail(ParseError(reply), reply.why)
    BY <1>2 DEF BodyArrives
  <2>2. ParseError(reply).hint = ParseRetryAfter(reply.hint)
    BY DEF ParseError, ProviderError
  <2>3. ParseError(reply).hint \in 0 .. MaxHonoured \cup {None}
    BY <1>1, <2>2, HintsClamped DEF Candid
  <2> QED BY <1>1, <1>2, <2>1, <2>3, FailKeeps DEF Candid
<1>3. CASE BodyArrives /\ reply.status = 200
  <2>1. pc' = "RETURNED" /\ UNCHANGED <<left, silence>>
    BY <1>3 DEF BodyArrives, Return, clock
  <2> QED BY <1>1, <2>1 DEF TurnInv, Served, Timed
<1>4. CASE BodyGarbled /\ reply.status = 200
  <2> DEFINE e == ProviderError("invalid_json", 200, FALSE, None)
  <2>1. Fail(e, "unreadable")
    BY <1>4 DEF BodyGarbled
  <2>2. e.hint = None /\ e.retryable = FALSE
    BY DEF ProviderError
  <2> HIDE DEF e
  <2> QED BY <1>1, <2>1, <2>2, FailKeeps
<1>5. CASE BodyGarbled /\ reply.status # 200
  <2> DEFINE r == [reply EXCEPT !.kind = None, !.retryable = FALSE]
  <2>1. Fail(ParseError(r), "garbled")
    BY <1>5 DEF BodyGarbled
  <2>2. ParseError(r).hint = ParseRetryAfter(reply.hint)
    BY <1>1 DEF ParseError, ProviderError, Candid
  <2>3. ParseError(r).hint \in 0 .. MaxHonoured \cup {None}
    BY <1>1, <2>2, HintsClamped DEF Candid
  <2> HIDE DEF r
  <2> QED BY <1>1, <2>1, <2>3, FailKeeps DEF Hopeless
<1> QED BY <1>2, <1>3, <1>4, <1>5

LEMMA TurnStep == TurnInv /\ [Next]_vars => TurnInv'
<1> SUFFICES ASSUME TurnInv, [Next]_vars
             PROVE  TurnInv'
  OBVIOUS
<1>1. CASE StartTurn
  <2>1. /\ pc' = "WAITING" /\ left' = AttemptTime /\ pc = "PLANNING"
        /\ UNCHANGED <<silence, server, cause>>
    BY <1>1 DEF StartTurn, Ask, call
  <2> QED BY <2>1, ReasoningAssumption DEF TurnInv, Served, Timed
<1>2. CASE BodyArrives \/ BodyGarbled
  BY <1>2, BodyKeeps
<1>3. CASE RaceTimesOut \/ NetworkFails
  <2>1. PICK kind \in {"timeout", "network"}, why \in {"timed_out", "unreachable"} :
          Fail(ProviderError(kind, 0, TRUE, None), why)
    BY <1>3 DEF RaceTimesOut, NetworkFails
  <2>2. ProviderError(kind, 0, TRUE, None).hint = None
    BY DEF ProviderError
  <2>3. pc \in {"WAITING", "READING"} /\ UNCHANGED server
    BY <1>3 DEF RaceTimesOut, NetworkFails, backend
  <2> QED BY <2>1, <2>2, <2>3, FailKeeps DEF Hopeless
<1>4. CASE BackoffEnds
  <2>1. CASE owned
    <3>1. pc' = "WAITING" /\ left' = AttemptTime /\ silence' = 0 /\ UNCHANGED server
      BY <1>4, <2>1 DEF BackoffEnds, Ask
    <3> QED BY <3>1, ReasoningAssumption DEF TurnInv, Served, Timed
  <2>2. CASE ~owned
    <3>1. pc' = "RETURNED" /\ UNCHANGED <<left, silence, server>>
      BY <1>4, <2>2 DEF BackoffEnds, Return, clock
    <3> QED BY <3>1 DEF TurnInv, Served, Timed
  <2> QED BY <2>1, <2>2
<1>5. CASE Cancel
  BY <1>5 DEF Cancel, clock, call, backend, TurnInv, Served, Timed
<1>6. CASE FinishCycle
  <2>1. pc' \in {"PLANNING", "OVER"} /\ left' = 0 /\ silence' = 0 /\ UNCHANGED server
    BY <1>6 DEF FinishCycle, backend
  <2> QED BY <2>1, ReasoningAssumption DEF TurnInv, Served, Timed
<1>7. CASE StopBeforeAsking
  <2>1. pc' = "OVER" /\ UNCHANGED <<left, silence, server>>
    BY <1>7 DEF StopBeforeAsking, clock, backend
  <2> QED BY <2>1 DEF TurnInv, Served, Timed
<1>8. CASE \/ ServerTakes \/ RequestRefused \/ ModelAnswers \/ PostFails \/ FormatRefused
           \/ PostTimesOut \/ RateLimited \/ SleepEnds
  BY <1>8, BackendKeeps
<1>9. CASE Tick
  <2>1. /\ left' = (IF Running THEN left - 1 ELSE left) /\ (Running => left > 0)
        /\ silence' = (IF Running THEN silence + 1 ELSE silence)
        /\ server' = (IF server = None THEN None ELSE [server EXCEPT !.work.left = @ - 1])
        /\ UNCHANGED <<pc, reply, cause>>
    BY <1>9 DEF Tick, call
  <2>2. server # None => server' = [req |-> server.req, work |-> [server.work EXCEPT !.left = @ - 1]]
    BY <2>1 DEF TurnInv, Served
  <2>3. server # None => Hinted([server.work EXCEPT !.left = @ - 1])
    BY DEF TurnInv, Served, Hinted
  <2>4. Served'
    BY <2>1, <2>2, <2>3 DEF TurnInv, Served
  <2>5. Timed'
    BY <2>1, ReasoningAssumption DEF TurnInv, Timed, Running
  <2> QED BY <2>4, <2>5 DEF TurnInv
<1>10. CASE UNCHANGED vars
  BY <1>10 DEF vars, clock, call, backend, TurnInv, Served, Timed
<1> QED BY <1>1, <1>2, <1>3, <1>4, <1>5, <1>6, <1>7, <1>8, <1>9, <1>10 DEF Next

LEMMA TurnInvariance == Spec => []TurnInv
<1> QED BY TurnStart, TurnStep, PTL DEF Spec

\* Whatever the providers answer and however their replies are cut short: the
\* client never asks again what the same question cannot change.
THEOREM HopelessNotRetried == Spec => []RetryOnlyWhatMayChange
<1>1. TurnInv => RetryOnlyWhatMayChange
  BY DEF TurnInv, Served, Hopeless, RetryOnlyWhatMayChange
<1> QED BY <1>1, TurnInvariance, PTL

\* For every duration the providers ask for: the run is never silent for longer
\* than one attempt and the longest delay it honours.
THEOREM SilenceEnds == Spec => []SilenceBounded
<1>1. TurnInv => SilenceBounded
  BY DEF TurnInv, Timed, SilenceBounded
<1> QED BY <1>1, TurnInvariance, PTL

\* What a turn may still take (TurnSettles): the running timer, and for every
\* attempt that no budget forbids the longest delay before it and its own race.
Again == IF attempt = 0 THEN 2 * (AttemptTime + MaxHonoured)
         ELSE IF attempt = 1 THEN AttemptTime + MaxHonoured ELSE 0
TurnLeft == left + Again + IF pc = "BACKOFF" THEN AttemptTime ELSE 0

Tried == attempt \in 0 .. 2 /\ (pc = "BACKOFF" => attempt # 0)

TurnShortens ==
    Running /\ Running' => TurnLeft' <= TurnLeft /\ (Tick => TurnLeft' = TurnLeft - 1)

\* An attempt that fails ends the turn, or is followed by one that was paid for.
LEMMA FailShortens ==
  ASSUME TurnInv, Tried, pc \in {"WAITING", "READING"}, NEW e, NEW why, Fail(e, why),
         e.hint \in 0 .. MaxHonoured \cup {None}
  PROVE  Tried' /\ (Running' => TurnLeft' <= TurnLeft) /\ pc' \notin {"WAITING", "READING"}
<1>1. CASE e.retryable /\ attempt < RetryBudget(e)
  <2>1. pc' = "BACKOFF" /\ attempt' = attempt + 1 /\ left' = IF e.hint = None THEN 0 ELSE e.hint
    BY <1>1 DEF Fail
  <2>2. left' \in 0 .. MaxHonoured
    BY <2>1, ReasoningAssumption
  <2>3. attempt \in 0 .. 1
    BY <1>1, ReasoningAssumption DEF Tried, RetryBudget, TransientBudget, DeterministicBudget
  <2>4. left \in Nat /\ AttemptTime \in Nat /\ MaxHonoured \in Nat
    BY ReasoningAssumption DEF TurnInv, Timed
  <2>5. TurnLeft' <= TurnLeft
    <3>1. TurnLeft = left + Again /\ TurnLeft' = left' + Again' + AttemptTime
      BY <2>1, <2>2, <2>3, <2>4 DEF TurnLeft, Again
    <3>2. Again = Again' + AttemptTime + MaxHonoured /\ Again' \in Nat
      BY <2>1, <2>3, <2>4 DEF Again
    <3>3. ASSUME NEW a \in Nat, NEW l \in Nat, NEW b \in 0 .. MaxHonoured
          PROVE  b + a + AttemptTime <= l + (a + AttemptTime + MaxHonoured)
      BY <2>4
    <3>4. left' + Again' + AttemptTime <= left + Again
      BY <2>2, <2>4, <3>2, <3>3
    <3> QED BY <3>1, <3>4
  <2> QED BY <2>1, <2>3, <2>5 DEF Tried
<1>2. CASE ~(e.retryable /\ attempt < RetryBudget(e))
  <2>1. pc' = "RETURNED" /\ attempt' = attempt
    BY <1>2 DEF Fail, Return
  <2> QED BY <2>1 DEF Tried, Running
<1> QED BY <1>1, <1>2

\* How an attempt ends: with the turn, or by failing.
LEMMA AttemptsEnd ==
  ASSUME TurnInv, BodyArrives \/ BodyGarbled \/ RaceTimesOut \/ NetworkFails
  PROVE  /\ pc \in {"WAITING", "READING"}
         /\ \/ pc' = "RETURNED" /\ attempt' = attempt
            \/ \E e, why : Fail(e, why) /\ e.hint \in 0 .. MaxHonoured \cup {None}
<1>1. CASE BodyArrives
  <2>1. Candid(reply) /\ pc = "READING"
    BY <1>1 DEF BodyArrives, TurnInv, Served
  <2>2. ParseError(reply).hint \in 0 .. MaxHonoured \cup {None}
    BY <2>1, HintsClamped DEF Candid, ParseError, ProviderError
  <2>3. \/ pc' = "RETURNED" /\ attempt' = attempt
        \/ Fail(ParseError(reply), reply.why)
    BY <1>1 DEF BodyArrives, Return
  <2> QED BY <2>1, <2>2, <2>3
<1>2. CASE BodyGarbled
  <2> DEFINE r == [reply EXCEPT !.kind = None, !.retryable = FALSE]
             u == ProviderError("invalid_json", 200, FALSE, None)
  <2>1. Candid(reply) /\ pc = "READING"
    BY <1>2 DEF BodyGarbled, TurnInv, Served
  <2>2. r.hint = reply.hint
    BY <2>1 DEF Candid
  <2>3. ParseError(r).hint \in 0 .. MaxHonoured \cup {None}
    <3> HIDE DEF r
    <3> QED BY <2>1, <2>2, HintsClamped DEF Candid, ParseError, ProviderError
  <2>4. u.hint \in 0 .. MaxHonoured \cup {None}
    BY DEF ProviderError
  <2>5. Fail(u, "unreadable") \/ Fail(ParseError(r), "garbled")
    BY <1>2 DEF BodyGarbled
  <2> HIDE DEF r, u
  <2> QED BY <2>1, <2>3, <2>4, <2>5
<1>3. CASE RaceTimesOut \/ NetworkFails
  <2>1. PICK kind \in {"timeout", "network"}, why \in {"timed_out", "unreachable"} :
          Fail(ProviderError(kind, 0, TRUE, None), why)
    BY <1>3 DEF RaceTimesOut, NetworkFails
  <2>2. ProviderError(kind, 0, TRUE, None).hint = None
    BY DEF ProviderError
  <2> QED BY <1>3, <2>1, <2>2 DEF RaceTimesOut, NetworkFails
<1> QED BY <1>1, <1>2, <1>3

\* The backend's steps leave the client's timer alone.
LEMMA BackendLeavesTime ==
  ASSUME \/ ServerTakes \/ RequestRefused \/ ModelAnswers \/ PostFails \/ FormatRefused
         \/ PostTimesOut \/ RateLimited \/ SleepEnds \/ Cancel
  PROVE  left' = left /\ attempt' = attempt /\ (pc' = pc \/ (pc = "WAITING" /\ pc' = "READING"))
<1> DEFINE Leaves == left' = left /\ attempt' = attempt
                     /\ (pc' = pc \/ (pc = "WAITING" /\ pc' = "READING"))
<1> SUFFICES Leaves
  OBVIOUS
<1>1. ASSUME NEW r, Send(r) PROVE Leaves
  BY <1>1 DEF Send, client, clock
<1>2. ASSUME NEW w, Work(w) PROVE Leaves
  BY <1>2 DEF Work, client, clock
<1>3. ASSUME NEW failure, NEW hint, ReasonerFails(failure, hint) PROVE Leaves
  <2> HIDE DEF Leaves
  <2> QED BY <1>1, <1>2, <1>3, Zenon DEF ReasonerFails
<1>4. CASE ServerTakes \/ Cancel
  BY <1>4 DEF ServerTakes, Cancel, client, clock
<1> HIDE DEF Leaves
<1>5. CASE RequestRefused \/ ModelAnswers \/ PostFails \/ PostTimesOut
  <2>1. (\E r : Send(r)) \/ (\E failure, hint : ReasonerFails(failure, hint))
    BY <1>5, Zenon DEF RequestRefused, ModelAnswers, PostFails, PostTimesOut
  <2> QED BY <1>1, <1>3, <2>1, Zenon
<1>6. CASE FormatRefused \/ SleepEnds \/ RateLimited
  <2>1. (\E w : Work(w)) \/ (\E failure, hint : ReasonerFails(failure, hint))
    BY <1>6, Zenon DEF FormatRefused, SleepEnds, RateLimited
  <2> QED BY <1>2, <1>3, <2>1, Zenon
<1> QED BY <1>4, <1>5, <1>6, Zenon

LEMMA StepShortens ==
  ASSUME TurnInv, Tried, Next
  PROVE  Tried' /\ TurnShortens
<1>1. left \in Nat /\ AttemptTime \in Nat /\ MaxHonoured \in Nat
  BY ReasoningAssumption DEF TurnInv, Timed
<1>2. Tick => pc' = pc /\ attempt' = attempt /\ (Running => left > 0 /\ left' = left - 1)
  BY DEF Tick
<1>3. Again \in Nat /\ TurnLeft \in Nat
  BY <1>1 DEF Again, TurnLeft, Tried
<1>4. CASE BodyArrives \/ BodyGarbled \/ RaceTimesOut \/ NetworkFails
  <2>1. pc \in {"WAITING", "READING"}
    BY <1>4, AttemptsEnd
  <2>2. Tried' /\ (Running' => TurnLeft' <= TurnLeft) /\ pc' \notin {"WAITING", "READING"}
    <3>1. CASE pc' = "RETURNED" /\ attempt' = attempt
      BY <3>1 DEF Tried, Running
    <3>2. ASSUME NEW e, NEW why, Fail(e, why), e.hint \in 0 .. MaxHonoured \cup {None}
          PROVE  Tried' /\ (Running' => TurnLeft' <= TurnLeft) /\ pc' \notin {"WAITING", "READING"}
      BY <2>1, <3>2, FailShortens
    <3> QED BY <1>4, <3>1, <3>2, AttemptsEnd
  <2> QED BY <1>2, <2>1, <2>2 DEF TurnShortens
<1>5. CASE BackoffEnds
  <2>1. pc = "BACKOFF" /\ left = 0 /\ pc' \in {"WAITING", "RETURNED"} /\ attempt' = attempt
        /\ (pc' = "WAITING" => left' = AttemptTime)
    BY <1>5 DEF BackoffEnds, Ask, Return
  <2>2. Again' = Again
    BY <2>1 DEF Again
  <2>3. pc' = "WAITING" => TurnLeft' = TurnLeft
    BY <1>1, <1>3, <2>1, <2>2 DEF TurnLeft
  <2> QED BY <1>2, <1>3, <2>1, <2>3 DEF TurnShortens, Tried, Running
<1>6. CASE StartTurn \/ FinishCycle \/ StopBeforeAsking
  <2>1. ~Running /\ attempt' \in {0, attempt} /\ pc' # "BACKOFF"
    BY <1>6 DEF StartTurn, Ask, FinishCycle, StopBeforeAsking, Running
  <2> QED BY <2>1 DEF TurnShortens, Tried
<1>7. CASE \/ ServerTakes \/ RequestRefused \/ ModelAnswers \/ PostFails \/ FormatRefused
           \/ PostTimesOut \/ RateLimited \/ SleepEnds \/ Cancel
  <2>1. left' = left /\ attempt' = attempt /\ (pc' = pc \/ (pc = "WAITING" /\ pc' = "READING"))
    BY <1>7, BackendLeavesTime
  <2>2. TurnLeft' = TurnLeft
    BY <2>1 DEF TurnLeft, Again
  <2> QED BY <1>1, <1>2, <1>3, <2>1, <2>2 DEF TurnShortens, Tried
<1>8. CASE Tick
  <2>1. Again' = Again
    BY <1>2, <1>8 DEF Again
  <2>2. Running => TurnLeft' = TurnLeft - 1
    BY <1>1, <1>2, <1>3, <1>8, <2>1 DEF TurnLeft
  <2> QED BY <1>2, <1>3, <1>8, <2>2 DEF TurnShortens, Tried
<1> QED BY <1>4, <1>5, <1>6, <1>7, <1>8 DEF Next

\* However the providers delay, limit or cut short their answers: a turn has at
\* most three attempts and two delays in front of it, no event of it gives time
\* back, and each unit that passes is gone.  With the code's 55 s and 30 s no
\* turn lasts longer than 225 s (agentLoop.ts, requestActionWithBoundedRetry).
THEOREM TurnsAreShort ==
  Spec => /\ [](Running => TurnLeft \in 0 .. 3 * AttemptTime + 2 * MaxHonoured)
          /\ [][TurnShortens]_vars
<1>1. Init => Tried
  BY DEF Init, Tried
<1>2. TurnInv /\ Tried /\ [Next]_vars => Tried' /\ [TurnShortens]_vars
  <2>1. CASE Next
    BY <2>1, StepShortens
  <2>2. CASE UNCHANGED vars
    BY <2>2 DEF vars, Tried
  <2> QED BY <2>1, <2>2
<1>3. TurnInv /\ Tried => (Running => TurnLeft \in 0 .. 3 * AttemptTime + 2 * MaxHonoured)
  <2> SUFFICES ASSUME TurnInv, Tried, Running
               PROVE  TurnLeft \in 0 .. 3 * AttemptTime + 2 * MaxHonoured
    OBVIOUS
  <2>1. AttemptTime \in Nat /\ MaxHonoured \in Nat
    BY ReasoningAssumption
  <2>2. left \in Nat /\ (pc # "BACKOFF" => left <= AttemptTime)
        /\ (pc = "BACKOFF" => left <= AttemptTime + MaxHonoured)
    BY <2>1 DEF TurnInv, Timed, Running
  <2>3. attempt \in 0 .. 2 /\ (pc = "BACKOFF" => attempt # 0)
    BY DEF Tried
  <2> QED BY <2>1, <2>2, <2>3 DEF TurnLeft, Again
<1> QED BY <1>1, <1>2, <1>3, TurnInvariance, PTL DEF Spec

-----------------------------------------------------------------------------
(* AgentMemory: what a write keeps, evicts and loses.                      *)

Lists == {s \in [Stored -> SUBSET Records] : \A c \in Stored : IsFiniteSet(s[c])}

Notes == [goal : Nat, about : {"INITIAL_GOAL", "long-horizon-progress", "STEP_RESULT"}]

Loops ==
    [at : {"over", "top", "judging", "acting", "reading", "saving"},
     then : SUBSET {"top", "judging"}, site : Sites \cup {None},
     notes : SUBSET Notes, hints : SUBSET Records,
     copy : Lists \cup {None}, record : Records \cup {None}]

Pending(r) == mLoops[r].at \in {"reading", "saving"}

MemoryType ==
    /\ mStore \in Lists
    /\ mNotes \in SUBSET Notes
    /\ mRuns \in Nat
    /\ mLoops \in [1 .. MemoryRuns -> Loops]
    /\ mMade \in 0 .. MaxRecords
    /\ mSaved \in SUBSET Records /\ IsFiniteSet(mSaved)
    /\ mLost \in SUBSET Records
    /\ \A r \in 1 .. MemoryRuns :
          /\ mLoops[r].at \notin {"over", "top"} => mLoops[r].site \in Sites
          /\ Pending(r) => mLoops[r].record \in Records
          /\ mLoops[r].at = "saving" => mLoops[r].copy \in Lists

\* no two records are of one age
Ages ==
    /\ \A f, g \in mSaved : f.createdAt = g.createdAt => f = g
    /\ \A f \in mSaved : f.createdAt <= mMade
    /\ \A r \in 1 .. MemoryRuns : Pending(r) =>
          /\ mLoops[r].record.createdAt <= mMade
          /\ \A f \in mSaved : f.createdAt # mLoops[r].record.createdAt
          /\ \A q \in 1 .. MemoryRuns \ {r} :
                Pending(q) => mLoops[q].record.createdAt # mLoops[r].record.createdAt

\* what is stored or was read was saved
WasSaved ==
    /\ mStore["FAILURE"] \subseteq mSaved
    /\ \A r \in 1 .. MemoryRuns :
          mLoops[r].at = "saving" => mLoops[r].copy["FAILURE"] \subseteq mSaved

Newer(f, saved) == {g \in saved : g.createdAt > f.createdAt}

KeptInStore ==
    \A f \in mSaved :
        f \in mStore["FAILURE"] \/ f \in mLost \/ Cardinality(Newer(f, mSaved)) >= MaxKept

MemoryInv == MemoryType /\ Ages /\ WasSaved /\ KeptInStore

LEMMA OldestIs ==
  ASSUME NEW S \in SUBSET Records, S # {}
  PROVE  Oldest(S) \in S /\ \A q \in S : Oldest(S).createdAt <= q.createdAt
<1> DEFINE T == {r.createdAt : r \in S}
<1>1. T \subseteq Nat /\ T # {}
  BY MemoryAssumption DEF Records
<1>2. PICK x \in T : \A y \in T : x <= y
  BY <1>1, Least
<1>3. PICK r \in S : r.createdAt = x
  BY <1>2
<1>4. \A q \in S : r.createdAt <= q.createdAt
  BY <1>2, <1>3
<1> QED BY <1>4 DEF Oldest

\* More records saved, more that are newer.
LEMMA NewerGrows ==
  ASSUME NEW S, NEW T, S \subseteq T, IsFiniteSet(T), NEW f,
         Cardinality(Newer(f, S)) >= MaxKept
  PROVE  Cardinality(Newer(f, T)) >= MaxKept
<1>1. IsFiniteSet(Newer(f, T)) /\ Newer(f, S) \subseteq Newer(f, T)
  BY FS_Subset DEF Newer
<1>2. /\ Cardinality(Newer(f, S)) <= Cardinality(Newer(f, T))
      /\ IsFiniteSet(Newer(f, S))
  BY <1>1, FS_Subset
<1>3. Cardinality(Newer(f, S)) \in Nat /\ Cardinality(Newer(f, T)) \in Nat
  BY <1>1, <1>2, FS_CardinalityType
<1> QED BY <1>2, <1>3, MemoryAssumption

\* A write keeps a record of its class, or MaxKept newer ones were saved.
LEMMA WrittenKeeps ==
  ASSUME NEW copy \in Lists, NEW record \in Records, NEW saved \in SUBSET Records,
         IsFiniteSet(saved), copy[record.class] \cup {record} \subseteq saved,
         \A f, g \in saved : f.createdAt = g.createdAt => f = g,
         NEW f \in copy[record.class] \cup {record}
  PROVE  f \in Written(copy, record)[record.class] \/ Cardinality(Newer(f, saved)) >= MaxKept
<1> DEFINE all == copy[record.class] \cup {record}
<1>1. /\ record.class \in Stored /\ all \in SUBSET Records
      /\ DOMAIN copy = Stored
  BY DEF Lists, Records
<1>2. Written(copy, record)[record.class] =
        IF Cardinality(all) > MaxKept THEN all \ {Oldest(all)} ELSE all
  BY <1>1 DEF Written
<1>3. IsFiniteSet(all) /\ Cardinality(all) \in Nat
  BY FS_Subset, FS_CardinalityType
<1>4. CASE Cardinality(all) > MaxKept /\ f = Oldest(all)
  <2>1. all \ {f} \subseteq Newer(f, saved)
    <3> SUFFICES ASSUME NEW g \in all \ {f}
                 PROVE  g.createdAt > f.createdAt
      BY DEF Newer
    <3>1. f.createdAt <= g.createdAt
      BY <1>1, <1>4, OldestIs
    <3>2. f.createdAt # g.createdAt
      OBVIOUS
    <3>3. f.createdAt \in Nat /\ g.createdAt \in Nat
      BY <1>1, MemoryAssumption DEF Records
    <3> QED BY <3>1, <3>2, <3>3
  <2>2. IsFiniteSet(all \ {f}) /\ Cardinality(all \ {f}) = Cardinality(all) - 1
    BY <1>3, FS_RemoveElement
  <2>3. IsFiniteSet(Newer(f, saved))
    BY FS_Subset DEF Newer
  <2>4. Cardinality(all \ {f}) <= Cardinality(Newer(f, saved))
        /\ Cardinality(Newer(f, saved)) \in Nat
    BY <2>1, <2>3, FS_Subset, FS_CardinalityType
  <2> QED BY <1>3, <1>4, <2>2, <2>4, MemoryAssumption
<1>5. CASE ~(Cardinality(all) > MaxKept /\ f = Oldest(all))
  BY <1>2, <1>5
<1> QED BY <1>4, <1>5

LEMMA WrittenIs ==
  ASSUME NEW copy \in Lists, NEW record \in Records
  PROVE  /\ Written(copy, record) \in Lists
         /\ \A c \in Stored \ {record.class} : Written(copy, record)[c] = copy[c]
         /\ Written(copy, record)[record.class] \subseteq copy[record.class] \cup {record}
<1> DEFINE all == copy[record.class] \cup {record}
           kept == IF Cardinality(all) > MaxKept THEN all \ {Oldest(all)} ELSE all
<1>1. /\ record.class \in Stored /\ copy \in [Stored -> SUBSET Records]
      /\ \A c \in Stored : IsFiniteSet(copy[c])
  BY DEF Lists, Records
<1>2. IsFiniteSet(all) /\ all \in SUBSET Records
  BY <1>1, FS_AddElement
<1>3. IsFiniteSet(kept) /\ kept \in SUBSET Records /\ kept \subseteq all
  BY <1>2, FS_Subset
<1>4. Written(copy, record) = [copy EXCEPT ![record.class] = kept]
  BY DEF Written
<1> HIDE DEF kept
<1>5. Written(copy, record) \in [Stored -> SUBSET Records]
  BY <1>1, <1>3, <1>4
<1>6. \A c \in Stored : Written(copy, record)[c] = IF c = record.class THEN kept ELSE copy[c]
  BY <1>1, <1>4
<1>7. \A c \in Stored : IsFiniteSet(Written(copy, record)[c])
  BY <1>1, <1>3, <1>6
<1> QED BY <1>1, <1>3, <1>5, <1>6, <1>7 DEF Lists

LEMMA MemoryStart == MemoryInit => MemoryInv
<1> SUFFICES ASSUME MemoryInit PROVE MemoryInv
  OBVIOUS
<1>1. IsFiniteSet({})
  BY FS_EmptySet
<1>2. mStore \in Lists
  BY <1>1 DEF MemoryInit, Lists
<1>3. Idle \in Loops
  BY DEF Idle, Loops
<1>4. mLoops \in [1 .. MemoryRuns -> Loops] /\ \A r \in 1 .. MemoryRuns : mLoops[r].at = "over"
  BY <1>3 DEF MemoryInit, Idle
<1>5. MemoryType
  BY <1>1, <1>2, <1>4, MemoryAssumption DEF MemoryInit, MemoryType, Pending
<1> QED BY <1>4, <1>5 DEF MemoryInit, MemoryInv, Ages, WasSaved, KeptInStore, Pending, Stored

\* A loop that moves and makes no record.
LEMMA LoopMoves ==
  ASSUME MemoryInv, NEW r \in 1 .. MemoryRuns, NEW l \in Loops,
         mLoops' = [mLoops EXCEPT ![r] = l],
         mNotes' \in SUBSET Notes, mRuns' \in Nat,
         UNCHANGED <<mStore, mMade, mSaved, mLost>>,
         l.at \notin {"over", "top"} => l.site \in Sites,
         l.at \in {"reading", "saving"} => Pending(r) /\ l.record = mLoops[r].record,
         l.at = "saving" => l.copy \in Lists /\ l.copy["FAILURE"] \subseteq mSaved
  PROVE  MemoryInv'
<1>1. mLoops' \in [1 .. MemoryRuns -> Loops]
  BY DEF MemoryInv, MemoryType
<1>2. \A q \in 1 .. MemoryRuns : mLoops'[q] = IF q = r THEN l ELSE mLoops[q]
  BY DEF MemoryInv, MemoryType
<1>3. \A q \in 1 .. MemoryRuns :
          Pending(q)' => Pending(q) /\ mLoops'[q].record = mLoops[q].record
  BY <1>2 DEF Pending
<1>4. MemoryType'
  BY <1>1, <1>2, <1>3 DEF MemoryInv, MemoryType
<1>5. Ages'
  BY <1>3 DEF MemoryInv, Ages
<1>6. WasSaved'
  BY <1>2 DEF MemoryInv, WasSaved
<1>7. KeptInStore'
  BY DEF MemoryInv, KeptInStore, Newer
<1> QED BY <1>4, <1>5, <1>6, <1>7 DEF MemoryInv

LEMMA RememberKeeps ==
  ASSUME MemoryInv, NEW r \in 1 .. MemoryRuns, Remember(r)
  PROVE  MemoryInv'
<1> USE MemoryAssumption
<1>1. PICK kind \in Stored :
          /\ IF kind = "FAILURE" THEN StepFails(r) ELSE StepSucceeds(r)
          /\ LET on == IF mLoops[r].at = "judging" THEN {"top", "judging"} ELSE {"top"}
             IN  \/ \E at \in on : Move(r, at)
                 \/ mLoops' = [mLoops EXCEPT ![r].at = "reading", ![r].then = on,
                        ![r].record = [class |-> kind, site |-> mLoops[r].site,
                                       createdAt |-> mMade']]
  BY DEF Remember
<1>2. /\ mLoops \in [1 .. MemoryRuns -> Loops] /\ mLoops[r] \in Loops
      /\ mLoops[r].at \in {"judging", "acting"} /\ mLoops[r].site \in Sites
      /\ mMade' = mMade + 1 /\ mMade' \in 0 .. MaxRecords /\ mMade' \in 1 .. MaxRecords
      /\ UNCHANGED <<mStore, mRuns, mSaved, mLost>>
  BY <1>1 DEF MemoryInv, MemoryType, Remember, StepFails, StepSucceeds
<1>3. mNotes' \in SUBSET Notes
  <2>1. Note(r, "STEP_RESULT") \in Notes
    BY DEF Note, Notes
  <2>2. mNotes' = mNotes \/ mNotes' = mNotes \cup {Note(r, "STEP_RESULT")}
    BY <1>1, Zenon DEF StepFails, StepSucceeds
  <2>3. mNotes \in SUBSET Notes
    BY DEF MemoryInv, MemoryType
  <2> QED BY <2>1, <2>2, <2>3
<1> DEFINE record == [class |-> kind, site |-> mLoops[r].site, createdAt |-> mMade']
           l == mLoops'[r]
<1>4. record \in Records
  BY <1>2 DEF Records
<1>5. /\ l \in Loops
      /\ \A q \in 1 .. MemoryRuns \ {r} : mLoops'[q] = mLoops[q]
      /\ mLoops' \in [1 .. MemoryRuns -> Loops]
      /\ l.site \in Sites
      /\ \/ l.at \in {"top", "judging"}
         \/ l.at = "reading" /\ l.record = record
  <2>1. CASE \E at \in {"top", "judging"} : Move(r, at)
    <3>1. PICK at \in {"top", "judging"} : mLoops' = [mLoops EXCEPT ![r].at = at]
      BY <2>1 DEF Move
    <3> QED BY <1>2, <3>1 DEF Loops
  <2>2. CASE \E on \in SUBSET {"top", "judging"} :
                mLoops' = [mLoops EXCEPT ![r].at = "reading", ![r].then = on, ![r].record = record]
    <3>1. PICK on \in SUBSET {"top", "judging"} :
                mLoops' = [mLoops EXCEPT ![r].at = "reading", ![r].then = on, ![r].record = record]
      BY <2>2
    <3> HIDE DEF record
    <3>2. l = [mLoops[r] EXCEPT !.at = "reading", !.then = on, !.record = record]
      BY <1>2, <3>1
    <3>3. l \in Loops /\ l.at = "reading" /\ l.record = record /\ l.site \in Sites
      BY <1>2, <1>4, <3>2 DEF Loops
    <3> QED BY <1>2, <3>1, <3>3
  <2>3. \/ \E at \in {"top", "judging"} : Move(r, at)
        \/ \E on \in SUBSET {"top", "judging"} :
              mLoops' = [mLoops EXCEPT ![r].at = "reading", ![r].then = on, ![r].record = record]
    <3>1. CASE mLoops[r].at = "judging"
      BY <1>1, <3>1
    <3>2. CASE mLoops[r].at # "judging"
      BY <1>1, <3>2
    <3> QED BY <3>1, <3>2
  <2> QED BY <2>1, <2>2, <2>3
<1>6. MemoryType'
  BY <1>2, <1>3, <1>4, <1>5 DEF MemoryInv, MemoryType, Pending
<1>7. Ages'
  <2>1. /\ \A f \in mSaved : f.createdAt <= mMade /\ f.createdAt \in Nat
        /\ \A q \in 1 .. MemoryRuns : Pending(q) =>
              mLoops[q].record.createdAt <= mMade /\ mLoops[q].record.createdAt \in Nat
    BY DEF MemoryInv, Ages, MemoryType, Records
  <2>2. mMade \in Nat /\ record.createdAt = mMade + 1
    BY <1>2 DEF MemoryInv, MemoryType
  <2>3. \A q \in 1 .. MemoryRuns \ {r} :
            (Pending(q)' <=> Pending(q)) /\ mLoops'[q].record = mLoops[q].record
    BY <1>5 DEF Pending
  <2>4. Pending(r)' => mLoops'[r].record = record
    BY <1>5 DEF Pending
  <2> HIDE DEF record
  <2>5. \A f \in mSaved : f.createdAt <= mMade'
    BY <1>2, <2>1, <2>2
  <2>6. ASSUME NEW q \in 1 .. MemoryRuns, Pending(q)'
        PROVE  /\ mLoops'[q].record.createdAt <= mMade'
               /\ \A f \in mSaved : f.createdAt # mLoops'[q].record.createdAt
               /\ \A p \in 1 .. MemoryRuns \ {q} :
                     Pending(p)' => mLoops'[p].record.createdAt # mLoops'[q].record.createdAt
    <3>1. CASE q = r
      BY <1>2, <2>1, <2>2, <2>3, <2>4, <2>6, <3>1
    <3>2. CASE q # r
      <4>1. /\ mLoops[q].record.createdAt <= mMade /\ mLoops[q].record.createdAt \in Nat
            /\ mLoops'[q].record = mLoops[q].record /\ Pending(q)
        BY <2>1, <2>3, <2>6, <3>2
      <4>2. \A f \in mSaved : f.createdAt # mLoops[q].record.createdAt
        BY <4>1 DEF MemoryInv, Ages
      <4>3. ASSUME NEW p \in 1 .. MemoryRuns \ {q}, Pending(p)'
            PROVE  mLoops'[p].record.createdAt # mLoops'[q].record.createdAt
        <5>1. CASE p = r
          BY <2>2, <2>4, <4>1, <4>3, <5>1
        <5>2. CASE p # r
          BY <2>3, <3>2, <4>1, <4>3, <5>2 DEF MemoryInv, Ages
        <5> QED BY <5>1, <5>2
      <4> QED BY <1>2, <2>2, <4>1, <4>2, <4>3
    <3> QED BY <3>1, <3>2
  <2> QED BY <1>2, <2>5, <2>6 DEF MemoryInv, Ages
<1>8. WasSaved'
  BY <1>2, <1>5 DEF MemoryInv, WasSaved
<1>9. KeptInStore'
  BY <1>2 DEF MemoryInv, KeptInStore, Newer
<1> QED BY <1>6, <1>7, <1>8, <1>9 DEF MemoryInv

LEMMA SaveKeeps ==
  ASSUME MemoryInv, NEW r \in 1 .. MemoryRuns, SaveStore(r)
  PROVE  MemoryInv'
<1> DEFINE copy == mLoops[r].copy
           record == mLoops[r].record
<1>1. /\ mLoops \in [1 .. MemoryRuns -> Loops] /\ mLoops[r] \in Loops
      /\ mLoops[r].at = "saving" /\ Pending(r)
      /\ copy \in Lists /\ record \in Records /\ copy["FAILURE"] \subseteq mSaved
      /\ UNCHANGED <<mNotes, mRuns, mMade>>
  BY DEF MemoryInv, MemoryType, WasSaved, Pending, SaveStore
<1>2. PICK at \in mLoops[r].then :
          mLoops' = [mLoops EXCEPT ![r].at = at, ![r].then = {},
                                   ![r].copy = None, ![r].record = None]
  BY DEF SaveStore, WriteEnds
<1> DEFINE l == mLoops'[r]
<1>3. /\ l \in Loops /\ l.at \in {"top", "judging"} /\ l.site = mLoops[r].site
      /\ \A q \in 1 .. MemoryRuns \ {r} : mLoops'[q] = mLoops[q]
      /\ mLoops' = [mLoops EXCEPT ![r] = l] /\ mLoops' \in [1 .. MemoryRuns -> Loops]
  BY <1>1, <1>2 DEF Loops
<1>4. l.at = "judging" => l.site \in Sites
  BY <1>1, <1>3 DEF MemoryInv, MemoryType
<1>5. CASE UNCHANGED <<mStore, mSaved, mLost>>
  <2>1. mNotes' \in SUBSET Notes /\ mRuns' \in Nat
    BY <1>1 DEF MemoryInv, MemoryType
  <2>2. l.at = "acting" => FALSE
    BY <1>3
  <2> QED BY <1>1, <1>3, <1>4, <1>5, <2>1, <2>2, LoopMoves
<1>6. CASE /\ mStore' = Written(copy, record)
           /\ mLost' = mLost \cup (mStore["FAILURE"] \ copy["FAILURE"])
           /\ mSaved' = mSaved \cup {f \in {record} : f.class = "FAILURE"}
  <2>1. \A q \in 1 .. MemoryRuns :
            Pending(q)' => q # r /\ Pending(q) /\ mLoops'[q] = mLoops[q]
    BY <1>3 DEF Pending
  <2>2. MemoryType'
    <3>1. mStore' \in Lists
      BY <1>1, <1>6, WrittenIs
    <3>2. mSaved' \in SUBSET Records /\ IsFiniteSet(mSaved')
      <4>1. mSaved' = mSaved \/ mSaved' = mSaved \cup {record}
        BY <1>6
      <4> QED BY <1>1, <4>1, FS_AddElement DEF MemoryInv, MemoryType
    <3>3. mLost' \in SUBSET Records
      <4>1. mLost \in SUBSET Records /\ mStore["FAILURE"] \in SUBSET Records
        BY DEF MemoryInv, MemoryType, Lists, Stored
      <4> QED BY <1>6, <4>1
    <3>4. \A q \in 1 .. MemoryRuns :
            /\ mLoops'[q].at \notin {"over", "top"} => mLoops'[q].site \in Sites
            /\ Pending(q)' => mLoops'[q].record \in Records
            /\ mLoops'[q].at = "saving" => mLoops'[q].copy \in Lists
      <4> SUFFICES ASSUME NEW q \in 1 .. MemoryRuns
                   PROVE  /\ mLoops'[q].at \notin {"over", "top"} => mLoops'[q].site \in Sites
                          /\ Pending(q)' => mLoops'[q].record \in Records
                          /\ mLoops'[q].at = "saving" => mLoops'[q].copy \in Lists
        OBVIOUS
      <4>1. CASE q = r
        BY <1>3, <1>4, <2>1, <4>1
      <4>2. CASE q # r
        BY <1>3, <2>1, <4>2 DEF MemoryInv, MemoryType
      <4> QED BY <4>1, <4>2
    <3> QED BY <1>1, <1>3, <3>1, <3>2, <3>3, <3>4 DEF MemoryInv, MemoryType
  <2>3. \A f \in mSaved' : f \in mSaved \/ (f = record /\ record.class = "FAILURE")
    BY <1>6
  <2>4. Ages'
    <3>1. \A f, g \in mSaved' : f.createdAt = g.createdAt => f = g
      BY <1>1, <2>3 DEF MemoryInv, Ages
    <3>2. \A f \in mSaved' : f.createdAt <= mMade'
      BY <1>1, <2>3 DEF MemoryInv, Ages
    <3>3. ASSUME NEW q \in 1 .. MemoryRuns, Pending(q)'
          PROVE  /\ mLoops'[q].record.createdAt <= mMade'
                 /\ \A f \in mSaved' : f.createdAt # mLoops'[q].record.createdAt
                 /\ \A p \in 1 .. MemoryRuns \ {q} :
                       Pending(p)' => mLoops'[p].record.createdAt # mLoops'[q].record.createdAt
      <4>1. q # r /\ Pending(q) /\ mLoops'[q] = mLoops[q]
        BY <2>1, <3>3
      <4>2. record.createdAt # mLoops[q].record.createdAt
        BY <1>1, <4>1 DEF MemoryInv, Ages
      <4>3. \A f \in mSaved : f.createdAt # mLoops[q].record.createdAt
        BY <4>1 DEF MemoryInv, Ages
      <4>4. ASSUME NEW p \in 1 .. MemoryRuns \ {q}, Pending(p)'
            PROVE  mLoops'[p].record.createdAt # mLoops'[q].record.createdAt
        BY <2>1, <4>1, <4>4 DEF MemoryInv, Ages
      <4> QED BY <1>1, <2>3, <4>1, <4>2, <4>3, <4>4 DEF MemoryInv, Ages
    <3> QED BY <3>1, <3>2, <3>3 DEF Ages
  <2>5. /\ mStore'["FAILURE"] \subseteq mSaved' /\ mSaved \subseteq mSaved'
        /\ record.class = "FAILURE" => record \in mSaved'
    <3>1. record.class \in Stored
      BY <1>1 DEF Records
    <3>2. CASE record.class = "FAILURE"
      BY <1>1, <1>6, <3>2, WrittenIs
    <3>3. CASE record.class # "FAILURE"
      <4>1. mStore'["FAILURE"] = copy["FAILURE"]
        BY <1>1, <1>6, <3>3, WrittenIs DEF Stored
      <4> QED BY <1>1, <1>6, <3>3, <4>1
    <3> QED BY <3>2, <3>3
  <2>6. WasSaved'
    <3>1. \A q \in 1 .. MemoryRuns :
              mLoops'[q].at = "saving" => mLoops'[q].copy["FAILURE"] \subseteq mSaved'
      BY <1>3, <2>5 DEF MemoryInv, WasSaved
    <3> QED BY <2>5, <3>1 DEF WasSaved
  <2>7. KeptInStore'
    <3> SUFFICES ASSUME NEW f \in mSaved'
                 PROVE  \/ f \in mStore'["FAILURE"] \/ f \in mLost'
                        \/ Cardinality(Newer(f, mSaved')) >= MaxKept
      BY DEF KeptInStore, Newer
    <3>1. CASE f \in copy["FAILURE"] \/ (f = record /\ record.class = "FAILURE")
      <4>1. CASE record.class = "FAILURE"
        <5>1. copy[record.class] \cup {record} \subseteq mSaved'
          BY <1>1, <2>5, <4>1
        <5>2. mSaved' \in SUBSET Records /\ IsFiniteSet(mSaved')
          BY <2>2 DEF MemoryType
        <5>3. \A a, b \in mSaved' : a.createdAt = b.createdAt => a = b
          BY <2>4 DEF Ages
        <5>4. \/ f \in Written(copy, record)[record.class]
              \/ Cardinality(Newer(f, mSaved')) >= MaxKept
          BY <1>1, <3>1, <4>1, <5>1, <5>2, <5>3, WrittenKeeps
        <5> QED BY <1>6, <4>1, <5>4
      <4>2. CASE record.class # "FAILURE"
        <5>1. mStore'["FAILURE"] = copy["FAILURE"]
          BY <1>1, <1>6, <4>2, WrittenIs DEF Stored
        <5> QED BY <3>1, <4>2, <5>1
      <4> QED BY <4>1, <4>2
    <3>2. CASE f \in mSaved /\ f \notin copy["FAILURE"]
      <4>1. CASE f \in mStore["FAILURE"] \/ f \in mLost
        BY <1>6, <3>2, <4>1
      <4>2. CASE Cardinality(Newer(f, mSaved)) >= MaxKept
        BY <2>2, <2>5, <4>2, NewerGrows DEF MemoryType
      <4> QED BY <3>2, <4>1, <4>2 DEF MemoryInv, KeptInStore
    <3> QED BY <2>3, <3>1, <3>2
  <2> QED BY <2>2, <2>4, <2>6, <2>7 DEF MemoryInv
<1> QED BY <1>5, <1>6 DEF SaveStore

LEMMA MemoryStep == MemoryInv /\ [MemoryNext]_memoryVars => MemoryInv'
<1> SUFFICES ASSUME MemoryInv, [MemoryNext]_memoryVars
             PROVE  MemoryInv'
  OBVIOUS
<1> USE MemoryAssumption
<1>1. /\ mLoops \in [1 .. MemoryRuns -> Loops] /\ mRuns \in Nat
      /\ mNotes \in SUBSET Notes /\ mStore \in Lists
      /\ mStore["FAILURE"] \in SUBSET Records
  BY DEF MemoryInv, MemoryType, Lists, Stored
<1>2. \A r \in 1 .. MemoryRuns, about \in {"INITIAL_GOAL", "long-horizon-progress", "STEP_RESULT"} :
          Note(r, about) \in Notes
  BY DEF Note, Notes
<1>3. CASE StartRun
  <2>1. mRuns + 1 \in 1 .. MemoryRuns /\ mRuns' \in Nat
    BY <1>1, <1>3 DEF StartRun
  <2> DEFINE l == [mLoops[mRuns + 1] EXCEPT !.at = "top"]
  <2>2. l \in Loops /\ l.at = "top" /\ mLoops' = [mLoops EXCEPT ![mRuns + 1] = l]
    BY <1>1, <1>3, <2>1 DEF StartRun, Loops
  <2>3. mNotes' \in SUBSET Notes
    BY <1>2, <1>3, <2>1 DEF StartRun
  <2> QED BY <1>3, <2>1, <2>2, <2>3, LoopMoves DEF StartRun
<1>4. CASE WorkerDies
  <2>1. IsFiniteSet({}) /\ Idle \in Loops
    BY FS_EmptySet DEF Idle, Loops
  <2>2. \A r \in 1 .. MemoryRuns : mLoops'[r] = Idle /\ ~Pending(r)'
    BY <1>4 DEF WorkerDies, Idle, Pending
  <2>3. MemoryType'
    BY <1>4, <2>1, <2>2 DEF WorkerDies, MemoryInv, MemoryType, Idle
  <2>4. Ages' /\ WasSaved' /\ KeptInStore'
    BY <1>4, <2>2 DEF WorkerDies, MemoryInv, Ages, WasSaved, KeptInStore, Newer, Idle
  <2> QED BY <2>3, <2>4 DEF MemoryInv
<1>5. ASSUME NEW r \in 1 .. MemoryRuns, Recall(r)
      PROVE  MemoryInv'
  <2>1. PICK site \in Sites :
          mLoops' = [mLoops EXCEPT ![r].at = "judging", ![r].site = site,
                                   ![r].notes = ReadByGoal(r), ![r].hints = FindRelevant(site)]
    BY <1>5 DEF Recall
  <2> DEFINE l == [mLoops[r] EXCEPT !.at = "judging", !.site = site,
                                    !.notes = ReadByGoal(r), !.hints = FindRelevant(site)]
  <2>2. ReadByGoal(r) \in SUBSET Notes /\ FindRelevant(site) \in SUBSET Records
    BY <1>1 DEF ReadByGoal, FindRelevant
  <2>3. l \in Loops /\ l.at = "judging" /\ l.site \in Sites /\ mLoops' = [mLoops EXCEPT ![r] = l]
    BY <1>1, <2>1, <2>2 DEF Loops
  <2> HIDE DEF l
  <2> QED BY <1>1, <1>5, <2>3, LoopMoves DEF Recall
<1>6. ASSUME NEW r \in 1 .. MemoryRuns, NoteProgress(r)
      PROVE  MemoryInv'
  <2> DEFINE l == [mLoops[r] EXCEPT !.at = "acting"]
  <2>1. /\ l \in Loops /\ l.at = "acting" /\ l.site \in Sites
        /\ mLoops' = [mLoops EXCEPT ![r] = l]
    BY <1>1, <1>6 DEF Loops, NoteProgress, Move, MemoryInv, MemoryType
  <2>2. mNotes' \in SUBSET Notes
    BY <1>1, <1>2, <1>6 DEF NoteProgress
  <2> QED BY <1>1, <1>6, <2>1, <2>2, LoopMoves DEF NoteProgress
<1>7. ASSUME NEW r \in 1 .. MemoryRuns, LeaveMemory(r)
      PROVE  MemoryInv'
  <2>1. Idle \in Loops /\ Idle.at = "over"
    BY DEF Idle, Loops
  <2> QED BY <1>1, <1>7, <2>1, LoopMoves DEF LeaveMemory
<1>8. ASSUME NEW r \in 1 .. MemoryRuns, PassOver(r)
      PROVE  MemoryInv'
  <2> DEFINE l == [mLoops[r] EXCEPT !.at = "top"]
  <2>1. l \in Loops /\ l.at = "top" /\ mLoops' = [mLoops EXCEPT ![r] = l]
    BY <1>1, <1>8 DEF Loops, PassOver, Move
  <2> QED BY <1>1, <1>8, <2>1, LoopMoves DEF PassOver
<1>9. ASSUME NEW r \in 1 .. MemoryRuns, ReadStore(r)
      PROVE  MemoryInv'
  <2> DEFINE l == [mLoops[r] EXCEPT !.at = "saving", !.copy = mStore]
  <2>1. /\ l \in Loops /\ l.at = "saving" /\ l.copy = mStore /\ l.record = mLoops[r].record
        /\ l.site \in Sites /\ mLoops' = [mLoops EXCEPT ![r] = l] /\ Pending(r)
    BY <1>1, <1>9 DEF Loops, ReadStore, Pending, MemoryInv, MemoryType
  <2>2. mStore["FAILURE"] \subseteq mSaved
    BY DEF MemoryInv, WasSaved
  <2> HIDE DEF l
  <2> QED BY <1>1, <1>9, <2>1, <2>2, LoopMoves DEF ReadStore
<1>10. ASSUME NEW r \in 1 .. MemoryRuns, BlockWrite(r)
       PROVE  MemoryInv'
  <2>1. PICK at \in mLoops[r].then :
            mLoops' = [mLoops EXCEPT ![r].at = at, ![r].then = {},
                                     ![r].copy = None, ![r].record = None]
    BY <1>10 DEF BlockWrite, WriteEnds
  <2> DEFINE l == [mLoops[r] EXCEPT !.at = at, !.then = {}, !.copy = None, !.record = None]
  <2>2. /\ l \in Loops /\ l.at \in {"top", "judging"} /\ l.site \in Sites
        /\ mLoops' = [mLoops EXCEPT ![r] = l]
    BY <1>1, <1>10, <2>1 DEF Loops, BlockWrite, MemoryInv, MemoryType
  <2> HIDE DEF l
  <2> QED BY <1>1, <1>10, <2>2, LoopMoves DEF BlockWrite
<1>11. CASE UNCHANGED memoryVars
  BY <1>11 DEF memoryVars, MemoryInv, MemoryType, Ages, WasSaved, KeptInStore, Newer, Pending
<1> QED
  BY <1>3, <1>4, <1>5, <1>6, <1>7, <1>8, <1>9, <1>10, <1>11, RememberKeeps, SaveKeeps
     DEF MemoryNext

LEMMA MemoryInvariance == MemorySpec => []MemoryInv
<1> QED BY MemoryStart, MemoryStep, PTL DEF MemorySpec

\* Whatever the order in which runs read and write, a run that looks at a site
\* recalls what failed there (MemoryStore.write, FailureMemoryManager).
THEOREM RecentIsRecalled == MemorySpec => FailuresAreRecalled
<1> DEFINE Recalls ==
        \A r \in 1 .. MemoryRuns :
            mLoops[r].at = "top" /\ mLoops'[r].at = "judging" =>
                \A f \in mSaved : f.site = mLoops'[r].site =>
                    \/ f \in mLoops'[r].hints
                    \/ f \in mLost
                    \/ Cardinality({g \in mSaved : g.createdAt > f.createdAt}) >= MaxKept
<1>1. MemoryInv /\ [MemoryNext]_memoryVars => [Recalls]_memoryVars
  <2> SUFFICES ASSUME MemoryInv, MemoryNext, NEW r \in 1 .. MemoryRuns,
                      mLoops[r].at = "top", mLoops'[r].at = "judging",
                      NEW f \in mSaved, f.site = mLoops'[r].site
               PROVE  \/ f \in mLoops'[r].hints
                      \/ f \in mLost
                      \/ Cardinality({g \in mSaved : g.createdAt > f.createdAt}) >= MaxKept
    OBVIOUS
  <2>1. mLoops \in [1 .. MemoryRuns -> Loops]
    BY DEF MemoryInv, MemoryType
  <2>2. Recall(r)
    <3>1. CASE StartRun
      BY <2>1, <3>1 DEF StartRun
    <3>2. CASE WorkerDies
      BY <3>2 DEF WorkerDies, Idle
    <3>3. ASSUME NEW q \in 1 .. MemoryRuns, q # r
          PROVE  /\ ~Recall(q) /\ ~LeaveMemory(q) /\ ~PassOver(q) /\ ~NoteProgress(q)
                 /\ ~Remember(q) /\ ~BlockWrite(q) /\ ~ReadStore(q) /\ ~SaveStore(q)
      BY <2>1, <3>3
         DEF Recall, LeaveMemory, PassOver, NoteProgress, Remember, BlockWrite, ReadStore,
             SaveStore, WriteEnds, Move
    <3>4. /\ ~PassOver(r) /\ ~NoteProgress(r) /\ ~BlockWrite(r) /\ ~ReadStore(r)
          /\ ~SaveStore(r)
      BY DEF PassOver, NoteProgress, BlockWrite, ReadStore, SaveStore
    <3>5. ~Remember(r)
      BY DEF Remember, StepFails, StepSucceeds
    <3>6. ~LeaveMemory(r)
      <4>1. LeaveMemory(r) => mLoops'[r] = Idle
        BY <2>1 DEF LeaveMemory
      <4>2. Idle.at = "over"
        BY DEF Idle
      <4> QED BY <4>1, <4>2
    <3> QED BY <3>1, <3>2, <3>3, <3>4, <3>5, <3>6 DEF MemoryNext
  <2>3. PICK site \in Sites :
          mLoops' = [mLoops EXCEPT ![r].at = "judging", ![r].site = site,
                                   ![r].notes = ReadByGoal(r), ![r].hints = FindRelevant(site)]
    BY <2>2 DEF Recall
  <2>4. mLoops'[r].site = site /\ mLoops'[r].hints = FindRelevant(site)
    BY <2>1, <2>3 DEF Loops
  <2>5. f \in mStore["FAILURE"] => f \in mLoops'[r].hints
    BY <2>4 DEF FindRelevant
  <2> QED BY <2>5 DEF MemoryInv, KeptInStore, Newer
<1> QED BY <1>1, MemoryInvariance, PTL DEF MemorySpec, FailuresAreRecalled

=============================================================================
