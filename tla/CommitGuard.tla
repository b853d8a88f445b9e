---------------------------- MODULE CommitGuard ----------------------------
(***************************************************************************)
(* One run of the agent loop, seen by its consequential dispatches: the    *)
(* commit certainty contract of agent/commitCertainty.ts and the part of   *)
(* agent/agentLoop.ts that enforces it.                                    *)
(*                                                                         *)
(* A consequential action (BUY, SUBMIT, SEND ...) that was dispatched and  *)
(* whose outcome is not known leaves an unresolved record of its class.    *)
(* The record blocks the class until the page says that the action failed  *)
(* or the effect verifier sees the page change.                            *)
(*                                                                         *)
(* Each step of the model is the synchronous section between two awaits of *)
(* the loop; pc names the await the run is suspended in.  The gates before *)
(* the dispatch section (grounding, validation, risk ...) appear only as   *)
(* "refused", "parked for confirmation" or "passed".                       *)
(***************************************************************************)
EXTENDS Integers, Sequences, FiniteSets

CONSTANTS
  Classes,          \* the consequential action classes
  MaxSteps,         \* maxSteps of the loop, 10 in the service worker
  MaxRetries,       \* maxRetries of the loop, 2 in the service worker
  KeepRecords,      \* commit records kept, slice(-50)
  MaxConfirmations  \* bound of the model: confirmations the user gives

ASSUME ClassesAssumption == "NONE" \notin Classes /\ IsFiniteSet(Classes)
ASSUME BoundsAssumption ==
  MaxSteps \in Nat /\ MaxRetries \in Nat /\ KeepRecords \in Nat /\ MaxConfirmations \in Nat
\* There are six classes, and 50 records are kept.
ASSUME KeepAssumption == Cardinality(Classes) <= KeepRecords

VARIABLES
  pc,            \* the await the run is suspended in
  status,        \* state.status
  class,         \* the class of the action being handled
  step,          \* state.currentStep
  retryCount,    \* state.retryCount
  records,       \* state.commitRecords
  cancelled,     \* lifecycle is CANCELLED or SUPERSEDED
  confirmations, \* confirmations the user has given
  page,          \* the outcome wording the page shows now
  unseen,        \* history: the dispatches of each class since anything was observed
  granted        \* history: the confirmations of each class since anything was observed

observations == <<unseen, granted>>
vars == <<pc, status, class, step, retryCount, records, cancelled, confirmations, page, observations>>

ActionClasses == Classes \cup {"NONE"}
Wordings == {"silent", "confirms", "fails"}
Codes == {"EXECUTION_FAILED", "EFFECT_UNVERIFIED", "EFFECT_NOT_OBSERVABLE",
          "RESOLVED_COMMITTED", "RESOLVED_NOT_COMMITTED"}
CommitRecord == [class : Classes, code : Codes, unresolved : BOOLEAN]
Statuses == {"IN_PROGRESS", "NEEDS_USER_CONFIRMATION", "COMMIT_UNKNOWN",
             "FRESHNESS_UNVERIFIED", "SUCCESS", "FAILED", "STOPPED"}
Awaits == {"propose", "parked", "confirmedGate", "confirmedExec", "gate", "resolveGate", "exec",
           "resolveFailure", "effect", "done"}

Unresolved(recs) == {i \in DOMAIN recs : recs[i].unresolved}
UnresolvedOf(recs, c) == {i \in Unresolved(recs) : recs[i].class = c}

\* records.find(r => r.unresolved) and its counterpart from the end.
FirstUnresolved(recs) == CHOOSE i \in Unresolved(recs) : \A j \in Unresolved(recs) : i <= j
LastUnresolved(recs) == CHOOSE i \in Unresolved(recs) : \A j \in Unresolved(recs) : j <= i

Settle(recs, i, code, unresolved) ==
  [recs EXCEPT ![i] = [@ EXCEPT !.code = code, !.unresolved = unresolved]]

\* [...records, record].slice(-KeepRecords)
Remember(recs, r) ==
  LET all == Append(recs, r)
  IN  IF Len(all) <= KeepRecords
        THEN all
        ELSE SubSeq(all, Len(all) - KeepRecords + 1, Len(all))

\* A faulty guard: only the last record is compared with the class.
MayDispatchUnlessLast(c) ==
  c \in Classes /\ records # <<>> => Len(records) \notin UnresolvedOf(records, c)

MayDispatchConsequential(c) == c \in Classes => UnresolvedOf(records, c) = {}

\* assessCommit: a dispatched consequential action always starts unresolved.
AssessCommit(c, ok) ==
  [class |-> c, unresolved |-> TRUE,
   code |-> IF ok THEN "EFFECT_UNVERIFIED" ELSE "EXECUTION_FAILED"]

\* verifyExternalCommit and resolveCommit: only positive wording settles a record.
ResolveCommit(recs, i, wording) ==
  CASE wording = "confirms" -> Settle(recs, i, "RESOLVED_COMMITTED", FALSE)
    [] wording = "fails"    -> Settle(recs, i, "RESOLVED_NOT_COMMITTED", FALSE)
    [] OTHER                -> recs

\* resolveOpenCommit re-perceives the page for the FIRST unresolved record.
ResolveOpenCommit(recs, wording) == ResolveCommit(recs, FirstUnresolved(recs), wording)

\* A faulty verdict: an effect that could not be observed closes the commit too.
SettleUnlessUnverified(recs, code) ==
  IF Unresolved(recs) = {}
    THEN recs
    ELSE Settle(recs, LastUnresolved(recs), code, code = "EFFECT_UNVERIFIED")

\* settleOpenCommitWithEffect settles the LAST unresolved record, whatever its step.
SettleOpenCommitWithEffect(recs, code) ==
  IF Unresolved(recs) = {}
    THEN recs
    ELSE Settle(recs, LastUnresolved(recs), code, code # "RESOLVED_COMMITTED")

NoneOfAny == [c \in Classes |-> 0]

\* Something was observed: what happened before is told from what comes.
Observed == unseen' = NoneOfAny /\ granted' = NoneOfAny

\* One more of class c, if it is a class.
OneMore(count, c) == [d \in Classes |-> count[d] + IF d = c THEN 1 ELSE 0]
----------------------------------------------------------------------------
Init ==
  /\ pc = "propose"
  /\ status = "IN_PROGRESS"
  /\ class = "NONE"
  /\ step = 0
  /\ retryCount = 0
  /\ records = <<>>
  /\ cancelled = FALSE
  /\ confirmations = 0
  /\ page \in Wordings
  /\ unseen = NoneOfAny
  /\ granted = NoneOfAny

\* The end of runTask: a cancelled run reports STOPPED whatever a branch wrote.
Finish(outcome) ==
  /\ pc' = "done"
  /\ status' = IF cancelled THEN "STOPPED" ELSE outcome

\* retryCount++ and the ceiling on it.
RetryOrFail ==
  /\ retryCount' = retryCount + 1
  /\ IF retryCount + 1 > MaxRetries
       THEN Finish("FAILED")
       ELSE pc' = "propose" /\ UNCHANGED status

\* callbacks.executeAction is called for an action of class c, which is the next
\* of `before`.
Dispatch(c, await, before) ==
  /\ pc' = await
  /\ unseen' = OneMore(before, c)
----------------------------------------------------------------------------
\* The page changes on its own or because of what the agent did.
PageChanges ==
  /\ pc # "done"
  /\ \E w \in Wordings \ {page} : page' = w
  /\ UNCHANGED <<pc, status, class, step, retryCount, records, cancelled, confirmations, observations>>

\* cancel(): latch and status are set at once, the loop notices after its await.
Cancel ==
  /\ pc # "done"
  /\ ~cancelled
  /\ cancelled' = TRUE
  /\ status' = "STOPPED"
  /\ pc' = IF pc = "parked" THEN "done" ELSE pc
  /\ UNCHANGED <<class, step, retryCount, records, confirmations, page, observations>>

\* The top of the loop: what ends the run, and what lets it ask for a proposal.
MustLeave == cancelled \/ step >= MaxSteps

MayPropose == pc = "propose" /\ ~cancelled /\ step < MaxSteps

\* The run ends at the top of the loop: cancelled, out of steps, or finished.
LeaveLoop ==
  /\ pc = "propose"
  /\ \/ MustLeave /\ Finish("FAILED")
     \/ MayPropose /\ \E s \in {"SUCCESS", "FAILED"} : Finish(s)
  /\ UNCHANGED <<class, step, retryCount, records, cancelled, confirmations, page, observations>>

\* A faulty refusal: it goes back to the top of the loop and counts nothing.
RefuseUncounted(c) ==
  /\ MayPropose
  /\ class' = c
  /\ UNCHANGED <<pc, status, step, retryCount, records, cancelled, confirmations, page, observations>>

\* A proposal of class c refused by a gate before the dispatch section.
RefuseProposal(c) ==
  /\ MayPropose
  /\ step' = step + 1
  /\ class' = c
  /\ RetryOrFail
  /\ UNCHANGED <<records, cancelled, confirmations, page, observations>>

\* Gate 5: the action waits for the user and the run parks.
ParkForConfirmation(c) ==
  /\ MayPropose
  /\ step' = step + 1
  /\ class' = c
  /\ pc' = "parked"
  /\ status' = "NEEDS_USER_CONFIRMATION"
  /\ UNCHANGED <<retryCount, records, cancelled, confirmations, page, observations>>

\* All gates passed; the loop awaits the pre-action snapshot.
PassGates(c) ==
  /\ MayPropose
  /\ step' = step + 1
  /\ class' = c
  /\ pc' = "gate"
  /\ UNCHANGED <<status, retryCount, records, cancelled, confirmations, page, observations>>

\* resumeWithConfirmation reads the page once more for the containment check.
ConfirmAllowed ==
  /\ pc = "parked"
  /\ confirmations < MaxConfirmations
  /\ confirmations' = confirmations + 1
  /\ granted' = OneMore(granted, class)
  /\ pc' = "confirmedGate"
  /\ status' = "IN_PROGRESS"
  /\ UNCHANGED <<class, step, retryCount, records, cancelled, page, unseen>>

\* The parked action is dispatched: the gates on open commits and on freshness
\* are not asked.
ConfirmedGate ==
  /\ pc = "confirmedGate"
  /\ \/ pc' = "done" /\ status' = "FAILED" /\ UNCHANGED unseen
     \/ cancelled /\ pc' = "done" /\ UNCHANGED <<status, unseen>>
     \/ ~cancelled /\ Dispatch(class, "confirmedExec", unseen) /\ UNCHANGED status
  /\ UNCHANGED <<class, step, retryCount, records, cancelled, confirmations, page, granted>>

\* The confirmed dispatch returned: a failure ends the run, a success re-enters
\* runTask, which resets the counters and the latch but not the records. Of the
\* dispatch no record is made, and its effect is not looked for.
ConfirmedReturns ==
  /\ pc = "confirmedExec"
  /\ \/ /\ pc' = "done"
        /\ status' = "FAILED"
        /\ UNCHANGED <<step, retryCount, cancelled>>
     \/ /\ pc' = "propose"
        /\ status' = "IN_PROGRESS"
        /\ step' = 0
        /\ retryCount' = 0
        /\ cancelled' = FALSE
  /\ UNCHANGED <<class, records, confirmations, page, observations>>
----------------------------------------------------------------------------
\* After the snapshot: cancelled, or refused by containment or by freshness.
GateRefuses ==
  /\ pc = "gate"
  /\ \/ cancelled /\ Finish("STOPPED") /\ UNCHANGED retryCount
     \/ Finish("FAILED") /\ retryCount' = retryCount + 1
     \/ /\ ~cancelled
        /\ class \in Classes
        /\ \/ Finish("FRESHNESS_UNVERIFIED")
           \/ Finish("FAILED")
           \/ pc' = "propose" /\ UNCHANGED status
        /\ UNCHANGED retryCount
  /\ UNCHANGED <<class, step, records, cancelled, confirmations, page, observations>>

\* No unresolved record of the class: the action is dispatched.
GateClear ==
  /\ pc = "gate"
  /\ ~cancelled
  /\ MayDispatchConsequential(class)
  /\ Dispatch(class, "exec", unseen)
  /\ UNCHANGED <<status, class, step, retryCount, records, cancelled, confirmations, page, granted>>

\* An unresolved record of the class: re-perceive before anything else.
GateBlocked ==
  /\ pc = "gate"
  /\ ~cancelled
  /\ ~MayDispatchConsequential(class)
  /\ pc' = "resolveGate"
  /\ UNCHANGED <<status, class, step, retryCount, records, cancelled, confirmations, page, observations>>

\* resolveOpenCommit at the gate: only a resolution as NOT_COMMITTED dispatches.
ResolveAtGate ==
  /\ pc = "resolveGate"
  /\ IF cancelled
       THEN /\ Finish("COMMIT_UNKNOWN")
            /\ UNCHANGED <<records, retryCount, observations>>
       ELSE /\ records' = ResolveOpenCommit(records, page)
            /\ IF page = "fails"
                 THEN /\ Dispatch(class, "exec", NoneOfAny)
                      /\ granted' = NoneOfAny
                      /\ retryCount' = 0
                      /\ UNCHANGED status
                 ELSE /\ Finish("COMMIT_UNKNOWN")
                      /\ IF page = "confirms" THEN Observed ELSE UNCHANGED observations
                      /\ UNCHANGED retryCount
  /\ UNCHANGED <<class, step, cancelled, confirmations, page>>

\* executeAction returned; ok is what the call says, not what the world did.
ExecReturns(ok) ==
  /\ pc = "exec"
  /\ IF cancelled
       THEN Finish("STOPPED") /\ UNCHANGED <<records, retryCount>>
       ELSE IF class \in Classes
         THEN /\ records' = Remember(records, AssessCommit(class, ok))
              /\ pc' = IF ok THEN "effect" ELSE "resolveFailure"
              /\ UNCHANGED <<status, retryCount>>
         ELSE /\ UNCHANGED records
              /\ IF ok THEN pc' = "effect" /\ UNCHANGED <<status, retryCount>>
                       ELSE RetryOrFail
  /\ UNCHANGED <<class, step, cancelled, confirmations, page, observations>>

\* A failed consequential action: retried only when the page says it failed.
ResolveAfterFailure ==
  /\ pc = "resolveFailure"
  /\ IF cancelled
       THEN Finish("COMMIT_UNKNOWN") /\ UNCHANGED <<records, retryCount, observations>>
       ELSE /\ records' = ResolveOpenCommit(records, page)
            /\ IF page = "silent" THEN UNCHANGED observations ELSE Observed
            /\ IF page = "fails"
                 THEN RetryOrFail
                 ELSE Finish("COMMIT_UNKNOWN") /\ UNCHANGED retryCount
  /\ UNCHANGED <<class, step, cancelled, confirmations, page>>
----------------------------------------------------------------------------
\* Either side of the action could not be observed: nothing is settled, and the
\* typed recovery budget allows another iteration or ends the run.
EffectUnobservable ==
  /\ pc = "effect"
  /\ retryCount' = retryCount + 1
  /\ \/ Finish("FAILED")
     \/ pc' = "propose" /\ UNCHANGED status
  /\ UNCHANGED <<class, step, records, cancelled, confirmations, page, observations>>

\* The verifier compared the two sides and saw no effect, or could not tell.
EffectAbsent ==
  /\ pc = "effect"
  /\ \E code \in {"EFFECT_UNVERIFIED", "EFFECT_NOT_OBSERVABLE"} :
       records' = SettleOpenCommitWithEffect(records, code)
  /\ \/ RetryOrFail
     \/ Finish("FAILED") /\ retryCount' = retryCount + 1
     \/ pc' = "propose" /\ UNCHANGED <<status, retryCount>>  \* already at the destination
  /\ UNCHANGED <<class, step, cancelled, confirmations, page, observations>>

\* The verifier saw the page change.
EffectObserved ==
  /\ pc = "effect"
  /\ records' = SettleOpenCommitWithEffect(records, "RESOLVED_COMMITTED")
  /\ Observed
  /\ retryCount' = 0
  /\ \/ Finish("SUCCESS")
     \/ pc' = "propose" /\ UNCHANGED status
  /\ UNCHANGED <<class, step, cancelled, confirmations, page>>
----------------------------------------------------------------------------
LoopStep ==
  \/ LeaveLoop
  \/ \E c \in ActionClasses : RefuseProposal(c) \/ ParkForConfirmation(c) \/ PassGates(c)
  \/ ConfirmedGate
  \/ ConfirmedReturns
  \/ GateRefuses
  \/ GateClear
  \/ GateBlocked
  \/ ResolveAtGate
  \/ \E ok \in BOOLEAN : ExecReturns(ok)
  \/ ResolveAfterFailure
  \/ EffectUnobservable
  \/ EffectAbsent
  \/ EffectObserved

Next == LoopStep \/ Cancel \/ ConfirmAllowed \/ PageChanges

Spec == Init /\ [][Next]_vars

\* Every await of the loop is bounded by a timeout, so a suspended run goes on.
FairSpec == Spec /\ WF_vars(LoopStep)
----------------------------------------------------------------------------
\* Every variable keeps its type: the step count never passes maxSteps, through
\* every refusal, retry and confirmation.
TypeOK ==
  /\ pc \in Awaits
  /\ status \in Statuses
  /\ class \in ActionClasses
  /\ step \in 0..MaxSteps
  /\ retryCount \in Nat
  /\ records \in Seq(CommitRecord)
  /\ cancelled \in BOOLEAN
  /\ confirmations \in 0..MaxConfirmations
  /\ page \in Wordings
  /\ unseen \in [Classes -> Nat]
  /\ granted \in [Classes -> Nat]

\* The dispatches of c that the user did not ask for, the one that was just
\* allowed included, since anything was observed.
Own(c) ==
  unseen[c] + (IF pc = "confirmedGate" /\ class = c THEN 1 ELSE 0) - granted[c]

\* Unless something was observed since the loop itself dispatched a class, the
\* guard holds an unresolved record of it, or that dispatch has not returned.
GuardRemembers ==
  \A c \in Classes :
    \/ Own(c) <= 0
    \/ UnresolvedOf(records, c) # {}
    \/ class = c /\ pc \in {"exec", "done"}

Dispatching(c) == pc # "exec" /\ pc' = "exec" /\ class = c

\* As long as the device observes nothing, neither an effect nor outcome wording
\* on the page, a class is dispatched once and once more for each confirmation
\* the user gave to it, by whatever path (commitCertainty.ts: "Nothing else
\* retries").
RepeatNeedsEvidence == \A c \in Classes : unseen[c] <= 1 + granted[c]

\* The contract of commitCertainty.ts in full: what is dispatched of a class, also
\* on the user's word, blocks the class until something is observed. The code
\* makes no record of a confirmed dispatch, and the loop repeats it.
ConfirmedBlocksClass ==
  [][\A c \in Classes : Dispatching(c) => unseen[c] = 0 \/ page = "fails"]_vars

InFlight == IF pc \in {"exec", "confirmedExec"} /\ class \in Classes THEN class ELSE "NONE"

\* What the guard promises: every step of the run is a step of the gate on
\* evidence, or leaves it alone.
Gate == INSTANCE EvidenceGate WITH
  credit <- [c \in Classes |-> 1 + granted[c] - unseen[c]],
  flying <- InFlight, over <- (pc = "done")

ImplementsEvidenceGate == Gate!GateSpec

\* The contract of commitCertainty.ts: an unresolved commit blocks the same
\* class of action from being dispatched again.
OpenCommitBlocksClass ==
  [][\A c \in Classes : Dispatching(c) => UnresolvedOf(records', c) = {}]_vars

\* The step budget ends every run that the user does not keep waiting.
RunEndsOrWaits == []<>(pc \in {"done", "parked"})
=============================================================================
