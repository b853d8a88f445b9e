---------------------------- MODULE PageEvidence ----------------------------
(***************************************************************************)
(* How a reading of the page becomes evidence, and evidence an answer.     *)
(* The content script numbers each model of the page it builds with a      *)
(* counter it keeps per origin; perceivePage takes the model, reads the    *)
(* tab's address later, and files the facts in the task's EvidenceLedger;  *)
(* AgentLoop accepts or refuses the model by comparing the number with its *)
(* own counters, and the goal verdicts and terminal proposals answer from  *)
(* the records of the number the loop stands at.                           *)
(*                                                                         *)
(* The tab is shared with the user and with the pages themselves: it may   *)
(* go to another document, or show something else, between any two steps.  *)
(* A fact is a key and a claim; of the text the model keeps whether the    *)
(* raw-value scanner refuses it and whether it is shaped like an           *)
(* instruction.  Which goal rule would hold is free.                       *)
(***************************************************************************)
EXTENDS Integers, Sequences, FiniteSets, SequencesExt

CONSTANTS
    Sites,         \* origins, and the address of each one's documents
    Persistent,    \* those whose sessionStorage works
    Keys,          \* fact keys
    Subject,       \* those a term of the task's text matches
    Claims,        \* what a displayed text says
    Raw,           \* the claims the raw-value scanner refuses
    Shaped,        \* the claims isInjectionShapedText flags
    Displays,      \* what a document may show: sequences of facts
    MaxFacts,      \* MAX_SEMANTIC_FACTS (24)
    MaxRecords,    \* MAX_EVIDENCE_RECORDS
    NeedsEvidence, \* intentDecision.requiresEvidence
    Builds,        \* whether a model can be built, and is found safe
    MaxSteps,      \* bound on the cycles of the run
    MaxMoves,      \* bound on the documents the tab goes to
    None

Fact == Keys \X Claims

ASSUME EvidenceAssumption ==
    /\ Persistent \subseteq Sites /\ Subject \subseteq Keys
    /\ Raw \subseteq Claims /\ Shaped \subseteq Claims
    /\ Displays \subseteq Seq(Fact)
    /\ {MaxFacts, MaxRecords, MaxSteps, MaxMoves} \subseteq Nat
    /\ MaxFacts <= MaxRecords
    /\ NeedsEvidence \in BOOLEAN /\ Builds \subseteq BOOLEAN
    /\ None \notin Keys \cup Claims \cup Sites

VARIABLES
    tab,      \* the target tab: its document and what the script there keeps
    stored,   \* sessionStorage's counter, by origin; 0: nothing stored
    moves,    \* how often the tab went to another document
    reading,  \* the scan perceivePage is working on, and (history) whether the
              \* tab is still on its document
    ledger,   \* the records of EvidenceLedger
    reads,    \* how many readings the ledger took in
    taken,    \* history: the facts of the last of them
    per,      \* state.perceptionGeneration
    cur,      \* state.currentPageGeneration
    scoped,   \* state.worldModelGenerationObserved
    keys,     \* state.verifiedEvidenceKeys
    lastOk,   \* state.lastActionResult is absent or successful
    arrives,  \* whether the plan's subgoals declare destinations
    pc, why,  \* where the run is, and what the pending reading is for
    step,     \* the cycle
    status,   \* state.status
    answer    \* the records state.answer was composed from

page == <<tab, stored, moves>>
evidence == <<ledger, reads, taken>>
counters == <<per, cur, scoped>>
control == <<pc, why, arrives, step, status>>
vars == <<page, reading, evidence, counters, keys, lastOk, control, answer>>

-----------------------------------------------------------------------------
(* The page and the content script.                                        *)

\* restorePageGeneration: what a script starts with in a new document
Restored(site) == IF site \in Persistent /\ stored[site] > 0 THEN stored[site] ELSE 1

\* the tab goes to another document, by the agent's action or by itself
PageMoves(site) ==
    /\ moves < MaxMoves
    /\ moves' = moves + 1
    /\ tab' = [site |-> site, gen |-> Restored(site), due |-> TRUE]
    /\ reading' = [reading EXCEPT !.here = FALSE]
    /\ UNCHANGED <<stored, evidence, counters, keys, lastOk, control, answer>>

\* performPrivacyScan: the model carries the counter, which then moves on;
\* a model that cannot be built leaves it where it is
PerformScan(built) ==
    /\ tab' = [tab EXCEPT !.gen = IF built THEN @ + 1 ELSE @]
    /\ stored' = IF built /\ tab.site \in Persistent
                 THEN [stored EXCEPT ![tab.site] = tab.gen + 1] ELSE stored

\* the scan a script makes by itself when its document is ready
InitialScan ==
    /\ tab.due
    /\ tab' = [tab EXCEPT !.due = FALSE, !.gen = @ + 1]
    /\ stored' = IF tab.site \in Persistent
                 THEN [stored EXCEPT ![tab.site] = tab.gen + 1] ELSE stored
    /\ UNCHANGED <<moves, reading, evidence, counters, keys, lastOk, control, answer>>

\* extractSemanticFacts
Extract(shown) ==
    LET safe == {i \in DOMAIN shown : shown[i][2] \notin Raw}
        Before(i) == Cardinality({j \in safe : j < i})
        kept == {i \in safe : Before(i) < MaxFacts}
    IN  [n \in 1..Cardinality(kept) |-> shown[CHOOSE i \in kept : Before(i) = n - 1]]

-----------------------------------------------------------------------------
(* The ledger.                                                             *)

Sanitized(r) == r.claim \notin Shaped
Citable(r) == r.fresh /\ r.ver \notin {"CONFLICTED", "INVALIDATED"} /\ Sanitized(r)
Verified(r) == Citable(r) /\ r.ver = "VERIFIED"

\* advance: every record of another number is stale from now on
Advance(records, gen) ==
    {IF r.gen = gen THEN r ELSE [r EXCEPT !.fresh = FALSE, !.ver = "INVALIDATED"] :
        r \in records}

\* the records that share their id's address, number and key
Rivals(records, url, gen, key) ==
    {r \in records : r.url = url /\ r.gen = gen /\ r.key = key}

\* record and verify for one record already held, given the claims read now
\* under its key: an unknown one makes a conflict of both
RereadRevives(r, known, new) ==
    IF new \ known # {} THEN [r EXCEPT !.ver = "CONFLICTED"]
    ELSE IF r.claim \in new /\ r.ver # "CONFLICTED" /\ Sanitized(r)
         THEN [r EXCEPT !.ver = "VERIFIED"] ELSE r
Reread(r, known, new) ==
    IF new \ known # {} THEN [r EXCEPT !.ver = "CONFLICTED"]
    ELSE IF r.claim \in new /\ r.fresh /\ r.ver # "CONFLICTED" /\ Sanitized(r)
         THEN [r EXCEPT !.ver = "VERIFIED"] ELSE r

Says(fact, key, claim) == fact[1] = key /\ fact[2] = claim

\* the same for a claim the ledger does not hold yet
RecordedUndisputed(scan, url, key, claim, rivals) ==
    [key |-> key, claim |-> claim, url |-> url, gen |-> scan.gen, fresh |-> TRUE,
     ver |-> IF claim \in Shaped THEN "UNVERIFIED" ELSE "VERIFIED",
     read |-> reads + 1,
     pos |-> CHOOSE i \in DOMAIN scan.facts : Says(scan.facts[i], key, claim)]
Recorded(scan, url, key, claim, rivals) ==
    [key |-> key, claim |-> claim, url |-> url, gen |-> scan.gen, fresh |-> TRUE,
     ver |-> IF rivals # {} THEN "CONFLICTED"
             ELSE IF claim \in Shaped THEN "UNVERIFIED" ELSE "VERIFIED",
     read |-> reads + 1,
     pos |-> CHOOSE i \in DOMAIN scan.facts :
                 /\ Says(scan.facts[i], key, claim)
                 /\ \A j \in 1..(i - 1) : ~Says(scan.facts[j], key, claim)]

\* push: the ring forgets what was recorded first
Later(r, q) == q.read > r.read \/ (q.read = r.read /\ q.pos > r.pos)
Ring(records) ==
    {r \in records : Cardinality({q \in records : Later(r, q)}) < MaxRecords}

\* ingestObservation of an OBSERVED reading
Ingest(scan, url) ==
    LET held == Advance(ledger, scan.gen)
        NewOf(key) == {f[2] : f \in {g \in ToSet(scan.facts) : g[1] = key}}
        HeldOf(key) == {r.claim : r \in Rivals(held, url, scan.gen, key)}
        kept == {IF r.url = url /\ r.gen = scan.gen
                 THEN Reread(r, HeldOf(r.key), NewOf(r.key)) ELSE r : r \in held}
        added == {Recorded(scan, url, f[1], f[2],
                           (HeldOf(f[1]) \cup NewOf(f[1])) \ {f[2]}) :
                     f \in {g \in ToSet(scan.facts) : g[2] \notin HeldOf(g[1])}}
    IN  Ring(kept \cup added)

\* scopedEvidenceLedgerView and the keys refreshEvidenceCompletionInputs
\* publishes: only the number the loop stands at, once it has seen a model
InScope(r) == scoped /\ cur > 0 => r.gen = cur
View == {r \in ledger : Citable(r) /\ InScope(r)}
VerifiedView == {r \in View : Verified(r)}

-----------------------------------------------------------------------------
(* The run.                                                                *)

End(s) == pc' = "done" /\ status' = s

\* the top of a cycle: a perception is due at a higher number than the last
StartCycle ==
    /\ pc = "top"
    /\ IF step = MaxSteps
       THEN End("LIMIT") /\ UNCHANGED <<per, cur, step, why>>
       ELSE /\ step' = step + 1
            /\ per' = per + 1
            /\ cur' = per + 1
            /\ pc' = "scan" /\ why' = "cycle"
            /\ UNCHANGED status
    /\ UNCHANGED <<page, reading, evidence, scoped, keys, lastOk, arrives, answer>>

\* PRIVAGENT_SCAN_REQUEST and its answer: a report, and a model unless it
\* could not be built or the worker finds it unsafe; the document may show
\* something else at every scan
Scan(built, safe, shown) ==
    /\ pc = "scan"
    /\ PerformScan(built)
    /\ reading' = [model |-> built /\ safe, gen |-> tab.gen, here |-> TRUE,
                   facts |-> IF built /\ safe THEN Extract(shown) ELSE <<>>]
    /\ pc' = "observe"
    /\ UNCHANGED <<moves, evidence, counters, keys, lastOk, why, arrives, step, status, answer>>

\* where the loop goes on without a reading, by what it wanted it for
AfterRefusal ==
    CASE why = "cycle" -> End("FAILED")
      [] why = "arrival" -> pc' = "recover" /\ UNCHANGED status
      [] why = "retry" -> pc' = "top" /\ UNCHANGED status

\* the tab does not answer, or not in time: no perception
ScanFails ==
    /\ pc = "scan"
    /\ AfterRefusal
    /\ UNCHANGED <<page, reading, evidence, counters, keys, lastOk, why, arrives, step, answer>>

\* normalizePerceptionResult
Local == IF cur > 0 THEN cur ELSE per
Accepted == reading.model => Local = 0 \/ reading.gen >= Local

\* what the loop does with the reading, by what it asked for it
Attach(arrived) ==
    IF ~Accepted THEN AfterRefusal /\ UNCHANGED counters
    ELSE IF why = "cycle"
         THEN /\ pc' = "judge" /\ UNCHANGED status
              /\ IF reading.model
                 THEN per' = reading.gen /\ cur' = reading.gen /\ scoped' = TRUE
                 ELSE cur' = per /\ UNCHANGED <<per, scoped>>
    ELSE /\ pc' = IF why = "retry" \/ arrived THEN "top" ELSE "recover"
         /\ UNCHANGED <<status, scoped>>
         /\ cur' = IF reading.model THEN reading.gen ELSE cur
         /\ per' = IF reading.model /\ why = "retry" THEN reading.gen ELSE per

\* the rest of perceivePage: the facts are filed under the address the tab
\* has by now (none when it cannot be read), whatever the loop then says
NoReading == [model |-> FALSE, gen |-> 0, here |-> FALSE, facts |-> <<>>]
Observe(placed, arrived) ==
    /\ pc = "observe"
    /\ IF placed /\ reading.facts # <<>>
       THEN /\ ledger' = Ingest(reading, tab.site)
            /\ reads' = reads + 1 /\ taken' = reading.facts
       ELSE UNCHANGED evidence
    /\ Attach(arrived)
    /\ reading' = NoReading
    /\ UNCHANGED <<page, keys, lastOk, why, arrives, step, answer>>

\* hasVerifiedSubjectEvidence on the published keys, and verifyTaskGoal;
\* satisfied \in BOOLEAN: what the other goal rules say
GoalSatisfied(satisfied, published) ==
    /\ lastOk /\ satisfied
    /\ NeedsEvidence => published \cap Subject # {}

\* composeEvidenceAnswerFromLedger, which fills an answer still absent
Composed == {r \in VerifiedView : r.key \in Subject}
ComposeAnswer == answer' = IF answer = {} THEN Composed ELSE answer

\* refreshEvidenceCompletionInputs and a verdict that may end the run
Verdict(satisfied, next) ==
    LET published == {r.key : r \in VerifiedView}
    IN  /\ keys' = published
        /\ IF GoalSatisfied(satisfied, published)
           THEN End("SUCCESS") /\ ComposeAnswer
           ELSE pc' = next /\ UNCHANGED <<status, answer>>

Judge(satisfied) ==
    /\ pc = "judge"
    /\ Verdict(satisfied, "ask")
    /\ UNCHANGED <<page, reading, evidence, counters, lastOk, why, arrives, step>>

\* verifyTerminalProposal: what a proposal of this kind comes to
Outcome(kind, supported) ==
    CASE kind = "ANSWER" /\ supported # {} -> "ANSWER"
      [] kind = "CANNOT_VERIFY" /\ View = {} -> "CANNOT_VERIFY"
      [] kind # "CANNOT_VERIFY" /\ VerifiedView # {} -> "PARTIAL"
      [] OTHER -> "NEEDS_INFORMATION"

\* the model proposes to stop and cites records of the ledger;
\* buildSupportedAnswer shows the cited ones that hold and are on the subject
Propose(kind, cited) ==
    LET supported == {r \in cited : r \in VerifiedView /\ r.key \in Subject}
    IN  /\ pc = "ask"
        /\ End(Outcome(kind, supported))
        /\ answer' = supported
        /\ UNCHANGED <<page, reading, evidence, counters, keys, lastOk, why, arrives, step>>

\* a proposal parseTerminalProposal refuses
ProposeMalformed ==
    /\ pc = "ask"
    /\ pc' = "top"
    /\ UNCHANGED <<page, reading, evidence, counters, keys, lastOk, why, arrives, step, status, answer>>

ReasoningFails ==
    /\ pc = "ask"
    /\ End("FAILED")
    /\ UNCHANGED <<page, reading, evidence, counters, keys, lastOk, why, arrives, step, answer>>

\* an action is refused or fails: the cycle ends without a new verdict
ActionFails ==
    /\ pc = "ask"
    /\ lastOk' = FALSE
    /\ pc' = "top"
    /\ UNCHANGED <<page, reading, evidence, counters, keys, why, arrives, step, status, answer>>

\* the page shows no effect: a destination subgoal looks at it once more
NoEffect(destination) ==
    /\ pc = "ask"
    /\ lastOk' = FALSE
    /\ destination => arrives
    /\ IF destination THEN pc' = "scan" /\ why' = "arrival"
       ELSE pc' = "recover" /\ UNCHANGED why
    /\ UNCHANGED <<page, reading, evidence, counters, keys, arrives, step, status, answer>>

\* the recovery engine gives up, or the page is read again before the retry
Recover(abort) ==
    /\ pc = "recover"
    /\ IF abort THEN End("FAILED") /\ UNCHANGED why
       ELSE pc' = "scan" /\ why' = "retry" /\ UNCHANGED status
    /\ UNCHANGED <<page, reading, evidence, counters, keys, lastOk, arrives, step, answer>>

\* the effect is verified; the plan engine, when it stands at its goal
\* verification, asks for a verdict of its own, on the keys last published
ActionSucceeds(engine, satisfied, navigates) ==
    /\ pc = "ask"
    /\ lastOk' = TRUE
    /\ IF engine /\ satisfied /\ (NeedsEvidence => keys \cap Subject # {})
       THEN ComposeAnswer ELSE UNCHANGED answer
    /\ pc' = IF navigates THEN "settle" ELSE "judge2"
    /\ UNCHANGED <<page, reading, evidence, counters, keys, why, arrives, step, status>>

\* onNavigationComplete: advancePageGeneration when the page settled
Settle(settled) ==
    /\ pc = "settle"
    /\ cur' = IF settled THEN cur + 1 ELSE cur
    /\ per' = IF settled THEN cur + 1 ELSE per
    /\ pc' = "judge2"
    /\ UNCHANGED <<page, reading, evidence, scoped, keys, lastOk, why, arrives, step, status, answer>>

JudgeAfterActionOnOldKeys(satisfied) ==
    /\ pc = "judge2"
    /\ IF GoalSatisfied(satisfied, keys) THEN End("SUCCESS") /\ ComposeAnswer
       ELSE pc' = "top" /\ UNCHANGED <<status, answer>>
    /\ UNCHANGED <<page, reading, evidence, counters, keys, lastOk, why, arrives, step>>
JudgeAfterAction(satisfied) ==
    /\ pc = "judge2"
    /\ Verdict(satisfied, "top")
    /\ UNCHANGED <<page, reading, evidence, counters, lastOk, why, arrives, step>>

-----------------------------------------------------------------------------
Init ==
    /\ tab \in [site : Sites, gen : {1}, due : {TRUE}]
    /\ stored = [s \in Sites |-> 0] /\ moves = 0
    /\ reading = NoReading
    /\ ledger = {} /\ reads = 0 /\ taken = <<>>
    /\ per = 0 /\ cur = 0 /\ scoped = FALSE
    /\ keys = {} /\ lastOk = TRUE /\ arrives \in BOOLEAN
    /\ pc = "top" /\ why = "cycle" /\ step = 0 /\ status = "IN_PROGRESS"
    /\ answer = {}

Tab ==
    \/ InitialScan
    \/ \E site \in Sites : PageMoves(site)
Perceive ==
    \/ StartCycle \/ ScanFails
    \/ \E built, safe \in Builds, shown \in Displays : Scan(built, safe, shown)
    \/ \E placed, arrived \in BOOLEAN : Observe(placed, arrived)
Kinds == {"ANSWER", "PARTIAL", "NEEDS_INFORMATION", "CANNOT_VERIFY"}
Decide ==
    \/ \E satisfied \in BOOLEAN : Judge(satisfied) \/ JudgeAfterAction(satisfied)
    \/ \E kind \in Kinds, cited \in SUBSET ledger : Propose(kind, cited)
    \/ ProposeMalformed \/ ReasoningFails \/ ActionFails
    \/ \E destination \in BOOLEAN : NoEffect(destination)
    \/ \E abort \in BOOLEAN : Recover(abort)
    \/ \E engine, satisfied, navigates \in BOOLEAN :
          ActionSucceeds(engine, satisfied, navigates)
    \/ \E settled \in BOOLEAN : Settle(settled)
Next == pc # "done" /\ (Tab \/ Perceive \/ Decide)

Spec == Init /\ [][Next]_vars

-----------------------------------------------------------------------------
Record ==
    [key : Keys, claim : Claims, url : Sites, gen : Nat, fresh : BOOLEAN,
     ver : {"UNVERIFIED", "VERIFIED", "CONFLICTED", "INVALIDATED"},
     read : Nat, pos : Nat]

\* Every variable keeps its kind.
TypeOK ==
    /\ tab \in [site : Sites, gen : Nat, due : BOOLEAN]
    /\ stored \in [Sites -> Nat] /\ moves \in Nat
    /\ reading \in [model : BOOLEAN, gen : Nat, here : BOOLEAN, facts : Seq(Fact)]
    /\ ledger \subseteq Record /\ reads \in Nat /\ taken \in Seq(Fact)
    /\ per \in Nat /\ cur \in Nat /\ scoped \in BOOLEAN
    /\ keys \subseteq Keys /\ lastOk \in BOOLEAN /\ arrives \in BOOLEAN
    /\ pc \in {"top", "scan", "observe", "judge", "ask", "recover", "settle",
               "judge2", "done"}
    /\ why \in {"cycle", "arrival", "retry"}
    /\ step \in Nat
    /\ status \in {"IN_PROGRESS", "SUCCESS", "FAILED", "LIMIT"} \cup Kinds
    /\ answer \subseteq Record

\* A record that went stale is never evidence again, also when a counter
\* that restarts brings its address, number and key back.
StaleStaysStale ==
    [][\A r \in ledger, q \in ledger' :
          /\ r.read = q.read /\ r.pos = q.pos
          /\ ~r.fresh
          => ~q.fresh /\ q.ver # "VERIFIED"]_vars

\* a record is among the facts of the last reading the ledger took in, which
\* says nothing else under its key and does not word it like an instruction
Undisputed(r) ==
    /\ {f[2] : f \in {g \in ToSet(taken) : g[1] = r.key}} = {r.claim}
    /\ r.claim \notin Shaped \cup Raw

SaidLast(records) == \A r \in records : r.key \in Subject /\ Undisputed(r)

\* What the user is told is what the page last said, once a cycle has begun
\* with a model and unless subgoals declare destinations.
AnswerStands ==
    [][scoped /\ ~arrives /\ answer' # answer => SaidLast(answer')]_vars

\* A task that needs evidence never succeeds without telling what was found.
InformedSuccess == status = "SUCCESS" /\ NeedsEvidence => answer # {}

-----------------------------------------------------------------------------
(* Why an answer stands.                                                   *)

\* A reading is of a model, and nothing in it is raw.
ReadingIsClean ==
    /\ reading.facts # <<>> => reading.model
    /\ \A i \in DOMAIN reading.facts : reading.facts[i][2] \notin Raw

\* Where no subgoal declares a destination the two counters agree; no record is
\* of a higher number, and while the reading of a cycle is awaited all are of
\* lower ones, so that what a verdict finds at its number was read in its cycle.
NumbersGrow ==
    /\ why \in {"cycle", "retry"}
    /\ per = cur
    /\ pc \notin {"top", "done"} => cur > 0
    /\ \A r \in ledger : r.gen <= cur
    /\ pc \in {"scan", "observe"} /\ why = "cycle" => \A r \in ledger : r.gen < cur

VerdictsStand ==
    pc \in {"judge", "ask", "settle", "judge2"} =>
        \A r \in ledger : r.gen = cur /\ Verified(r) => Undisputed(r)

StandInv == ReadingIsClean /\ (~arrives => NumbersGrow /\ VerdictsStand)

-----------------------------------------------------------------------------
(* What the repository says and the code does not do.                      *)

\* A success is never told with the records of a page the loop has left.
SuccessTellsThisPage ==
    status = "SUCCESS" => \A r \in answer : InScope(r)

\* Where every origin's counter is kept and every model is built, a model
\* just built from the document the tab still shows is not refused as stale.
FreshPageAccepted ==
    [][pc = "observe" /\ reading.model /\ reading.here => status' # "FAILED"]_vars
=============================================================================
