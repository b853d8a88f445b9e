---------------------------- MODULE WireContract ----------------------------
(* What crosses between the extension and the backend in a run: the steps  *)
(* the loop recorded become the history of the next request, the backend   *)
(* checks the request, shows it to the model, parses what the model says   *)
(* and the extension checks what it is sent.  Both sides write the rules   *)
(* down on their own (models.py, reasoner.py; historyContract.ts,          *)
(* providerResponse.ts).                                                   *)
(*                                                                         *)
(* A text is what the checks tell apart: "none", "plain" (the model's, with *)
(* nothing to object to), "verdict" (the loop's own words, likewise),      *)
(* "titled" (two capitalised words in a row, which read as a person's      *)
(* name), "long" (over the bound), "late" (over the bound, a name behind   *)
(* it), "wide" (within the bound counted in characters, over it in UTF-16  *)
(* units).                                                                 *)
EXTENDS Naturals, Sequences, SequencesExt, Sifting, Absent

CONSTANTS Completions,   \* what the model may say
          Declarations,  \* what may stand in the declared slot of a request
          Urls,          \* the addresses a task may name
          MaxSteps       \* bound on the steps of a run

VARIABLES wTyped,     \* the addresses in the user's task
          wReference, \* the origin of the conversation's selection, if any
          wSteps,     \* the recorded steps (state.steps)
          wProposed,  \* the action the loop is about to judge
          wPrompt,    \* what the model was last shown
          wHeard,     \* what the model last said
          wAt         \* "ask", "model", "judge", "refused" or "failed"

wireVars == <<wTyped, wReference, wSteps, wProposed, wPrompt, wHeard, wAt>>

-----------------------------------------------------------------------------
(* Text and fields.                                                        *)

\* scan_reason_text finds something in the whole text
Unsafe(text) == text \in {"titled", "late"}

\* _clamp_diagnostic_fields: what is over the bound is cut off
Clamped(text) == IF text \in {"long", "late"} THEN "plain" ELSE text

\* the bound of 300, counted by Python and by JavaScript
Over(text) == text \in {"long", "late"}
OverInUnits(text) == Over(text) \/ text = "wide"

Fields == [click |-> {"target"}, scroll |-> {"direction", "amount"},
           type |-> {"target", "text"}, select |-> {"target", "option"},
           navigate |-> {"url"}, pressKey |-> {"key", "target"}]
Kinds == DOMAIN Fields
Needed(kind) == IF kind = "pressKey" THEN {"key"} ELSE Fields[kind]

\* an action: the fields it has, those over their bound, outside their range,
\* or holding what must not be sent
Texts == {"none", "plain", "verdict", "titled", "long", "late", "wide"}
Actions == [kind : STRING, has : SUBSET STRING, over : SUBSET STRING, wrong : SUBSET STRING,
            private : SUBSET STRING, reason : Texts]
Decisions == {"text", "option", "target", "url", "direction"}

-----------------------------------------------------------------------------
(* The backend's reading of a completion.                                  *)

Failures == {"missing_action", "invalid_action", "unexpected_format", "unknown_proposal_kind",
             "model_contract", "unknown_target"}
Failure(kind) == [error |-> kind, action |-> None, proposal |-> None]

\* a build that cuts the reason to its bound before it is scanned
ParseActionCutFirst(a) ==
    IF a = None THEN Failure("missing_action")
    ELSE IF a.over \cap Decisions # {} \/ Unsafe(Clamped(a.reason)) THEN Failure("invalid_action")
    ELSE [error |-> None, proposal |-> None, action |-> [a EXCEPT !.reason = Clamped(@)]]

\* parse_model_action: the reason is scanned whole, then cut
ParseAction(a) ==
    IF a = None THEN Failure("missing_action")
    ELSE IF a.over \cap Decisions # {} \/ Unsafe(a.reason) THEN Failure("invalid_action")
    ELSE [error |-> None, proposal |-> None, action |-> [a EXCEPT !.reason = Clamped(@)]]

\* parse_model_proposal: an envelope or the bare action, never both
ParseProposal(c) ==
    LET e == c.envelope
    IN IF e = None THEN ParseAction(c.action)
       ELSE IF c.action # None THEN Failure("unexpected_format")
       ELSE IF e.kind \notin {"ACTION", "ANSWER", "PARTIAL", "NEEDS_INFORMATION", "CANNOT_VERIFY"}
         THEN Failure("unknown_proposal_kind")
       ELSE IF e.reason = "none" THEN Failure("missing_action")
       ELSE IF Unsafe(e.reason) THEN Failure("invalid_action")
       ELSE IF Over(e.reason) THEN Failure("unexpected_format")
       ELSE IF e.kind = "ACTION"
         THEN IF e.action = None THEN Failure("missing_action")
              ELSE ParseAction([e.action EXCEPT !.reason = IF @ = "none" THEN e.reason ELSE @])
       ELSE IF Unsafe(e.answer) \/ Unsafe(e.question) THEN Failure("invalid_action")
       ELSE IF e.kind = "ANSWER" /\ e.answer = "none" THEN Failure("missing_action")
       ELSE IF e.action # None THEN Failure("unknown_proposal_kind")
       ELSE [error |-> None, action |-> None, proposal |-> e]

\* assert_model_action_applicable; an unknown kind is left to the schema
Applicable(a) ==
    a.kind \in Kinds =>
       /\ a.has \subseteq Fields[a.kind]
       /\ Needed(a.kind) \subseteq a.has
       /\ a.wrong \cap {"direction", "amount"} = {}

\* BrowserActionModel, for the model's action and for each one of the history:
\* only what was told about its effect excuses a history entry its input
FitsSchema(a, effect) ==
    /\ a.kind \in Kinds
    /\ a.has \subseteq Fields[a.kind]
    /\ Needed(a.kind) \ (IF effect = None THEN {} ELSE {"text", "option"}) \subseteq a.has
    /\ a.wrong \ {"target"} = {} /\ a.over \cap {"text", "option"} = {}
    /\ a.private = {}
    /\ ~Unsafe(a.reason) /\ ~Over(a.reason)

\* generate_action: what the backend answers
Reply(c) ==
    LET p == ParseProposal(c)
    IN IF p.error # None \/ p.proposal # None THEN p
       ELSE IF ~Applicable(p.action) THEN Failure("model_contract")
       ELSE IF ~FitsSchema(p.action, None) THEN Failure("invalid_action")
       ELSE IF "target" \in p.action.wrong THEN Failure("unknown_target")
       ELSE p

-----------------------------------------------------------------------------
(* The extension's reading of the answer.                                  *)

\* validateProviderAction
TakesAction(a) ==
    /\ a.kind \in Kinds /\ a.has \subseteq Fields[a.kind] /\ Needed(a.kind) \subseteq a.has
    /\ a.wrong \cap {"direction", "amount", "key", "url"} = {} /\ a.over = {}
    /\ ~OverInUnits(a.reason)

\* validateStepApplicability
TakesProposal(e) ==
    /\ e.kind \in {"ANSWER", "PARTIAL"} => e.answer # "none"
    /\ e.kind = "NEEDS_INFORMATION" => e.question # "none" \/ e.missing

\* validateProviderStep and validateProviderResponse
Takes(r) ==
    /\ r.error = None
    /\ IF r.action # None THEN TakesAction(r.action) ELSE TakesProposal(r.proposal)

-----------------------------------------------------------------------------
(* What the loop records, and what of it is told.                          *)

\* recordStep, by the place that calls it: was the action allowed, did it run,
\* which effect was read, and in which words the place gives its reason; the
\* safety review's are a model's.  Places after which the run ends are left out.
Place(allowed, ran, effect, words) ==
    [allowed |-> allowed, ran |-> ran, effect |-> effect, words |-> words]
Places ==
    [gate |-> Place(FALSE, FALSE, None, "verdict"),
     critic |-> Place(FALSE, FALSE, None, "titled"),
     review |-> Place(FALSE, FALSE, None, "verdict"),
     reviewAtLength |-> Place(FALSE, FALSE, None, "long"),
     execution |-> Place(TRUE, FALSE, None, "verdict"),
     unread |-> Place(TRUE, FALSE, "EFFECT_UNVERIFIABLE", "verdict"),
     unmoved |-> Place(TRUE, FALSE, "ACTION_NO_EFFECT", "verdict"),
     success |-> Place(TRUE, TRUE, "EFFECT_OBSERVED", "verdict")]

\* classifyDispatchStatus
Dispatch(s) ==
    IF ~s.allowed THEN "POLICY_BLOCKED" ELSE IF ~s.ran THEN "EXECUTION_FAILED" ELSE "DISPATCHED"

\* classifyEffectStatus
Effect(s) ==
    CASE ~s.allowed -> "NOT_APPLICABLE"
      [] s.allowed /\ s.effect = "ACTION_NO_EFFECT" -> "NO_EFFECT"
      [] s.allowed /\ s.effect = "EFFECT_OBSERVED" -> "EFFECT_VERIFIED"
      [] OTHER -> "EFFECT_UNVERIFIABLE"

\* a build that sends the reason of a step along with it
WireKeepsReason(k, s) == [of |-> k, action |-> s.action, effect |-> Effect(s)]

\* buildActionHistoryEntry and toWireAction: the words of the place that failed
\* stand where the model's reason stood; "of", which is not sent, is the number
\* of the recorded step the entry is built from
Wire(k, s) ==
    [of |-> k,
     action |-> [s.action EXCEPT !.reason = IF Dispatch(s) = "DISPATCHED" THEN @ ELSE s.words],
     effect |-> Effect(s)]

\* conformsToHistoryContract
Conforms(w) == Needed(w.action.kind) \subseteq w.action.has \cup {"direction", "amount"}

History(steps) ==
    LET all == [i \in DOMAIN steps |-> Wire(i, steps[i])]
    IN Among(all, {w \in Range(all) : Conforms(w)})

\* sanitizeRetainedAction: what was typed or chosen is not kept
Retained(a) == [a EXCEPT !.has = @ \ {"text", "option"}]

-----------------------------------------------------------------------------
(* The declared destination.                                               *)

\* the addresses in the text of the task that is sent, which ends with a line
\* on the selection of the conversation
Attested == wTyped \cup (IF wReference = None THEN {} ELSE {wReference})

\* validate_declared_destination, unless a marker stands elsewhere
Declared(d) ==
    IF d = None \/ d.stray THEN None
    ELSE IF d.provenance # "USER" \/ d.extra \/ ~d.rolesKnown THEN None
    ELSE IF ~(d.urls \subseteq Attested) THEN None
    ELSE IF ~d.role /\ d.urls = {} THEN None
    ELSE d

-----------------------------------------------------------------------------
\* What the model may say has the parts a completion has, and no name of a
\* failure or of an effect is the absent value.
ASSUME WireAssumption ==
    /\ \A c \in Completions :
          /\ c.action \in Actions \cup {None}
          /\ c.envelope # None => /\ c.envelope.reason \in Texts
                                  /\ c.envelope.action \in Actions \cup {None}
    /\ None \notin Failures \cup {"EFFECT_OBSERVED", "ACTION_NO_EFFECT"}

WireInit ==
    /\ wTyped \in SUBSET Urls /\ wReference \in Urls \cup {None}
    /\ wSteps = <<>> /\ wProposed = None /\ wPrompt = None /\ wHeard = None /\ wAt = "ask"

\* requestActionWithBoundedRetry and generate_action: one entry of the history
\* that does not fit refuses the request
Ask(d) ==
    /\ wAt = "ask"
    /\ LET told == History(wSteps)
           fits == \A i \in DOMAIN told : FitsSchema(told[i].action, told[i].effect)
       IN /\ wAt' = IF fits THEN "model" ELSE "refused"
          /\ wPrompt' = IF fits THEN [history |-> told, declared |-> Declared(d)] ELSE None
    /\ wHeard' = None
    /\ UNCHANGED <<wTyped, wReference, wSteps, wProposed>>

\* the model says c, the backend answers, the extension takes it or not
Answered(c) ==
    /\ wAt = "model"
    /\ wHeard' = c
    /\ LET r == Reply(c)
       IN /\ wAt' = IF ~Takes(r) THEN "failed" ELSE IF r.action # None THEN "judge" ELSE "ask"
          /\ wProposed' = IF Takes(r) /\ r.action # None THEN r.action ELSE None
    /\ UNCHANGED <<wTyped, wReference, wSteps, wPrompt>>

\* the loop judges and perhaps does the action, and records the step
Record(place) ==
    /\ wAt = "judge" /\ Len(wSteps) < MaxSteps
    /\ wSteps' = Append(wSteps,
          [allowed |-> Places[place].allowed, ran |-> Places[place].ran,
           effect |-> Places[place].effect, words |-> Places[place].words,
           action |-> Retained(wProposed)])
    /\ wProposed' = None /\ wAt' = "ask"
    /\ UNCHANGED <<wTyped, wReference, wPrompt, wHeard>>

WireNext ==
    \/ \E d \in Declarations \cup {None} : Ask(d)
    \/ \E c \in Completions : Answered(c)
    \/ \E place \in DOMAIN Places : Record(place)

WireSpec == WireInit /\ [][WireNext]_wireVars

-----------------------------------------------------------------------------
(* Properties.                                                             *)

\* What the model said of itself was scanned as it said it before any of it was
\* cut: nothing behind the bound escapes the scan by being cut off after, or is
\* kept because it was cut off before.
ScannedWhole ==
    wHeard # None /\ wAt \in {"judge", "ask"} =>
       /\ wHeard.envelope # None => ~Unsafe(wHeard.envelope.reason)
       /\ wHeard.action # None => ~Unsafe(wHeard.action.reason)
       /\ wHeard.envelope # None /\ wHeard.envelope.action # None =>
             ~Unsafe(wHeard.envelope.action.reason)

\* Each entry of the history tells of one recorded step, the later of the later:
\* it names that step's action, in any words but the loop's, or with a verified
\* effect, only if that very step ran.  A refusal never comes back to the model as
\* something it did, not even when the like was done before or after it.
ToldTruthfully ==
    wPrompt # None =>
       \A i \in DOMAIN wPrompt.history :
          LET w == wPrompt.history[i]
          IN /\ w.of \in DOMAIN wSteps
             /\ w.action.kind = wSteps[w.of].action.kind
             /\ w.action.reason # "verdict" \/ w.effect = "EFFECT_VERIFIED" => wSteps[w.of].ran
             /\ \A j \in 1 .. i - 1 : wPrompt.history[j].of < w.of

\* No request of the loop is refused for what its history holds.
HistoryAccepted == wAt # "refused"
=============================================================================
