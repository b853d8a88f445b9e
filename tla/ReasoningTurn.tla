--------------------------- MODULE ReasoningTurn ---------------------------
(***************************************************************************)
(* One reasoning turn of a run, end to end: AgentLoop asks for a step with *)
(* a bounded number of attempts, ModelRouter picks the model's role,       *)
(* BackendAgentProvider posts to the local backend and reads its answer,   *)
(* the backend's reasoner talks to a model provider, with its own waits,   *)
(* format retries and fallback, and the route turns what came of it into   *)
(* an HTTP reply the client classifies again.                              *)
(*                                                                         *)
(* Time is a count of units.  The client's timers and the server's timers  *)
(* run down together and are urgent: no unit passes while one is due.  A   *)
(* request the client has given up stays with the server, which serves one *)
(* request at a time (an async route that blocks in httpx) and is never    *)
(* told that nobody waits for the answer.                                  *)
(*                                                                         *)
(* Of a model's answer the model keeps how it was judged; which providers  *)
(* are configured and what they answer is free.                            *)
(***************************************************************************)
EXTENDS Absent, Integers, Sequences

CONSTANTS
    Classes,         \* the task classes that occur
    MaxTurns,        \* bound on the turns of the run
    ProviderRetries, \* providerRetries (2)
    AttemptTime,     \* the race against one attempt (55 s)
    MaxHonoured,     \* MAX_HONOURED_RETRY_AFTER_MS (30 s)
    Hints,           \* the Retry-After values providers send
    PostTime,        \* the timeout of one request to a model provider (30 s)
    SleepTime,       \* the longest wait of the reasoner for a rate limit (15 s)
    LimitRetries,    \* per provider: how often a rate limit is tried again
    Formats,         \* per provider: how often another response format is tried
    HasFallback      \* REASONER_FALLBACK_PROVIDER names another provider

Providers == {"PRIMARY", "FALLBACK"}

ASSUME ReasoningAssumption ==
    /\ Classes \subseteq {"INFORMATION", "INTERACTIVE", "UNKNOWN"}
    /\ {MaxTurns, ProviderRetries, AttemptTime, MaxHonoured, PostTime, SleepTime} \subseteq Nat
    /\ Hints \subseteq Nat
    /\ LimitRetries \in [Providers -> Nat]
    /\ Formats \in [Providers -> Nat]
    /\ HasFallback \in BOOLEAN

VARIABLES
    class,    \* providerTaskClassFor(intentDecision)
    turn,     \* the cycle the run is in
    owned,    \* owns(token)
    pc,       \* where requestActionWithBoundedRetry is
    attempt,  \* its attempt counter
    left,     \* what is left of the running client timer
    silence,  \* history: time since the last progress message
    reply,    \* the reply whose body is being read
    result,   \* what the turn came to
    cause,    \* history: why the last attempt failed
    escalation, \* ModelRouter.currentEscalation
    role,     \* ModelRouter.previousRole
    needs,    \* what the task and the page ask of the model, in this turn
    server,   \* the request being served, or None
    queue     \* the requests waiting for the server

clock == <<left, silence>>
router == <<escalation, role, needs>>
backend == <<server, queue>>
call == <<reply, result, cause>>
vars == <<class, turn, owned, pc, attempt, clock, call, router, backend>>

Request == <<turn, attempt>>

-----------------------------------------------------------------------------
(* What the backend answers.                                               *)

\* the kinds of ReasoningError; "unusable" stands for _MODEL_CONTRACT_KINDS
ReasonerFailures ==
    {"rate_limit", "timeout", "network", "auth", "not_configured",
     "http_client_error", "http_server_error", "unusable", "unknown_proposal_kind"}
MayFallBack == {"rate_limit", "timeout", "network", "not_configured", "http_server_error"}
\* what the error of a reply may be named; one that has no name has None
ErrorNames == ReasonerFailures \cup {"model_contract", "invalid_action", "unknown_target"}
ASSUME NamesAssumption == None \notin ErrorNames

\* how the route judges an answer the reasoner could parse
Judgements ==
    {"action", "proposal", "bad_proposal", "inapplicable", "malformed",
     "policy", "unknown_target", "crash"}

Answer(status, kind, retryable, hint, why) ==
    [status |-> status, kind |-> kind, retryable |-> retryable, hint |-> hint, why |-> why]

FailureReplyFlag(failure, hint) ==  \* the route reports the reasoner's flag
    Answer(IF failure = "unusable" THEN 502 ELSE 503,
           IF failure = "unusable" THEN "model_contract" ELSE failure,
           failure \in {"timeout", "network", "http_server_error", "unusable", "not_configured",
                        "unknown_proposal_kind"},
           IF failure = "rate_limit" THEN hint ELSE None, failure)

FailureReply(failure, hint) ==
    LET limited == failure = "rate_limit" /\ hint # None
    IN  Answer(IF failure = "unusable" THEN 502 ELSE 503,
               IF failure = "unusable" THEN "model_contract" ELSE failure,
               limited,
               IF failure = "rate_limit" THEN hint ELSE None,
               IF failure = "rate_limit" /\ ~limited THEN "rate_limit_without_hint" ELSE failure)

FallbackFailureReply(first, hint, second) ==
    LET limited == first = "rate_limit" /\ hint # None
    IN  Answer(503, IF limited THEN "rate_limit" ELSE second, limited,
               IF first = "rate_limit" THEN hint ELSE None,
               IF limited THEN "rate_limit" ELSE second)

JudgementReply(judgement) ==
    CASE judgement \in {"action", "proposal"} -> Answer(200, None, FALSE, None, judgement)
      [] judgement = "inapplicable" -> Answer(502, "model_contract", FALSE, None, judgement)
      [] judgement \in {"bad_proposal", "policy"} -> Answer(502, "invalid_action", FALSE, None, judgement)
      [] judgement = "malformed" -> Answer(502, "invalid_action", TRUE, None, judgement)
      [] judgement = "unknown_target" -> Answer(422, "unknown_target", TRUE, None, judgement)
      [] judgement = "crash" -> Answer(500, None, FALSE, None, judgement)

BadRequestReply == Answer(422, None, FALSE, None, "bad_request")

-----------------------------------------------------------------------------
(* How the client classifies it.                                           *)

ErrorKind(r) ==
    CASE r.kind \in {"auth", "rate_limit", "timeout", "network", "model_contract"} -> r.kind
      [] r.kind = "not_configured" -> "auth"
      [] OTHER -> "http_error"

ParseRetryAfterUnclamped(hint) == hint

ParseRetryAfter(hint) ==
    IF hint = None THEN None ELSE IF hint > MaxHonoured THEN MaxHonoured ELSE hint

Category(kind, status) ==
    CASE kind = "timeout" -> "TIMEOUT"
      [] kind = "network" -> "NETWORK_FAILURE"
      [] kind = "rate_limit" -> "HTTP_429_RATE_LIMIT"
      [] kind = "auth" -> "HTTP_401_403"
      [] kind = "model_contract" -> "MODEL_CONTRACT"
      [] kind = "invalid_json" -> "INVALID_JSON"
      [] kind = "http_error" /\ status >= 500 -> "HTTP_5XX"
      [] OTHER -> "HTTP_4XX"

ProviderError(kind, status, retryable, hint) ==
    [category |-> Category(kind, status), retryable |-> retryable, hint |-> hint]

ParseError(r) ==
    LET kind == ErrorKind(r)
        hint == ParseRetryAfter(r.hint)
        retryable == CASE kind = "rate_limit" -> hint # None
                       [] kind # "rate_limit" /\ r.kind = None /\ r.status >= 500 -> TRUE
                       [] OTHER -> r.retryable
    IN  ProviderError(kind, r.status, retryable, hint)

NeverRetry == {"INVALID_JSON", "MODEL_CONTRACT", "HTTP_401_403"}
Transient == {"NETWORK_FAILURE", "TIMEOUT", "HTTP_5XX", "HTTP_429_RATE_LIMIT"}

IsTransient(e) ==
    CASE e.category = "HTTP_429_RATE_LIMIT" -> e.hint # None
      [] e.category \in NeverRetry -> FALSE
      [] e.category \in Transient \ {"HTTP_429_RATE_LIMIT"} -> TRUE
      [] OTHER -> e.retryable

TransientBudget(c) == IF c = "INFORMATION" THEN 1 ELSE 2
DeterministicBudget(c) == IF c = "INFORMATION" THEN 0 ELSE 1

RetryBudget(e) ==
    LET budget == IF IsTransient(e) THEN TransientBudget(class)
                  ELSE IF e.category = "HTTP_429_RATE_LIMIT" THEN 0
                  ELSE DeterministicBudget(class)
    IN  IF budget < ProviderRetries THEN budget ELSE ProviderRetries

-----------------------------------------------------------------------------
(* The router.                                                             *)

RegisterFailure == escalation' = IF escalation < 2 THEN escalation + 1 ELSE escalation

\* DEMANDING: a complex task, a large page or a long history; VISUAL: a task
\* or a page that must be looked at
Needs == {"SIMPLE", "DEMANDING", "VISUAL"}

RoleFor(need) ==
    IF escalation >= 2 \/ need = "VISUAL" THEN "VISION"
    ELSE IF escalation >= 1 \/ need = "DEMANDING" THEN "STRONG" ELSE "FAST"

-----------------------------------------------------------------------------
Init ==
    /\ class \in Classes
    /\ turn = 1
    /\ owned = TRUE
    /\ pc = "PLANNING"
    /\ attempt = 0
    /\ left = 0 /\ silence = 0
    /\ reply = None /\ result = None /\ cause = None
    /\ escalation = 0 /\ role = None /\ needs = "SIMPLE"
    /\ server = None /\ queue = <<>>

\* one request to the provider: routed, posted, both timers started
Ask(number, need) ==
    /\ pc' = "WAITING"
    /\ attempt' = number
    /\ left' = AttemptTime
    /\ role' = RoleFor(need)
    /\ needs' = need
    /\ queue' = Append(queue, <<turn, number>>)

StartTurn ==
    /\ pc = "PLANNING" /\ owned
    /\ \E need \in Needs : Ask(0, need)
    /\ UNCHANGED <<class, turn, owned, silence, call, escalation, server>>

\* the turn ends with `outcome`, whatever was still under way
Return(outcome) ==
    /\ pc' = "RETURNED"
    /\ result' = outcome
    /\ UNCHANGED <<attempt, clock>>

\* the catch block: register, then retry within the budget or give up
Fail(e, why) ==
    /\ RegisterFailure
    /\ reply' = None
    /\ IF e.retryable /\ attempt < RetryBudget(e)
       THEN /\ pc' = "BACKOFF"
            /\ attempt' = attempt + 1
            /\ left' = IF e.hint = None THEN 0 ELSE e.hint
            /\ cause' = why
            /\ UNCHANGED <<silence, result>>
       ELSE Return("PROVIDER_UNAVAILABLE") /\ cause' = None
    /\ UNCHANGED <<class, turn, owned, role, needs>>

BodyArrives ==
    /\ pc = "READING" /\ left > 0
    /\ IF reply.status # 200
       THEN Fail(ParseError(reply), reply.why) /\ UNCHANGED backend
       ELSE IF ~owned
       THEN /\ Return("STOPPED")
            /\ reply' = None
            /\ UNCHANGED <<class, turn, owned, cause, router, backend>>
       ELSE IF reply.why = "action"
       THEN /\ Return("ACTION")
            /\ reply' = None
            /\ UNCHANGED <<class, turn, owned, cause, router, backend>>
       ELSE \* TerminalProposalSignal passes through the catch block
            /\ \E accepted \in BOOLEAN : Return(IF accepted THEN "TERMINAL" ELSE "CONTINUE")
            /\ RegisterFailure
            /\ reply' = None
            /\ UNCHANGED <<class, turn, owned, cause, role, needs, backend>>

\* the body is cut short: of an error reply the status remains, of a step nothing
BodyGarbled ==
    /\ pc = "READING" /\ left > 0
    /\ Fail(IF reply.status = 200 THEN ProviderError("invalid_json", 200, FALSE, None)
            ELSE ParseError([reply EXCEPT !.kind = None, !.retryable = FALSE]),
            IF reply.status = 200 THEN "unreadable" ELSE "garbled")
    /\ UNCHANGED backend

RaceCoversHeaders ==  \* the timer is cleared with the headers
    /\ pc = "WAITING" /\ left = 0
    /\ Fail(ProviderError("timeout", 0, TRUE, None), "timed_out")
    /\ UNCHANGED backend

RaceTimesOut ==
    /\ pc \in {"WAITING", "READING"} /\ left = 0
    /\ Fail(ProviderError("timeout", 0, TRUE, None), "timed_out")
    /\ UNCHANGED backend

\* the connection fails; a request the server has not taken is gone
NetworkFails ==
    /\ pc = "WAITING" /\ left > 0
    /\ Fail(ProviderError("network", 0, TRUE, None), "unreachable")
    /\ queue' = SelectSeq(queue, LAMBDA r : r # Request)
    /\ UNCHANGED server

\* the delay is over: ownership is checked, progress reported, the next attempt made
BackoffEnds ==
    /\ pc = "BACKOFF" /\ left = 0
    /\ IF owned
       THEN /\ Ask(attempt, needs)
            /\ silence' = 0
            /\ UNCHANGED result
       ELSE /\ Return("STOPPED")
            /\ UNCHANGED <<role, needs, queue>>
    /\ cause' = None
    /\ UNCHANGED <<class, turn, owned, reply, escalation, server>>

\* stop(): nothing in flight is aborted
Cancel ==
    /\ owned /\ pc # "OVER"
    /\ owned' = FALSE
    /\ UNCHANGED <<class, turn, pc, attempt, clock, call, router, backend>>

\* what the cycle does with the step: a gate refuses it, or it is dispatched
FinishCycle ==
    /\ pc = "RETURNED"
    /\ IF owned /\ result \in {"ACTION", "CONTINUE"} /\ turn < MaxTurns
       THEN /\ turn' = turn + 1
            /\ pc' = "PLANNING"
            /\ \/ UNCHANGED router  \* nothing dispatched, nothing refused by a gate
               \/ result = "ACTION" /\ RegisterFailure /\ UNCHANGED <<role, needs>>
               \/ result = "ACTION" /\ escalation' = 0 /\ role' = None /\ UNCHANGED needs
       ELSE pc' = "OVER" /\ UNCHANGED <<turn, router>>
    /\ attempt' = 0
    /\ left' = 0 /\ silence' = 0
    /\ result' = IF pc' = "OVER" THEN result ELSE None
    /\ UNCHANGED <<class, owned, reply, cause, backend>>

\* the cycle finds the run stopped before it asks for anything
StopBeforeAsking ==
    /\ pc = "PLANNING" /\ ~owned
    /\ pc' = "OVER"
    /\ result' = "STOPPED"
    /\ UNCHANGED <<class, turn, owned, attempt, clock, reply, cause, router, backend>>

-----------------------------------------------------------------------------
(* The backend.                                                            *)

client == <<class, turn, owned, attempt, router, result, cause>>

Serving(provider, first, hint) ==
    [provider |-> provider, tries |-> 0, format |-> 0, phase |-> "POSTING",
     left |-> PostTime, first |-> first, hint |-> hint]

ServerTakes ==
    /\ server = None /\ queue # <<>>
    /\ server' = [req |-> Head(queue), work |-> Serving("PRIMARY", None, None)]
    /\ queue' = Tail(queue)
    /\ UNCHANGED <<client, pc, clock, reply>>

\* the headers reach the client if it still waits for this request
Send(r) ==
    /\ server' = None
    /\ IF pc = "WAITING" /\ server.req = Request
       THEN pc' = "READING" /\ reply' = r
       ELSE UNCHANGED <<pc, reply>>
    /\ UNCHANGED <<client, clock, queue>>

Work(w) == server' = [server EXCEPT !.work = w] /\ UNCHANGED <<client, pc, clock, reply, queue>>

\* the reasoner gives up: fall back, or report
ReasonerFails(failure, hint) ==
    LET w == server.work IN
    IF w.provider = "PRIMARY" /\ HasFallback /\ failure \in MayFallBack
    THEN Work(Serving("FALLBACK", failure, hint))
    ELSE Send(IF w.provider = "PRIMARY" THEN FailureReply(failure, hint)
              ELSE FallbackFailureReply(w.first, w.hint, failure))

Posting == server # None /\ server.work.phase = "POSTING"

RequestRefused == Posting /\ server.work.provider = "PRIMARY" /\ Send(BadRequestReply)

ModelAnswers ==
    /\ Posting
    /\ \E judgement \in Judgements : Send(JudgementReply(judgement))

\* one request to the provider fails; while another format is tried a failure
\* is swallowed and counts as the refusal of the format before it
PostFails ==
    /\ Posting
    /\ \E failure \in ReasonerFailures \ {"rate_limit", "timeout"} :
          IF server.work.format > 0 /\ failure = "network"
          THEN ReasonerFails("http_client_error", None)
          ELSE ReasonerFails(failure, None)

FormatRefused ==
    /\ Posting
    /\ server.work.format < Formats[server.work.provider]
    /\ Work([server.work EXCEPT !.format = @ + 1, !.left = PostTime])

PostTimesOut ==
    /\ Posting /\ server.work.left = 0
    /\ IF server.work.format > 0
       THEN ReasonerFails("http_client_error", None)
       ELSE ReasonerFails("timeout", None)

\* 429: a short wait is slept out, for a long one another model is asked, and
\* without a wait, or after the last try, the limit is reported
RateLimited ==
    /\ Posting
    /\ LET w == server.work
           again == [w EXCEPT !.tries = @ + 1, !.format = 0] IN
       \/ /\ w.tries < LimitRetries[w.provider]
          /\ \/ Work([again EXCEPT !.phase = "SLEEPING", !.left = SleepTime])
             \/ Work([again EXCEPT !.left = PostTime])
       \/ \E hint \in Hints \union {None} : ReasonerFails("rate_limit", hint)

SleepEnds ==
    /\ server # None /\ server.work.phase = "SLEEPING" /\ server.work.left = 0
    /\ Work([server.work EXCEPT !.phase = "POSTING", !.left = PostTime])

-----------------------------------------------------------------------------
Running == pc \in {"WAITING", "READING", "BACKOFF"}

Tick ==
    /\ Running \/ server # None
    /\ Running => left > 0
    /\ server # None => server.work.left > 0
    /\ left' = IF Running THEN left - 1 ELSE left
    /\ silence' = IF Running THEN silence + 1 ELSE silence
    /\ server' = IF server = None THEN None ELSE [server EXCEPT !.work.left = @ - 1]
    /\ UNCHANGED <<class, turn, owned, pc, attempt, call, router, queue>>

Next ==
    \/ StartTurn \/ BodyArrives \/ BodyGarbled \/ RaceTimesOut \/ NetworkFails
    \/ BackoffEnds \/ Cancel \/ FinishCycle \/ StopBeforeAsking
    \/ ServerTakes \/ RequestRefused \/ ModelAnswers \/ PostFails \/ FormatRefused
    \/ PostTimesOut \/ RateLimited \/ SleepEnds \/ Tick

\* time passes, timers fire, and a cycle goes on; providers owe no answer
Fairness ==
    /\ WF_vars(Tick)
    /\ WF_vars(RaceTimesOut)
    /\ WF_vars(BackoffEnds)
    /\ WF_vars(ServerTakes)
    /\ WF_vars(PostTimesOut)
    /\ WF_vars(SleepEnds)
    /\ WF_vars(StartTurn \/ StopBeforeAsking \/ FinishCycle)

Spec == Init /\ [][Next]_vars /\ Fairness

-----------------------------------------------------------------------------
(* Properties.                                                             *)

Causes ==
    (ReasonerFailures \union Judgements \union
     {"bad_request", "unreadable", "garbled", "timed_out", "unreachable",
      "rate_limit_without_hint"}) \ {"action"}

\* Every variable is in its domain: the type invariant.
TypeOK ==
    /\ class \in Classes
    /\ turn \in 1..(MaxTurns + 1)
    /\ owned \in BOOLEAN
    /\ pc \in {"PLANNING", "WAITING", "READING", "BACKOFF", "RETURNED", "OVER"}
    /\ attempt \in Nat /\ left \in Nat /\ silence \in Nat
    /\ reply # None <=> pc = "READING"
    /\ pc = "RETURNED" => result # None
    /\ cause \in Causes \union {None}
    /\ escalation \in 0..2
    /\ role \in {"FAST", "STRONG", "VISION", None}
    /\ needs \in Needs
    /\ server # None =>
          /\ server.req \in Nat \X Nat
          /\ server.work.left \in 0..(IF PostTime > SleepTime THEN PostTime ELSE SleepTime)
    /\ queue \in Seq(Nat \X Nat)

\* What the same question cannot change, by the cause on the server: it is
\* never asked again, through the route's report (agent.py), the client's
\* classification of it (parseError) and the retry budget.  The malformed
\* action and the unknown target are the two refusals the route itself calls
\* retryable.
RetryOnlyWhatMayChange ==
    pc = "BACKOFF" =>
        cause \notin {"bad_request", "auth", "not_configured", "unusable",
                      "unknown_proposal_kind", "inapplicable", "policy",
                      "bad_proposal", "unreadable", "rate_limit_without_hint"}

\* Between two progress messages of a turn no more time passes than one
\* attempt and one back-off, whether the server is silent, answers late or
\* stalls in the body: it is what the dashboard's watchdog must outlast.
SilenceBounded == silence <= AttemptTime + MaxHonoured

\* Every turn comes to an end, also when no provider ever answers and the
\* body of a reply never arrives.
TurnSettles == Running ~> ~Running

-----------------------------------------------------------------------------
(* What the repository says and the code does not do.                      *)

\* agentLoop.ts says a cancelled run is no provider failure: "no retry, no
\* failure registration".
CancelledIsNotAFailure ==
    [][(~owned /\ pc \in {"WAITING", "READING"}) => escalation' = escalation]_vars

=============================================================================
