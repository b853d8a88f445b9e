---------------------------- MODULE GoalVerdict ----------------------------
(***************************************************************************)
(* Whether the task is done: verifyTaskGoal with the rules it tries in     *)
(* order, the plan rule behind them (goalProgressTracker and               *)
(* destinationVerifier), and what AgentLoop keeps between the readings of  *)
(* a page that the rules look at: the addresses of its steps, the first    *)
(* scroll position, the type of the page, the products it listed.          *)
(*                                                                         *)
(* A text is the set of what the rules look for in it: a goal is the words *)
(* it says, an address its traits, a detection its mark.  The address {}   *)
(* is the empty string.  None is a field that is absent.                   *)
(***************************************************************************)
EXTENDS Absent, Integers, Sequences, FiniteSets, SequencesExt, FiniteSetsExt

CONSTANTS
    Tasks,     \* what the user asks: a goal and the subgoals made of it
    Contexts,  \* what perceivePage may return
    Requests,  \* the addresses a step may have asked for
    MaxLooks   \* bound on the readings of the run

\* the fields of an AgentContext that the rules look at
IsReading(c) ==
    c = [url |-> c.url, model |-> c.model, marks |-> c.marks, offers |-> c.offers,
         facts |-> c.facts, fresh |-> c.fresh, items |-> c.items, scroll |-> c.scroll,
         observable |-> c.observable, ocr |-> c.ocr, verified |-> c.verified]

ASSUME ReadingsAssumption == \A c \in Contexts : IsReading(c)

VARIABLES
    goal,     \* the task
    plan,     \* its subgoals, by number
    context,  \* the last reading of the page
    prior,    \* previousObservation: the reading before it
    mem,      \* what the loop keeps of all readings
    steps,    \* state.steps: where each was taken and what it asked for
    seen,     \* history: the addresses and the positions that were read
    sat,      \* what isTaskGoalSatisfied last said
    goalAt,   \* "look" at the page, "judge" it, "act", "end"
    looks     \* how often the page was read

goalVars ==
    <<goal, plan, context, prior, mem, steps, seen, sat, goalAt, looks>>

-----------------------------------------------------------------------------
(* The rules of verifyTaskGoal.  g: the goal, c: the context, m: mem       *)

says(g, word) == word \in g.words

\* const currentUrl = context.url || state.currentUrl
Url(c, m) == IF c.url # {} THEN c.url ELSE m.url

\* verifyCandidateAgainstConstraints: what is not known does not fit
Fits(item, g) ==
    /\ g.maxPrice => item.price = "within"
    /\ g.traits \subseteq item.traits

\* extractCandidatesFromContext, and what state.candidateItems becomes
Candidates(g, c) == {[fits |-> Fits(item, g)] : item \in c.items}
Items(g, c, m) == IF c.items # {} THEN Candidates(g, c) ELSE m.items

\* selectReportedFact: a fact with a value before one without
Evidence(c) == SelectSeq(c.facts, LAMBDA f : ~f.untrusted)
Named(g, c) == SelectSeq(Evidence(c), LAMBDA f : f.key \in g.keys)
Reported(g, c) ==
    LET valued == SelectSeq(Named(g, c), LAMBDA f : f.value # None)
    IN IF valued # <<>> THEN Head(valued) ELSE Head(Named(g, c))

\* rule 2c: the only fact of its key in an observation of this page
FactShown(g, c) ==
    /\ c.fresh /\ c.facts # <<>>
    /\ Named(g, c) # <<>>
    /\ Len(SelectSeq(Evidence(c), LAMBDA f : f.key = Reported(g, c).key)) = 1

ObservedUrlsAndAsked(c, m, past) ==
    ({Url(c, m)} \cup {s.url : s \in past} \cup {s.asked : s \in past}) \ {{}}

\* rule 2b: only where the steps were, not what they asked for
ObservedUrls(c, m, past) == ({Url(c, m)} \cup {s.url : s \in past}) \ {{}}

Researched(g, c, m, past) ==
    LET urls == ObservedUrls(c, m, past)
    IN /\ \A item \in g.research : \E u \in urls : item \in u
       /\ Cardinality(urls) >= Min({2, Cardinality(g.research)})

\* rule 2: a step was taken on a login page, and this page is none
LoggedIn(c, m, past) ==
    /\ \E s \in past : "login" \in s.url
    /\ Url(c, m) # {} /\ "login" \notin Url(c, m)

\* a price, size or colour in the task makes it a shopping task, as its words do
Shopping(g) == g.maxPrice \/ g.traits # {} \/ says(g, "shopping")

\* rule 3
Shopped(g, c, m) ==
    /\ [fits |-> TRUE] \in Items(g, c, m)
    /\ \/ Url(c, m) \cap {"results", "product", "search"} # {}
       \/ m.type \in {"results", "product_detail"}

\* verifyScrollGoal without the test of viewportObservable
ScrolledByDefault(g, c, m) ==
    /\ m.last # None
    /\ \/ /\ g.scroll.kind = "distance" /\ m.base # None
          /\ g.scroll.sign * (m.last - m.base) >= g.scroll.amount
       \/ /\ g.scroll.kind = "direction" /\ m.base # None
          /\ g.scroll.sign * (m.last - m.base) > 0
       \/ g.scroll.kind = "target" /\ "target in view" \in c.marks

\* verifyScrollGoal: the way from the first position to the last one read
Scrolled(g, c, m) ==
    /\ c.observable
    /\ m.last # None
    /\ \/ /\ g.scroll.kind = "distance" /\ m.base # None
          /\ g.scroll.sign * (m.last - m.base) >= g.scroll.amount
       \/ /\ g.scroll.kind = "direction" /\ m.base # None
          /\ g.scroll.sign * (m.last - m.base) > 0
       \/ g.scroll.kind = "target" /\ "target in view" \in c.marks

\* rule 6: recognised text of this tab and document, in time
Pictured(g, c) ==
    /\ c.ocr
    /\ \/ says(g, "phone") /\ "ocr phone" \in c.marks
       \/ says(g, "email") /\ "ocr email" \in c.marks
       \/ says(g, "heading") /\ ~says(g, "quoted") /\ "ocr text" \in c.marks
       \/ says(g, "quoted") /\ "ocr quoted" \in c.marks
       \/ says(g, "statement") /\ "ocr statement" \in c.marks

-----------------------------------------------------------------------------
(* destinationVerifier and goalProgressTracker.  d: a declaration, now:    *)
(* whether the classification is of the generation the run stands at.      *)

VerifyPageRole(d, model) ==
    CASE d.roles \ {"UNKNOWN", "ERROR"} = {} -> "UNKNOWN"
      [] ~model.now \/ ~model.sure \/ model.type = "UNKNOWN" -> "UNKNOWN"
      [] model.type \in d.roles \ {"UNKNOWN", "ERROR"} -> "MATCH"
      [] OTHER -> "MISMATCH"

VerifyUrl(d, model, url) ==
    CASE ~model.now \/ url = {} -> "UNKNOWN"
      [] model.type = "ERROR" -> "MISMATCH"
      [] url = d.url -> "MATCH"
      [] OTHER -> "MISMATCH"

\* one channel that contradicts decides, and only all of them confirm
VerifyDestination(d, model, url) ==
    LET channels == (IF d.roles # None THEN {VerifyPageRole(d, model)} ELSE {})
                    \cup (IF d.url # None THEN {VerifyUrl(d, model, url)} ELSE {})
    IN CASE d.kind # "DECLARED" \/ channels = {} -> "UNKNOWN"
         [] "MISMATCH" \in channels -> "MISMATCH"
         [] channels = {"MATCH"} -> "MATCH"
         [] OTHER -> "UNKNOWN"

\* verifySubgoalCondition; before: the reading the change is measured from
SubgoalProven(s, c, before) ==
    \/ s.cond = "URL_CONTAINS" /\ s.want # None /\ s.want \in c.url
    \/ s.cond = "ELEMENT_EXISTS" /\ s.want # None /\ s.want \in c.marks \cup c.offers
    \/ s.cond = "ELEMENT_TEXT_CONTAINS" /\ s.want # None /\ s.want \in c.marks
    \/ s.cond = "AFFORDANCE_AVAILABLE" /\ s.want # None /\ s.want \in c.offers
    \/ /\ s.cond = "STATE_CHANGED" /\ before # None
       /\ \/ before.url # c.url \/ before.scroll # c.scroll
          \/ Cardinality(before.marks) # Cardinality(c.marks)
    \/ /\ s.cond = "DESTINATION_VERIFIED" /\ s.dest.kind = "DECLARED"
       /\ c.model # None
       /\ VerifyDestination(s.dest, c.model, c.url) = "MATCH"

\* isOutstandingTaskRequirement
Requirement(s) ==
    /\ s.cond \notin {"DESTINATION_VERIFIED", "STATE_CHANGED"}
    /\ s.cond = "AFFORDANCE_AVAILABLE" => s.want # None

Destinations(p) ==
    {i \in DOMAIN p : p[i].cond = "DESTINATION_VERIFIED" /\ p[i].dest.kind = "DECLARED"}

\* verifyDeclaredDestinationGoal, where it answers at all
Arrived(p, c) ==
    \E i \in Destinations(p) :
       /\ Destinations(p) = {i}
       /\ p[i].state = "COMPLETED"
       /\ SubgoalProven(p[i], c, None)
       /\ \A k \in DOMAIN p \ {i} : p[k].state = "COMPLETED" \/ ~Requirement(p[k])

-----------------------------------------------------------------------------
(* The verdict.                                                            *)

\* the rules in the order verifyTaskGoal tries them, and whether one applies:
\* it then decides, whatever a later one would say
Order == <<"search", "google", "login", "research", "report", "shopping",
           "transactions", "account number", "scroll", "details", "picture",
           "destination">>

Applies(rule, g, p, c, m) ==
    CASE rule = "search" -> says(g, "search")
      [] rule = "google" -> says(g, "search for") /\ "google" \in Url(c, m)
      [] rule = "login" -> says(g, "login") /\ g.words \cap {"search", "search for"} = {}
      [] rule = "research" -> g.research # {}
      [] rule = "report" -> says(g, "report") /\ FactShown(g, c)
      [] rule = "shopping" -> Shopping(g)
      [] rule = "transactions" -> {"details", "transactions"} \subseteq g.words
      [] rule = "picture" -> says(g, "picture") /\ (~c.ocr \/ Pictured(g, c))
      [] rule = "destination" -> Destinations(p) # {}
      [] OTHER -> says(g, rule)

Holds(rule, g, p, c, m, past) ==
    CASE rule = "search" -> "query" \in Url(c, m)
      [] rule = "google" -> Url(c, m) \cap {"query", "q"} # {}
      [] rule = "login" -> LoggedIn(c, m, past)
      [] rule = "research" -> Researched(g, c, m, past)
      [] rule = "report" -> TRUE
      [] rule = "shopping" -> Shopped(g, c, m)
      [] rule = "transactions" -> "ledger" \in c.marks
      [] rule = "account number" -> FALSE
      [] rule = "scroll" -> Scrolled(g, c, m)
      [] rule = "details" -> "details" \in Url(c, m)
      [] rule = "picture" -> Pictured(g, c)
      [] rule = "destination" -> Arrived(p, c)

Deciding(g, p, c, m) == {i \in DOMAIN Order : Applies(Order[i], g, p, c, m)}

\* verifyTaskGoal: no rule is asked while evidence is owed
Satisfied(g, p, c, m, past) ==
    /\ g.needsEvidence => c.verified
    /\ Deciding(g, p, c, m) # {}
    /\ Holds(Order[Min(Deciding(g, p, c, m))], g, p, c, m, past)

\* whether the shopping branch is reached, which replaces the products
Shops(g, p, c, m) ==
    /\ g.needsEvidence => c.verified
    /\ Deciding(g, p, c, m) # {}
    /\ Order[Min(Deciding(g, p, c, m))] = "shopping"

-----------------------------------------------------------------------------
(* The loop.                                                               *)

\* state.pageType: the classifier's, else what the address looks like, once
PageType(c, m) ==
    CASE c.model # None /\ c.model.type # "UNKNOWN" -> c.model.type
      [] c.model = None /\ m.type # "unknown" -> m.type
      [] "results" \in Url(c, m) -> "results"
      [] "product" \in Url(c, m) -> "product_detail"
      [] OTHER -> "unknown"

\* what the loop keeps of a reading; a viewport nobody read says 0
Perceived(c, m) ==
    [m EXCEPT !.url = Url(c, m),
              !.base = IF @ = None THEN c.scroll ELSE @,
              !.last = c.scroll,
              !.type = PageType(c, m)]

GoalInit ==
    /\ \E t \in Tasks : goal = t.goal /\ plan = t.plan
    /\ context = None /\ prior = None
    /\ mem = [url |-> {}, base |-> None, last |-> None, type |-> "unknown", items |-> {}]
    /\ steps = {} /\ seen = [urls |-> {}, positions |-> {}]
    /\ sat = FALSE /\ goalAt = "look" /\ looks = 0

Perceive(c) ==
    /\ goalAt = "look" /\ looks < MaxLooks
    /\ context' = c /\ prior' = context
    /\ mem' = Perceived(c, mem)
    /\ seen' = [urls |-> seen.urls \cup {c.url},
                positions |-> seen.positions
                              \cup (IF c.observable THEN {c.scroll} ELSE {})]
    /\ goalAt' = "judge" /\ looks' = looks + 1
    /\ UNCHANGED <<goal, plan, steps, sat>>

\* a subgoal is completed behind verifySubgoalCondition only
Advance(i) ==
    /\ goalAt = "judge"
    /\ plan[i].state # "COMPLETED" /\ SubgoalProven(plan[i], context, prior)
    /\ plan' = [plan EXCEPT ![i].state = "COMPLETED"]
    /\ UNCHANGED <<goal, context, prior, mem, steps, seen, sat, goalAt, looks>>

\* isTaskGoalSatisfied, after an action that did not fail
Judge ==
    /\ goalAt = "judge"
    /\ sat' = Satisfied(goal, plan, context, mem, steps)
    /\ mem' = IF Shops(goal, plan, context, mem)
              THEN [mem EXCEPT !.items = Items(goal, context, mem)] ELSE mem
    /\ goalAt' = IF sat' THEN "end" ELSE "act"
    /\ UNCHANGED <<goal, plan, context, prior, steps, seen, looks>>

\* after an action that failed it says no before it looks
JudgeFailed ==
    /\ goalAt = "judge" /\ steps # {}
    /\ sat' = FALSE /\ goalAt' = "act"
    /\ UNCHANGED <<goal, plan, context, prior, mem, steps, seen, looks>>

\* recordStep: a step of the page it was decided on
Act(asked) ==
    /\ goalAt = "act"
    /\ steps' = steps \cup {[url |-> mem.url, asked |-> asked]}
    /\ goalAt' = "look"
    /\ UNCHANGED <<goal, plan, context, prior, mem, seen, sat, looks>>

GoalNext ==
    \/ \E c \in Contexts : Perceive(c)
    \/ \E i \in DOMAIN plan : Advance(i)
    \/ Judge
    \/ JudgeFailed
    \/ \E asked \in Requests : Act(asked)

GoalSpec == GoalInit /\ [][GoalNext]_goalVars

-----------------------------------------------------------------------------
(* Properties.                                                             *)

\* c without one kind of what perception may fail to deliver
Blanked(c) ==
    {[c EXCEPT !.model = None], [c EXCEPT !.facts = <<>>, !.fresh = FALSE],
     [c EXCEPT !.marks = {}], [c EXCEPT !.offers = {}], [c EXCEPT !.ocr = FALSE],
     [c EXCEPT !.scroll = 0, !.observable = FALSE],
     [c EXCEPT !.items = {}],
     [c EXCEPT !.items = {[i EXCEPT !.price = None] : i \in @}],
     [c EXCEPT !.items = {[i EXCEPT !.traits = {}] : i \in @}],
     [c EXCEPT !.verified = FALSE]}

\* What perception failed to deliver never makes a task done, or proves a
\* subgoal, that it would not have been with it: of every reading, whatever is
\* left out.  Not for shopping, which keeps products and the page's type of
\* earlier readings, and not for STATE_CHANGED, to which a viewport nobody
\* read is a change.
AbsenceProvesNothing ==
    [][looks' # looks => \A b \in Blanked(context') :
         /\ ~Shopping(goal) =>
               (Satisfied(goal, plan, b, Perceived(b, mem), steps)
                => Satisfied(goal, plan, context', mem', steps))
         /\ \A i \in DOMAIN plan : plan[i].cond # "STATE_CHANGED" =>
               (SubgoalProven(plan[i], b, context)
                => SubgoalProven(plan[i], context', context))]_goalVars

\* A research or login that is called done rests on addresses that were read
\* from the tab in this run, never on what a step asked for.
SuccessWasRead ==
    sat => CASE goal.research # {} /\ goal.words = {} ->
                   \A item \in goal.research : \E u \in seen.urls : item \in u
             [] goal.words = {"login"} -> \E u \in seen.urls : "login" \in u
             [] OTHER -> TRUE

-----------------------------------------------------------------------------
(* What the repository says and the code does not do.                      *)

\* A scroll that is called done was seen: two positions were read that far
\* apart.
ScrollWasSeen ==
    sat /\ goal.words = {"scroll"} /\ goal.scroll.kind # "target" =>
       \E a, b \in seen.positions : a # b

\* A product that is called found is on the page that is called its page.
ProductIsInView ==
    sat /\ goal.words = {"shopping"} => \E item \in context.items : Fits(item, goal)
=============================================================================
