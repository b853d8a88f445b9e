-------------------------- MODULE MCGoalVerdict --------------------------
(* GoalVerdict on a small instance: a goal for each rule and some that     *)
(* several rules could take, and pages that differ in what was read.       *)
EXTENDS GoalVerdict

Goal(words) ==
    [words |-> words, needsEvidence |-> FALSE, keys |-> {"price"}, research |-> {},
     maxPrice |-> FALSE, traits |-> {}, scroll |-> [kind |-> "direction", sign |-> 1, amount |-> 0]]

MCGoals ==
    {Goal({w}) : w \in {"search", "login", "report", "account number", "scroll", "details"}}
    \cup {Goal(ws) : ws \in {{"search for"}, {"details", "transactions"}, {"shopping"},
                             {"picture", "phone"}, {"picture", "quoted", "heading"},
                             {"picture", "email"}, {"picture", "heading"},
                             {"picture", "statement"}, {"report", "shopping"}, {}}}
    \cup {[Goal({"scroll"}) EXCEPT !.scroll = [kind |-> "distance", sign |-> 1, amount |-> 2]],
          [Goal({"scroll"}) EXCEPT !.scroll = [kind |-> "direction", sign |-> -1, amount |-> 0]],
          [Goal({"scroll"}) EXCEPT !.scroll = [kind |-> "target", sign |-> 1, amount |-> 0]],
          [Goal({}) EXCEPT !.research = {"item1", "item2"}],
          [Goal({}) EXCEPT !.maxPrice = TRUE, !.traits = {"red"}],
          [Goal({"details"}) EXCEPT !.traits = {"red"}],
          [Goal({"search"}) EXCEPT !.needsEvidence = TRUE]}

Sub(cond, want, dest) == [cond |-> cond, want |-> want, dest |-> dest, state |-> "READY"]
NoDest == [kind |-> "NONE", roles |-> None, url |-> None]
Listing == [kind |-> "DECLARED", roles |-> {"LISTING"}, url |-> None]
Both == [kind |-> "DECLARED", roles |-> {"LISTING"}, url |-> {"item1", "product"}]

MCPlans ==
    {<<Sub("DESTINATION_VERIFIED", None, Listing)>>,
     <<Sub("DESTINATION_VERIFIED", None, Both), Sub("ELEMENT_EXISTS", "ledger", NoDest)>>,
     <<Sub("STATE_CHANGED", None, NoDest), Sub("AFFORDANCE_AVAILABLE", "sort", NoDest),
       Sub("URL_CONTAINS", "details", NoDest)>>}

MCTasks == {[goal |-> g, plan |-> <<>>] : g \in MCGoals}
           \cup {[goal |-> Goal({}), plan |-> p] : p \in MCPlans}

Bare ==
    [url |-> {}, model |-> None, marks |-> {}, offers |-> {}, facts |-> <<>>, fresh |-> FALSE,
     items |-> {}, scroll |-> 0, observable |-> FALSE, ocr |-> FALSE, verified |-> FALSE]
Price(v) == [key |-> "price", value |-> v, untrusted |-> FALSE]
Readings ==
    {Bare,
     [Bare EXCEPT !.facts = <<Price("1")>>, !.fresh = TRUE, !.verified = TRUE,
                  !.items = {[price |-> "within", traits |-> {"red"}]}],
     [Bare EXCEPT !.facts = <<Price(None), Price("2")>>, !.fresh = TRUE, !.offers = {"sort"},
                  !.items = {[price |-> "above", traits |-> {"red"}]}],
     [Bare EXCEPT !.marks = {"ledger", "target in view"}, !.observable = TRUE, !.scroll = 1],
     [Bare EXCEPT !.marks = {"ocr text", "ocr phone", "ocr email"}, !.ocr = TRUE,
                  !.observable = TRUE, !.scroll = 3,
                  !.items = {[price |-> None, traits |-> {"red"}]}],
     [Bare EXCEPT !.marks = {"ocr text", "ocr quoted", "ocr statement"}, !.ocr = TRUE,
                  !.observable = TRUE, !.scroll = 0]}

Model(type, now) == [type |-> type, sure |-> TRUE, now |-> now]
MCContexts ==
    {[r EXCEPT !.url = u, !.model = m] :
        r \in Readings,
        m \in {None, Model("LISTING", TRUE)}, u \in {{"login"}, {"item1", "product"}}}
    \cup
    {[r EXCEPT !.url = u, !.model = m] :
        r \in Readings,
        m \in {Model("LISTING", FALSE), Model("ERROR", TRUE)},
        u \in {{"google", "query", "results"}, {"item2", "details"}}}

MCRequests == {{}, {"item1", "product"}}
==========================================================================
