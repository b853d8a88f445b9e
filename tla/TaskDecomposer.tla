--------------------------- MODULE TaskDecomposer ---------------------------
(***************************************************************************)
(* From the words of the user to the subgoals of a run: which page they    *)
(* ask for (normalizeDestinations), what kind of task they are             *)
(* (classifyTaskCategory), and the graph made of both (decomposeTask), once *)
(* at the start of AgentLoop.runTask.                                      *)
(*                                                                         *)
(* A text is a sequence of words.  Each vocabulary of the code is          *)
(* represented by a few of its words, each of which stands for all that    *)
(* are treated alike; a word in none of them is any other word.            *)
(***************************************************************************)
EXTENDS Absent, Integers, Sequences, FiniteSets, Sifting, SequencesExt, FiniteSetsExt

CONSTANTS
    TaskTexts  \* what the user may type

\* an address that parses, one that holds the name of a shop, one that does
\* not parse
Addresses == {"http", "http-shop", "http-bad"}
Parses(w) == w # "http-bad"

VARIABLES
    dSaid,      \* the words of the task
    dFrom,      \* the page the run starts on
    dDeclared,  \* the declarations, in the order of the text
    dPlan,      \* the subgoals
    dAt         \* what was done: "said", "declared", "planned"

decomposerVars == <<dSaid, dFrom, dDeclared, dPlan, dAt>>

-----------------------------------------------------------------------------
(* The closed grammar of a destination.                                    *)

OneWordVerbs == {"open", "opened", "navigate"}
TwoWordVerbs == {<<"navigate", "to">>}
NonAuthorizingVerbs == {"opened"}
NonAuthorizingPrev == {"already"}
Terminators == {"on", "in", "to", "and"}
Determiners == {"the"}
TrailingNouns == {"page"}

MaxModifiers == 2
SlotWindow == 8

\* the names of pages, and the page types of each reading of a name; two
\* readings are ambiguous
PageRoles ==
    LET listings == {<<"catalog">>, <<"search", "results">>}
        searches == {<<"search">>, <<"search", "page">>}
        checkouts == {<<"cart">>, <<"payment", "page">>}
        logins == {<<"sign", "in">>}
        forms == {<<"form">>}
        ambiguous == {<<"results">>}
    IN  [key \in listings \cup searches \cup checkouts \cup logins \cup forms \cup ambiguous |->
            CASE key \in listings -> <<{"LISTING"}>>
              [] key \in searches -> <<{"SEARCH"}>>
              [] key \in checkouts -> <<{"CHECKOUT"}>>
              [] key \in logins -> <<{"LOGIN"}>>
              [] key \in forms -> <<{"FORM"}>>
              [] key \in ambiguous -> <<{"LISTING"}, {"SEARCH"}>>]

VerbLength(w, i) ==
    IF i < Len(w) /\ <<w[i], w[i + 1]>> \in TwoWordVerbs THEN 2
    ELSE IF w[i] \in OneWordVerbs THEN 1 ELSE 0

\* Mutant: "already open" is taken for a request.
AssertsOnlyInThePast(w, i) == w[i] \in NonAuthorizingVerbs

\* "I already opened the catalog" reports a state, it asks for nothing
Asserts(w, i) ==
    \/ w[i] \in NonAuthorizingVerbs
    \/ i > 1 /\ w[i - 1] \in NonAuthorizingPrev

\* only the first address stays in the text
Masked(text) ==
    LET first == Min({i \in 1 .. Len(text) : text[i] \in Addresses} \cup {Len(text)})
        rest == SubSeq(text, first + 1, Len(text))
    IN  SubSeq(text, 1, first)
        \o Among(rest, Range(rest) \ Addresses)

\* the words that may complete a verb that ends before position `start`
Window(w, start) == SubSeq(w, start, Min({Len(w), start + SlotWindow - 1}))

\* the first terminator, or behind the end
Boundary(window) ==
    Min({i \in 1 .. Len(window) : window[i] \in Terminators} \cup {Len(window) + 1})

\* what is kept of the words from the terminator on
Continuation(rest) ==
    LET next(kept, x) ==
            IF Len(kept) < (IF x \in Terminators THEN 3 ELSE 4) THEN Append(kept, x) ELSE kept
        upTo[i \in 0 .. Len(rest)] == IF i = 0 THEN <<>> ELSE next(upTo[i - 1], rest[i])
    IN  upTo[Len(rest)]

\* the complement: the words up to a terminator, without determiners in front
\* (slot) and page nouns behind (trimmed), and what continues it
ResolveHead(w, start) ==
    LET window == Window(w, start)
        cut == Boundary(window)
        first == Min({i \in 1 .. cut : i = cut \/ window[i] \notin Determiners})
        slot == SubSeq(window, first, cut - 1)
        last == Max({i \in 0 .. Len(slot) : i = 0 \/ slot[i] \notin TrailingNouns})
    IN  [slot |-> slot, trimmed |-> SubSeq(slot, 1, last),
         afterBoundary |-> Continuation(SubSeq(window, cut, Len(window)))]

\* the ends of s, from three words down to `least`
Ends(s, least) ==
    LET longest == Min({Len(s), 3})
    IN  [k \in 1 .. longest - least + 1 |-> SubSeq(s, Len(s) - longest + k, Len(s))]

\* the ends of the slot, first continued, then not
HeadCandidates(head) ==
    LET extras == Len(head.afterBoundary)
        continued == [extra \in 1 .. extras |->
                         Ends(head.slot \o SubSeq(head.afterBoundary, 1, extra), 2)]
    IN  Joined(continued, extras) \o Ends(head.trimmed, 1) \o Ends(head.slot, 1)

\* the readings of the first of them that is in the table
LookupHead(head) ==
    LET known == Among(HeadCandidates(head), DOMAIN PageRoles)
    IN  IF known = <<>> THEN <<>> ELSE PageRoles[known[1]]

-----------------------------------------------------------------------------
(* The declarations of a text.                                             *)

PageTypes == {"LISTING", "SEARCH", "CHECKOUT", "LOGIN", "FORM"}

AnyDeclaration ==
    [kind : {"DECLARED", "AMBIGUOUS", "UNSUPPORTED", "NONE"}, role : SUBSET PageTypes,
     url : BOOLEAN, entryUrl : BOOLEAN]

ASSUME DecomposerAssumption ==
    /\ \A text \in TaskTexts : text \in Seq(STRING)
    /\ None \notin AnyDeclaration

Declaration(kind, role, url) == [kind |-> kind, role |-> role, url |-> url, entryUrl |-> FALSE]

OfReadings(readings) ==
    CASE readings = <<>> -> Declaration("UNSUPPORTED", {}, FALSE)
      [] Len(readings) > 1 -> Declaration("AMBIGUOUS", {}, FALSE)
      [] OTHER -> Declaration("DECLARED", readings[1], FALSE)

\* one construct, from where the reading is on; a complement that declares
\* nothing is read again for verbs
Construct(w, reading) ==
    LET i == reading.at
        v == VerbLength(w, i)
        head == ResolveHead(w, i + v)
        past(n, declared) == [at |-> i + n, out |-> reading.out \o declared]
    IN  CASE i > Len(w) -> reading
          [] i <= Len(w) /\ v = 0 -> past(1, <<>>)
          [] i <= Len(w) /\ v > 0 /\ Asserts(w, i) -> past(v + 1, <<>>)
          [] i <= Len(w) /\ v > 0 /\ ~Asserts(w, i) ->
               CASE i + v <= Len(w) /\ w[i + v] \in Addresses ->
                       past(v + 1, IF Parses(w[i + v])
                                     THEN <<Declaration("DECLARED", {}, TRUE)>> ELSE <<>>)
                 [] ~(i + v <= Len(w) /\ w[i + v] \in Addresses) ->
                       IF head.trimmed = <<>> THEN past(v, <<>>)
                       ELSE IF Len(head.trimmed) > MaxModifiers + 1
                       THEN past(v, <<Declaration("UNSUPPORTED", {}, FALSE)>>)
                       ELSE past(v + Len(head.slot), <<OfReadings(LookupHead(head))>>)

\* all of them: each construct is at least a word
Constructs(w) ==
    LET upTo[n \in 0 .. Len(w)] ==
            IF n = 0 THEN [at |-> 1, out |-> <<>>] ELSE Construct(w, upTo[n - 1])
    IN  upTo[Len(w)].out

\* an address that no verb took is where to start for the first page that was
\* named in words, or else the destination
NormalizeDestinations(text) ==
    LET w == Masked(text)
        out == Constructs(w)
        named == {k \in 1 .. Len(out) : out[k].role # {}}
        free == /\ \E i \in 1 .. Len(w) : w[i] \in Addresses /\ Parses(w[i])
                /\ \A k \in 1 .. Len(out) : ~out[k].url
    IN  IF ~free THEN out
        ELSE IF named # {} THEN [out EXCEPT ![Min(named)].entryUrl = TRUE]
        ELSE <<Declaration("DECLARED", {}, TRUE)>> \o out

NormalizeDestination(declarations) ==
    IF declarations = <<>> THEN Declaration("NONE", {}, FALSE) ELSE declarations[1]

-----------------------------------------------------------------------------
(* The category of a task and its subgoals.                                *)

ClassifyTaskCategory(text) ==
    LET has(words) == \E i \in 1 .. Len(text) : text[i] \in words
        signsIn == \E i \in 1 .. Len(text) - 1 : text[i] = "sign" /\ text[i + 1] = "in"
    IN  IF text = <<>> \/ has({"exploit"}) THEN "UNSUPPORTED_TASK_TYPE"
        ELSE IF has({"buy", "cart", "http-shop"}) THEN "ECOMMERCE_SEARCH"
        ELSE IF has({"search"}) THEN "INFORMATION_RETRIEVAL"
        ELSE IF has({"form"}) THEN "FORM_FILL"
        ELSE IF signsIn THEN "AUTHENTICATION"
        ELSE "GENERIC_INTERACTION"

\* the page of the tab when the run starts, as far as the plan depends on it:
\* its address is not known, is one to search on, names a shop, is any other
Starts == {"unknown", "search", "shop", "other"}

\* a subgoal with a destination is proven by the page declared, a NAVIGATE
\* without one by nothing
Subgoal(category, destination) == [category |-> category, destination |-> destination]

DeclaredDestination(declarations) ==
    LET d == NormalizeDestination(declarations) IN IF d.kind = "DECLARED" THEN d ELSE None

AddDestinationSubgoal(destination) ==
    IF destination = None THEN <<>> ELSE <<Subgoal("NAVIGATE", destination)>>

\* what is reached first
InformationLead(destination, page) ==
    AddDestinationSubgoal(destination)
    \o (IF page = "unknown" THEN <<Subgoal("NAVIGATE", destination)>> ELSE <<>>)

CommerceLead(destination, page) ==
    IF page = "shop" THEN <<>> ELSE <<Subgoal("NAVIGATE", destination)>>

\* Mutant: only the commerce branch plans what was declared.
LeadInCommerce(category, destination, page) ==
    IF category = "ECOMMERCE_SEARCH" THEN CommerceLead(destination, page) ELSE <<>>

Lead(category, destination, page) ==
    CASE category = "INFORMATION_RETRIEVAL" -> InformationLead(destination, page)
      [] category = "ECOMMERCE_SEARCH" -> CommerceLead(destination, page)
      [] OTHER -> AddDestinationSubgoal(destination)

\* what is done there, one after the other
InformationChain == <<"SEARCH", "LOCATE", "EXTRACT", "VERIFY">>

CommerceChain(text) ==
    <<"SEARCH", "SELECT", "VERIFY">>
    \o (IF \E i \in 1 .. Len(text) : text[i] \in {"cart", "buy"} THEN <<"CONFIRM">> ELSE <<>>)

FormChain == <<"LOCATE", "FILL", "VERIFY", "CONFIRM">>

AuthenticationChain == <<"LOCATE", "CONFIRM", "FILL", "VERIFY">>

GenericChain == <<"LOCATE", "SELECT", "VERIFY">>

ChainOf(category, text) ==
    CASE category = "INFORMATION_RETRIEVAL" -> InformationChain
      [] category = "ECOMMERCE_SEARCH" -> CommerceChain(text)
      [] category = "FORM_FILL" -> FormChain
      [] category = "AUTHENTICATION" -> AuthenticationChain
      [] OTHER -> GenericChain

\* the chain waits for all that is reached first
Linked(lead, chain) ==
    LET n == Len(lead)
        goal(k) ==
            [category |-> IF k <= n THEN lead[k].category ELSE chain[k - n],
             destination |-> IF k <= n THEN lead[k].destination ELSE None,
             prerequisites |->
                 IF k <= n THEN {} ELSE IF k = n + 1 THEN 1 .. n ELSE {k - 1},
             state |-> IF k <= n \/ k = 1 THEN "READY" ELSE "PENDING"]
    IN  [k \in 1 .. n + Len(chain) |-> goal(k)]

DecomposeTask(text, declarations, page) ==
    LET category == ClassifyTaskCategory(text)
        destination == DeclaredDestination(declarations)
    IN  IF category = "UNSUPPORTED_TASK_TYPE" THEN <<>>
        ELSE Linked(Lead(category, destination, page), ChainOf(category, text))

-----------------------------------------------------------------------------
DecomposerInit ==
    /\ dSaid \in TaskTexts
    /\ dFrom \in Starts
    /\ dDeclared = <<>> /\ dPlan = <<>>
    /\ dAt = "said"

Declare ==
    /\ dAt = "said"
    /\ dDeclared' = NormalizeDestinations(dSaid)
    /\ dAt' = "declared"
    /\ UNCHANGED <<dSaid, dFrom, dPlan>>

Decompose ==
    /\ dAt = "declared"
    /\ dPlan' = DecomposeTask(dSaid, dDeclared, dFrom)
    /\ dAt' = "planned"
    /\ UNCHANGED <<dSaid, dFrom, dDeclared>>

DecomposerNext == Declare \/ Decompose

DecomposerSpec == DecomposerInit /\ [][DecomposerNext]_decomposerVars

-----------------------------------------------------------------------------
(* Properties.                                                             *)

\* A verb that asks: one of the class, not in the past, not behind "already".
AsksAt(i) ==
    /\ VerbLength(dSaid, i) > 0
    /\ dSaid[i] \notin NonAuthorizingVerbs
    /\ i > 1 => dSaid[i - 1] \notin NonAuthorizingPrev

\* The words of `key` stand behind position i, in their order.
StandsBehind(key, i) ==
    \E place \in [1 .. Len(key) -> i + 1 .. Len(dSaid)] :
        \A k \in 1 .. Len(key) :
            /\ dSaid[place[k]] = key[k]
            /\ \A j \in 1 .. k - 1 : place[j] < place[k]

\* A run is sent to a page only if the user asked for it: a page that was
\* named in words is the one reading of words behind a verb that asks, an
\* address is the user's own, and where the words are ambiguous, unknown or a
\* report, no page is sought (destinationNormalizer.ts, N1, N2, N8, N9).
OnlyWhenAsked ==
    \A k \in 1 .. Len(dPlan) : LET d == dPlan[k].destination IN
        d # None =>
            IF d.url THEN \E i \in 1 .. Len(dSaid) : dSaid[i] \in Addresses
            ELSE \E i \in 1 .. Len(dSaid) : AsksAt(i) /\
                    \E key \in DOMAIN PageRoles :
                        PageRoles[key] = <<d.role>> /\ StandsBehind(key, i)

\* The k-th subgoal waits for the i-th: every set that holds what the k-th needs,
\* and with a subgoal what that one needs, holds the i-th.
Awaits(k, i) ==
    \A needed \in SUBSET DOMAIN dPlan :
        (\A j \in needed \cup {k} : dPlan[j].prerequisites \subseteq needed) => i \in needed

\* The page the user asked for first is not lost on the way to the plan: it is
\* a subgoal, and everything that is done on a page waits for it, except on a
\* shop the run starts in (taskDecomposer.ts:253, "it gates a destination
\* subgoal in every branch that does not already produce one").
DeclaredIsPlanned ==
    LET d == NormalizeDestination(dDeclared)
        category == ClassifyTaskCategory(dSaid)
    IN  dAt = "planned" /\ d.kind = "DECLARED" /\ category # "UNSUPPORTED_TASK_TYPE"
        /\ ~(category = "ECOMMERCE_SEARCH" /\ dFrom = "shop")
        => \E i \in 1 .. Len(dPlan) :
            /\ dPlan[i].destination = d
            /\ \A k \in 1 .. Len(dPlan) : dPlan[k].category # "NAVIGATE" => Awaits(k, i)
=============================================================================
