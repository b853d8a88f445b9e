----------------------------- MODULE TaskTarget -----------------------------
(* From the words of a message to a loop on a tab.  A message is admitted  *)
(* or refused by its words (intentBoundary.ts), an admitted one takes the  *)
(* worker over and its body looks for a tab: among the tabs as they were   *)
(* listed, by the site the task names, or a tab opened for it              *)
(* (targetResolver.ts).  Between the awaits of that body another message   *)
(* or a stop may take the worker, and the user browses on.  The loop that  *)
(* starts is bound to the site of the page as it was listed; the harness   *)
(* looks before each cycle at the page of the last reading.                *)
EXTENDS Naturals, Sequences, SequencesExt, Absent

CONSTANTS
    Errands,        \* the messages: [words, form, host, port]
    Portals,        \* names the search registry knows, with their hosts
    TabsAtStart,    \* the tabs of the window, in the order of the browser
    Browsed,        \* the pages a tab may come to show
    MaxStarts,      \* bound: messages and stops
    MaxBrowsed,     \* bound: pages the user goes to or tabs the user picks
    MaxLooked       \* bound: readings of one run

Host == Seq(STRING)
Port == STRING \cup {None}

\* A page: the labels of its host, its port, the names its title mentions, and
\* whether it is an http page; a blank page has no host.
Page == [host : Host, port : Port, title : SUBSET STRING, web : BOOLEAN]
Forms == {"url", "domain", "port", "name", "on"}
Errand == [words : SUBSET STRING, form : Forms \cup {None}, host : Host, port : Port]

ASSUME TargetAssumption ==
    /\ {MaxStarts, MaxBrowsed, MaxLooked} \subseteq Nat
    /\ Errands \subseteq Errand
    /\ \A task \in Errands : /\ task.form = None <=> task.host = <<>>
                             /\ task.form = "domain" => Len(task.host) >= 2
    /\ \A name \in DOMAIN Portals : Portals[name] \in Host
    /\ TabsAtStart \in Seq(Page) /\ Browsed \subseteq Page
    /\ None \notin Forms

VARIABLES
    tabs,      \* the pages the tabs show, by tab; the first is the dashboard
    front,     \* the tab in front
    owner,     \* activeTaskRunId
    starts,    \* the bodies of the messages, in the order of their arrival
    looping,   \* activeLoop: the run whose loop it is, or None
    browsed    \* how often the user has moved

targetVars == <<tabs, front, owner, starts, looping, browsed>>

Dashboard == 1

Labels(host) == {host[n] : n \in DOMAIN host}
NoHost(page) == page.host = <<>>
Controls(page) == page.port = "5173"

\* hostname === other or hostname.endsWith('.' + other)
Beneath(host, other) == other # <<>> /\ IsSuffix(other, host)

\* sitePart: the first label that is not www
SiteLabel(host) == IF host[1] = "www" /\ Len(host) > 1 THEN host[2] ELSE host[1]

\* deriveRootHost: the last two labels
RootHost(host) == IF Len(host) <= 2 THEN host ELSE SubSeq(host, Len(host) - 1, Len(host))

\* canonicalizeSiteOrigin: where the registry says a name is
Portal(name) == IF name \in DOMAIN Portals THEN Portals[name] ELSE None

(***************************************************************************)
(* classifyIntent: what the words of the message admit.                    *)
(***************************************************************************)
Knows(task) ==
    \/ task.form \in {"url", "domain"}
    \/ task.form \in {"name", "on"} /\ Portal(task.host[1]) # None

Intent(task) ==
    LET has(word) == word \in task.words
        info == has("info") \/ has("search")
    IN
    IF has("greeting") THEN "GREETING_CASUAL"
    ELSE IF has("unsupported") THEN "UNSUPPORTED"
    ELSE IF {"vague", "short"} \subseteq task.words THEN "AMBIGUOUS"
    ELSE IF info /\ (has("open") \/ Knows(task)) THEN "MIXED_TASK"
    ELSE IF has("open") /\ has("act") THEN "MIXED_TASK"
    ELSE IF info THEN "INFORMATION_REQUEST"
    ELSE IF has("act") THEN "ACTION_REQUEST"
    ELSE IF has("open") THEN "NAVIGATION_REQUEST"
    ELSE "AMBIGUOUS"

Admissible(task) == Intent(task) \notin {"GREETING_CASUAL", "UNSUPPORTED", "AMBIGUOUS"}

(***************************************************************************)
(* parseTaskTargetReference: the site a task names, if it names one.  The  *)
(* expression for a domain takes two labels of it, whatever follows them.  *)
(***************************************************************************)
Mention(task) ==
    LET opens == "open" \in task.words /\ "already" \notin task.words
        said == [host |-> task.host, port |-> task.port, site |-> None,
                 whole |-> FALSE, opens |-> TRUE, already |-> "already" \in task.words]
    IN  CASE task.form = "url" ->
               [said EXCEPT !.site = SiteLabel(task.host), !.whole = TRUE]
          [] task.form = "port" -> said
          [] task.form = "domain" ->
               LET two == SubSeq(task.host, 1, 2)
               IN  [said EXCEPT !.host = two, !.site = SiteLabel(two), !.opens = opens]
          [] task.form = "name" /\ "open" \in task.words ->
               [said EXCEPT !.host = <<>>, !.site = task.host[1], !.already = FALSE]
          [] task.form = "on" /\ task.words \cap {"open", "search"} # {} ->
               [said EXCEPT !.host = <<>>, !.site = task.host[1], !.opens = FALSE, !.already = FALSE]
          [] OTHER -> None

\* isEligibleWebTab
Eligible(list) == {n \in DOMAIN list : n # Dashboard /\ list[n].web /\ ~Controls(list[n])}

\* doesTabMatchTarget
Suits(page, ref) ==
    IF ref.port # None
    THEN page.port = ref.port /\ Beneath(page.host, ref.host)
    ELSE \/ ref.host # <<>> /\ (Beneath(page.host, ref.host) \/ Beneath(ref.host, page.host))
         \/ ref.site # None /\ ref.site \in Labels(page.host) \cup page.title

\* canProvisionTargetReference
MayOpen(ref, task) ==
    /\ ~ref.already
    /\ IF ref.whole THEN task.words \cap {"open", "load"} # {} ELSE ref.opens /\ ref.port = None

\* buildProvisioningDestinationUrl: a bare name is looked up, never made up
Destination(ref) ==
    IF ref.host # <<>> THEN [host |-> ref.host, port |-> ref.port]
    ELSE IF Portal(ref.site) # None THEN [host |-> Portal(ref.site), port |-> None]
    ELSE None

\* extractProvisioningDestination: for a task that names no site in a way the
\* parser takes for one, when there is no tab (an address always is one)
Extracted(task) ==
    IF /\ task.words \cap {"open", "search"} # {}
       /\ task.form \in {"name", "on"} /\ Portal(task.host[1]) # None
    THEN [host |-> Portal(task.host[1]), port |-> None]
    ELSE None

Openable(dest) == dest # None /\ ~Controls(dest)

Foremost(ns, infront) == IF infront \in ns THEN infront ELSE CHOOSE n \in ns : \A m \in ns : n <= m

\* a build in which a site that is not among the tabs falls back to the tab in front
ResolveTargetOrFront(list, infront, task) ==
    LET ref == Mention(task)
        suiting == IF ref = None THEN {} ELSE {n \in Eligible(list) : Suits(list[n], ref)}
        fitting == IF suiting = {} THEN Eligible(list) ELSE suiting
    IN  [tab |-> IF fitting = {} THEN None ELSE Foremost(fitting, infront), open |-> None]

\* resolveTargetWebTab: a tab, a destination to open one at, or neither
ResolveTarget(list, infront, task) ==
    LET ref == Mention(task)
        fitting == IF ref = None THEN Eligible(list) ELSE {n \in Eligible(list) : Suits(list[n], ref)}
        dest == IF ref = None THEN Extracted(task) ELSE IF MayOpen(ref, task) THEN Destination(ref) ELSE None
    IN  [tab |-> IF fitting = {} THEN None ELSE Foremost(fitting, infront),
         open |-> IF fitting = {} /\ Openable(dest) THEN dest ELSE None]

\* establishContainmentScope: the site a loop on this page is bound to
Scope(page) == IF page.web /\ ~NoHost(page) /\ ~Controls(page) THEN RootHost(page.host) ELSE None

-----------------------------------------------------------------------------
Fresh(task) ==
    [task |-> task, at |-> "asked", list |-> <<>>, infront |-> None, tab |-> None,
     opened |-> FALSE, home |-> None, seen |-> None, read |-> <<>>]

TargetInit ==
    /\ tabs = TabsAtStart
    /\ front = Dashboard
    /\ owner = 0
    /\ starts = <<>>
    /\ looping = None
    /\ browsed = 0

Bodies == DOMAIN starts
Goes(r, change) == starts' = [starts EXCEPT ![r] = change]
To(r, place) == [starts[r] EXCEPT !.at = place, !.list = <<>>, !.infront = None]
AtPlace(r, place) == starts[r].at = place
Latest(r) == owner = r

\* A message comes in.  One whose words admit nothing takes the number of the
\* run all the same; one that is admitted ends the loop that is running.
MessageComes(task, settled) ==
    LET r == Len(starts) + 1
        admitted == \/ Admissible(task)
                    \/ settled /\ Intent(task) = "AMBIGUOUS" /\ "vague" \in task.words
    IN  /\ r <= MaxStarts
        /\ owner' = r
        /\ starts' = Append(starts, IF admitted THEN Fresh(task) ELSE [Fresh(None) EXCEPT !.at = "refused"])
        /\ looping' = IF admitted THEN None ELSE looping
        /\ UNCHANGED <<tabs, front, browsed>>

\* STOP_TASK
StopComes ==
    /\ starts # <<>> /\ owner <= MaxStarts
    /\ owner' = owner + 1
    /\ looping' = None
    /\ UNCHANGED <<tabs, front, starts, browsed>>

\* chrome.tabs.query reads the tabs, and its answer is on its way
TabsListed(r) ==
    /\ AtPlace(r, "asked")
    /\ Goes(r, [To(r, "listed") EXCEPT !.list = tabs, !.infront = front])
    /\ UNCHANGED <<tabs, front, owner, looping, browsed>>

\* A tab is found: its page as it was listed, or as it was asked for, bounds
\* the loop, and the tab is brought to the front.
Chosen(r, tab, page) ==
    IF Scope(page) = None
    THEN Goes(r, To(r, "failed")) /\ UNCHANGED front
    ELSE /\ Goes(r, [To(r, "activating") EXCEPT !.tab = tab, !.home = page, !.seen = page])
         /\ front' = tab

Landing(dest) == [host |-> dest.host, port |-> dest.port, title |-> {}, web |-> TRUE]

\* The answer of the query: the body goes on if its run is still the latest.
Decides(r) ==
    LET body == starts[r]
        found == ResolveTarget(body.list, body.infront, body.task)
    IN  /\ AtPlace(r, "listed")
        /\ UNCHANGED <<owner, looping, browsed>>
        /\ \/ ~Latest(r) /\ Goes(r, To(r, "dropped")) /\ UNCHANGED <<tabs, front>>
           \/ /\ Latest(r) /\ found.tab # None
              /\ Chosen(r, found.tab, body.list[found.tab]) /\ UNCHANGED tabs
           \/ /\ Latest(r) /\ found.tab = None /\ found.open # None
              /\ tabs' = Append(tabs, Landing(found.open)) /\ front' = Len(tabs')
              /\ Goes(r, [To(r, "loading") EXCEPT !.tab = Len(tabs'), !.opened = TRUE, !.home = tabs'[Len(tabs')]])
           \/ /\ Latest(r) /\ found.tab = None /\ found.open = None
              /\ Goes(r, To(r, "failed")) /\ UNCHANGED <<tabs, front>>

\* a build that takes the tab on without asking who owns the worker by now
ProvisionedForWhomever(r, ready) ==
    /\ AtPlace(r, "loading")
    /\ IF ready THEN Chosen(r, starts[r].tab, starts[r].home)
       ELSE Goes(r, To(r, "failed")) /\ UNCHANGED front
    /\ UNCHANGED <<tabs, owner, looping, browsed>>

\* provisionTargetTab returns: the page answers, or it never did.
Provisioned(r, ready) ==
    /\ AtPlace(r, "loading")
    /\ IF ~Latest(r) THEN Goes(r, To(r, "dropped")) /\ UNCHANGED front
       ELSE IF ready THEN Chosen(r, starts[r].tab, starts[r].home)
       ELSE Goes(r, To(r, "failed")) /\ UNCHANGED front
    /\ UNCHANGED <<tabs, owner, looping, browsed>>

\* ensureTargetTabReady on the chosen tab, and the acknowledgement
Acknowledges(r, ready) ==
    /\ AtPlace(r, "activating")
    /\ Goes(r, To(r, IF ready THEN "told" ELSE "failed"))
    /\ UNCHANGED <<tabs, front, owner, looping, browsed>>

\* The dashboard has been told: the loop is made, if the run is still the latest.
LoopStarts(r) ==
    /\ AtPlace(r, "told")
    /\ Goes(r, To(r, IF Latest(r) THEN "between" ELSE "dropped"))
    /\ looping' = IF Latest(r) THEN r ELSE looping
    /\ UNCHANGED <<tabs, front, owner, browsed>>

\* a build to which any page of the web is within the scope
WithinScopeOfWeb(page, home) == page.web

\* evaluateHarnessCycle: what the harness says of the cycle that would begin,
\* from the page of the last reading
WithinScope(page, home) ==
    \/ page.web /\ NoHost(page)
    \/ page.web /\ Beneath(page.host, Scope(home))

HarnessVerdict(body, stopped, spent) ==
    IF stopped THEN "TERMINAL"
    ELSE IF ~WithinScope(body.seen, body.home) THEN "HALT_ENVIRONMENT"
    ELSE IF spent THEN "BUDGET_EXHAUSTED"
    ELSE "CONTINUE"

\* A cycle begins.  Whether its steps, retries and
\* recoveries are spent is free here.
CycleBegins(r, spent) ==
    /\ AtPlace(r, "between") /\ Len(starts[r].read) < MaxLooked
    /\ LET verdict == HarnessVerdict(starts[r], looping # r, spent) IN
        /\ Goes(r, To(r, IF verdict = "CONTINUE" THEN "reading" ELSE IF verdict = "TERMINAL" THEN "stopped" ELSE "failed"))
        /\ looping' = IF verdict = "CONTINUE" \/ looping # r THEN looping ELSE None
    /\ UNCHANGED <<tabs, front, owner, browsed>>

\* The page of the tab is read; then the rest of the cycle, which ends the run
\* or not.
CycleReads(r, ends) ==
    /\ AtPlace(r, "reading")
    /\ IF looping # r THEN Goes(r, To(r, "stopped")) /\ UNCHANGED looping
       ELSE /\ Goes(r, [To(r, IF ends THEN "ended" ELSE "between") EXCEPT
                            !.seen = tabs[starts[r].tab], !.read = Append(@, tabs[starts[r].tab])])
            /\ looping' = IF ends THEN None ELSE looping
    /\ UNCHANGED <<tabs, front, owner, browsed>>

\* The user, a link or a redirection brings another page into a tab.
PageChanges(tab, page) ==
    /\ browsed < MaxBrowsed /\ tab # Dashboard /\ tabs[tab] # page
    /\ tabs' = [tabs EXCEPT ![tab] = page] /\ browsed' = browsed + 1
    /\ UNCHANGED <<front, owner, starts, looping>>

UserPicks(tab) ==
    /\ browsed < MaxBrowsed /\ front # tab
    /\ front' = tab /\ browsed' = browsed + 1
    /\ UNCHANGED <<tabs, owner, starts, looping>>

TargetNext ==
    \/ \E task \in Errands, settled \in BOOLEAN : MessageComes(task, settled)
    \/ StopComes
    \/ \E r \in Bodies : TabsListed(r) \/ Decides(r) \/ LoopStarts(r)
    \/ \E r \in Bodies, yes \in BOOLEAN : Provisioned(r, yes) \/ Acknowledges(r, yes) \/ CycleBegins(r, yes)
    \/ \E r \in Bodies, ends \in BOOLEAN : CycleReads(r, ends)
    \/ \E tab \in DOMAIN tabs, page \in Browsed : PageChanges(tab, page)
    \/ \E tab \in DOMAIN tabs : UserPicks(tab)

-----------------------------------------------------------------------------
StartPlaces == {"asked", "listed", "loading", "activating", "told", "between", "reading",
           "refused", "dropped", "failed", "stopped", "ended"}
StartBody ==
    [task : Errands \cup {None}, at : StartPlaces, list : Seq(Page), infront : Nat \cup {None},
     tab : Nat \cup {None}, opened : BOOLEAN, home : Page \cup {None}, seen : Page \cup {None},
     read : Seq(Page)]

\* Every variable keeps its kind.
TargetTypeOK ==
    /\ tabs \in Seq(Page) /\ front \in Nat /\ owner \in Nat
    /\ starts \in Seq(StartBody) /\ looping \in Nat \cup {None} /\ browsed \in Nat

Moves(r) ==
    \/ starts[r].at # "activating" /\ starts'[r].at = "activating"
    \/ starts[r].at # "loading" /\ starts'[r].at = "loading"

(* A tab is opened or brought to the front only for the message that came  *)
(* last, and never after a stop, though the tabs were asked for and the    *)
(* page waited for in between (serviceWorker.ts 1028-1074).                *)
TouchesAsLatest ==
    [][\A r \in Bodies : Moves(r) => r = Len(starts) /\ owner = r]_targetVars

Unrelated(page, task) ==
    /\ Labels(page.host) \cap Labels(task.host) = {}
    /\ page.title \cap Labels(task.host) = {}

(* A task that names a site never gets the tab of another one, however the *)
(* window looks when it asks: the page it is started on has the host or    *)
(* the port, bears the name in its host or title, or was opened for it     *)
(* ("NEVER hijack or navigate an unrelated user tab", targetResolver.ts).  *)
NeverHijacks ==
    \A r \in Bodies :
        starts[r].home # None /\ ~starts[r].opened /\ Mention(starts[r].task) # None
            => ~Unrelated(starts[r].home, starts[r].task)

SiteOf(page) == SubSeq(page.host, IF Len(page.host) > 2 THEN Len(page.host) - 1 ELSE 1, Len(page.host))
Strange(page, home) ==
    \/ ~page.web
    \/ ~NoHost(page) /\ ~IsSuffix(SiteOf(home), page.host)

(* A run reads one page outside of the site it was started on at most, and *)
(* nothing after it: the tab may leave the site while the run is started,  *)
(* between two cycles, or in a cycle, and the harness looks only at the    *)
(* page of the reading before (harness.ts 241-366, agentLoop.ts 1191).     *)
OneStrangePage ==
    \A r \in Bodies : \A n \in 1..(Len(starts[r].read) - 1) : ~Strange(starts[r].read[n], starts[r].home)

TargetSpec == TargetInit /\ [][TargetNext]_targetVars
=============================================================================
