----------------------------- MODULE Execution -----------------------------
(***************************************************************************)
(* How an approved action reaches the page and how its effect is read: the *)
(* scan that names the elements, the service worker's dispatch with its    *)
(* time limit, the content script that looks the target up again and acts, *)
(* the snapshots before and after and the verdict drawn from them.  The    *)
(* page changes on its own between any two steps.                          *)
(*                                                                         *)
(* An element is known to the page by its identity and to the extension by *)
(* the selector the scanner builds for it, which several may share.        *)
(***************************************************************************)
EXTENDS Absent, Integers, Sequences, FiniteSets, SequencesExt, FiniteSetsExt

CONSTANTS
    Docs,        \* what the tab may show; one url may show different things
    MaxActions,  \* bound on the actions the loop tries
    MaxPolls,    \* effectSettleMaxPolls
    MaxChanges   \* bound on what the page and the popup do unasked

VARIABLES
    xDoc,     \* what the tab shows
    xFocus,   \* the focused element, or None
    xFilled,  \* fields that hold text
    xDown,    \* the page is scrolled down
    xPending, \* the document a navigation under way will show, or None
    xScript,  \* a content script listens in the tab
    xReport,  \* lastReport of the content script: its scanned elements in order
    xRecent,  \* targets clicked within the duplicate window
    xQueue,   \* actions sent to the page which it has not run
    xOwned,   \* this run still owns the task
    xSeen,    \* the scan the loop judged the action on
    xAct,     \* the action being tried: kind, target (an id), the element judged
    xTab,         \* the tab's url a snapshot under way has read, or None
    xPre, xPost,  \* the snapshots, or None
    xWas, xIs,    \* what was there when they were read: the url at the tab's
                  \* record, the rest at the page's answer
    xReply,   \* "none", "done" or "failed"
    xHit,     \* the element this action ran on, or None
    xLate,    \* an earlier action ran since the snapshot before this one
    xLooks, xTried, xAt,
    xChanges  \* what the page and the popup have done unasked

pageVars == <<xDoc, xFocus, xFilled, xDown, xPending, xScript, xReport, xRecent>>
loopVars == <<xOwned, xSeen, xAct, xTab, xPre, xPost, xWas, xIs, xReply, xLooks, xTried, xAt>>
executionVars == <<pageVars, loopVars, xQueue, xHit, xLate, xChanges>>

-----------------------------------------------------------------------------
(* The scan and the look-up.                                               *)

\* isElementVisible; the elements of a dialog are there only while it is shown
Visible(e, d) == e.shown /\ e.enabled /\ (e.dialog => d.dialog)

\* scanning order: an open dialog first, frames of the same origin last
ScanOrder(d) ==
    LET top == SelectSeq(d.els, LAMBDA e : ~e.frame)
        In(s) == SelectSeq(s, LAMBDA e : e.dialog)
        Out(s) == SelectSeq(s, LAMBDA e : ~e.dialog)
        body == IF d.dialog THEN In(top) \o Out(top) ELSE top
    IN  SelectSeq(body \o SelectSeq(d.els, LAMBDA e : e.frame), LAMBDA e : Visible(e, d))

\* scanInteractiveElements: one entry per selector, unless the element has an id of its own
Scan(d) ==
    LET f == ScanOrder(d)
        kept == {i \in DOMAIN f : f[i].own \/ \A j \in 1..(i - 1) : f[j].sel # f[i].sel}
        at == SetToSortSeq(kept, <)
    IN  [n \in DOMAIN at |->
            [id |-> IF f[at[n]].own THEN <<f[at[n]].sel, 0>> ELSE <<f[at[n]].kind, n>>,
             sel |-> f[at[n]].sel, el |-> f[at[n]]]]

\* document.querySelector: the first in document order, frames not searched
Query(d, s) ==
    LET m == SelectSeq(d.els, LAMBDA e : e.sel = s /\ ~e.frame /\ (e.dialog => d.dialog))
    IN  IF m = <<>> THEN None ELSE Head(m)

\* findElementByTarget
Find(d, report, id) ==
    LET listed == SelectSeq(report, LAMBDA r : r.id = id)
        bySel == IF listed = <<>> THEN None ELSE Query(d, Head(listed).sel)
        byId == SelectSeq(d.els, LAMBDA e : e.own /\ <<e.sel, 0>> = id /\ ~e.frame)
    IN  IF bySel # None THEN bySel ELSE IF byId = <<>> THEN None ELSE Head(byId)

\* assessLiveInteractability: what stops a click; a field may be behind a dialog
Usable(e) == e.enabled /\ e.shown
Clickable(e, d) == Usable(e) /\ (d.dialog => e.dialog)

-----------------------------------------------------------------------------
(* The snapshots and the verdict.                                          *)

TabUrl == IF xPending # None THEN xPending.url ELSE xDoc.url
Length(target) ==
    LET e == Find(xDoc, xReport, target)
    IN  IF target = None \/ e = None THEN None ELSE IF e.name \in xFilled THEN 1 ELSE 0
Truth(target) ==
    [url |-> TabUrl, dialog |-> xDoc.dialog, count |-> Len(xDoc.els), focus |-> xFocus,
     down |-> xDown, length |-> Length(target)]

\* getEffectSnapshot, second half: what the page says now, under the url the tab's record gave
\* before; that url alone when nothing there answers
TabOnly == [url |-> xTab, dialog |-> FALSE, count |-> 0, focus |-> None, down |-> FALSE,
            length |-> None, read |-> FALSE]
PageRead(target) ==
    LET t == Truth(target)
    IN  [url |-> xTab, dialog |-> t.dialog, count |-> t.count, focus |-> t.focus,
         down |-> t.down, length |-> t.length, read |-> TRUE]
Snapshots(target) ==
    {TabOnly} \cup (IF xScript /\ xQueue = <<>> THEN {PageRead(target)} ELSE {})

\* a build in which the tab alone was read, and its zeros are compared as if the page had said them
ComparableAnyway(s, t) ==
    {"dialog", "count", "focus", "down"}
      \cup (IF s.length # None /\ t.length # None THEN {"length"} ELSE {})

\* the fields whose two readings may be compared
Comparable(s, t) ==
    IF s.read /\ t.read
    THEN {"dialog", "count", "focus", "down"}
           \cup (IF s.length # None /\ t.length # None THEN {"length"} ELSE {})
    ELSE {}
Required(kind) ==
    CASE kind = "navigate" -> {}
      [] kind = "scroll" -> {"down"}
      [] kind \in {"type", "select"} -> {"length"}
      [] OTHER -> {"dialog", "count", "focus"}
Changed(s, t, fields) == {f \in fields \cap Comparable(s, t) : s[f] # t[f]}
Telling(kind) ==
    CASE kind = "type" -> {"length"}
      [] kind = "scroll" -> {"down"}
      [] kind = "select" -> {"length", "count", "focus"}
      [] kind = "click" -> {"dialog", "count", "focus"}
      [] kind = "pressKey" -> {"dialog", "length", "count", "focus"}
      [] OTHER -> {}

\* verifyActionEffect
Verdict(kind, s, t) ==
    LET moved == s.url # t.url
        readable == moved \/ (t.read /\ Required(kind) \subseteq Comparable(s, t))
        effect ==
            IF moved
            THEN kind \in {"navigate", "click", "pressKey"}
                   \/ (kind = "type" /\ t.length = 1)
            ELSE Changed(s, t, Telling(kind)) # {} \/ (kind = "type" /\ t.length = 1)
    IN  CASE ~readable -> "unverifiable"
          [] readable /\ effect -> "effect"
          [] OTHER -> "no_effect"
\* a snapshot that is missing settles nothing
Outcome ==
    IF xPre = None \/ xPost = None THEN "unverifiable" ELSE Verdict(xAct.kind, xPre, xPost)

-----------------------------------------------------------------------------
(* The page.                                                               *)

Pages(url) == {d \in Docs : d.url = url}
Names(d) == {e.name : e \in ToSet(d.els)}
ShowDoc(d) ==
    /\ xDoc' = d
    /\ xFocus' = IF xFocus \in Names(d) THEN xFocus ELSE None

\* the page's own scripts: elements come and go, a dialog opens or closes
PageChanges ==
    /\ xChanges < MaxChanges /\ xChanges' = xChanges + 1
    /\ \E d \in Pages(xDoc.url) \ {xDoc} : ShowDoc(d)
    /\ UNCHANGED <<xFilled, xDown, xPending, xScript, xReport, xRecent, loopVars, xQueue,
                   xHit, xLate>>

\* the document a navigation was for replaces this one; what was queued for it is lost
NavigationCommits ==
    /\ xPending # None
    /\ xDoc' = xPending /\ xPending' = None
    /\ xFocus' = None /\ xFilled' = {} /\ xDown' = FALSE
    /\ xScript' = FALSE /\ xReport' = <<>> /\ xRecent' = {}
    /\ xQueue' = <<>>
    /\ UNCHANGED <<loopVars, xHit, xLate, xChanges>>

\* the page leaves on its own: a redirect, a timer, the user
PageNavigates ==
    /\ xChanges < MaxChanges /\ xChanges' = xChanges + 1
    /\ xPending = None
    /\ \E d \in Docs : d.url # xDoc.url /\ xPending' = d
    /\ UNCHANGED <<xDoc, xFocus, xFilled, xDown, xScript, xReport, xRecent, loopVars, xQueue,
                   xHit, xLate>>

\* a download, an empty answer, a stopped load
NavigationDropped ==
    /\ xChanges < MaxChanges /\ xChanges' = xChanges + 1
    /\ xPending # None
    /\ xPending' = None
    /\ UNCHANGED <<xDoc, xFocus, xFilled, xDown, xScript, xReport, xRecent, loopVars, xQueue,
                   xHit, xLate>>

\* the content script of a new document: it listens, then scans on its own
ScriptStarts ==
    /\ ~xScript
    /\ xScript' = TRUE
    /\ UNCHANGED <<xDoc, xFocus, xFilled, xDown, xPending, xReport, xRecent, loopVars, xQueue,
                   xHit, xLate, xChanges>>
\* the first scan; one made when the popup changes how the page is covered
OwnScan ==
    /\ xChanges < MaxChanges /\ xChanges' = xChanges + 1
    /\ xScript /\ xQueue = <<>>
    /\ xReport' = Scan(xDoc)
    /\ UNCHANGED <<xDoc, xFocus, xFilled, xDown, xPending, xScript, xRecent, loopVars, xQueue,
                   xHit, xLate>>

\* DuplicateClickGuard: the window of a click is over
WindowPasses ==
    /\ xChanges < MaxChanges /\ xChanges' = xChanges + 1
    /\ xRecent # {}
    /\ xRecent' = {}
    /\ UNCHANGED <<xDoc, xFocus, xFilled, xDown, xPending, xScript, xReport, loopVars, xQueue,
                   xHit, xLate>>

-----------------------------------------------------------------------------
(* executeBrowserAction, run by the page for the first action of its queue. *)

\* what a control does when it is used: nothing, a change of the page, a navigation
Reaction(focus) ==
    \/ /\ \E d \in Pages(xDoc.url) :
            /\ xDoc' = d
            /\ xFocus' = IF focus \in Names(d) THEN focus ELSE None
       /\ UNCHANGED xPending
    \/ /\ \E d \in Docs : d.url # xDoc.url /\ xPending' = d
       /\ xFocus' = focus
       /\ UNCHANGED xDoc

\* the reply for action m: it counts only if the loop still waits for m, and a navigation may
\* close the port first
Reply(m, result) ==
    IF m.n = xTried /\ xAt = "sent" /\ xReply = "none"
    THEN xReply' \in {result} \cup (IF xPending' # None THEN {"failed"} ELSE {})
    ELSE UNCHANGED xReply
Hit(m, e) ==
    IF m.n = xTried THEN xHit' = e.name /\ UNCHANGED xLate
    ELSE UNCHANGED xHit /\ xLate' = TRUE

Runs(m) ==
    /\ xScript /\ xQueue # <<>> /\ m = Head(xQueue)
    /\ xQueue' = Tail(xQueue)
    /\ UNCHANGED <<xScript, xReport, xOwned, xSeen, xAct, xTab, xPre, xPost, xWas, xIs, xLooks,
                   xTried, xAt, xChanges>>
Refused(m) ==
    /\ UNCHANGED <<xDoc, xFilled, xDown, xPending, xRecent, xHit, xLate>>
    /\ Reply(m, "failed")

\* the target as the page finds it now
Target(m) == Find(xDoc, xReport, m.target)

ClickRefused(m) ==
    /\ Runs(m) /\ m.kind = "click"
    /\ \/ Target(m) = None
       \/ Target(m) # None /\ ~Clickable(Target(m), xDoc)
       \/ m.target \in xRecent
    /\ Refused(m) /\ UNCHANGED xFocus
ClickRuns(m) ==
    /\ Runs(m) /\ m.kind = "click"
    /\ Target(m) # None /\ Clickable(Target(m), xDoc) /\ m.target \notin xRecent
    /\ xRecent' = xRecent \cup {m.target}
    /\ Reaction(Target(m).name)
    /\ Hit(m, Target(m)) /\ Reply(m, "done")
    /\ UNCHANGED <<xFilled, xDown>>

\* a value the element does not take is reported; so is focus it does not take
WriteRefused(m) ==
    /\ Runs(m) /\ m.kind \in {"type", "select"}
    /\ xFocus' \in {xFocus} \cup (IF Target(m) # None /\ Usable(Target(m)) THEN {Target(m).name}
                                  ELSE {})
    /\ Refused(m)
WriteRuns(m) ==
    /\ Runs(m) /\ m.kind \in {"type", "select"}
    /\ Target(m) # None /\ Usable(Target(m))
    /\ Target(m).kind = IF m.kind = "type" THEN "field" ELSE "list"
    /\ xFocus' = Target(m).name
    /\ xFilled' = xFilled \cup {Target(m).name}
    /\ UNCHANGED <<xDoc, xDown, xPending, xRecent>>
    /\ Hit(m, Target(m)) /\ Reply(m, "done")

\* a key goes to the focused control; Enter submits its form
KeyRefused(m) ==
    /\ Runs(m) /\ m.kind = "pressKey"
    /\ xFocus = None \/ (Target(m) # None /\ Target(m).name # xFocus)
    /\ Refused(m) /\ UNCHANGED xFocus
KeyRuns(m) ==
    /\ Runs(m) /\ m.kind = "pressKey"
    /\ xFocus # None /\ (Target(m) # None => Target(m).name = xFocus)
    /\ Reaction(xFocus)
    /\ Hit(m, [name |-> xFocus]) /\ Reply(m, "done")
    /\ UNCHANGED <<xFilled, xDown, xRecent>>

\* the end of the page stops a scroll, which still answers done
ScrollRuns(m) ==
    /\ Runs(m) /\ m.kind = "scroll"
    /\ xDown' \in {xDown, TRUE}
    /\ UNCHANGED <<xDoc, xFocus, xFilled, xPending, xRecent>>
    /\ Hit(m, [name |-> None]) /\ Reply(m, "done")
NavigateRuns(m) ==
    /\ Runs(m) /\ m.kind = "navigate"
    /\ \E d \in Docs : d.url = m.url /\ xPending' = d
    /\ Hit(m, [name |-> None]) /\ Reply(m, "done")
    /\ UNCHANGED <<xDoc, xFocus, xFilled, xDown, xRecent>>

-----------------------------------------------------------------------------
(* The service worker and the loop.                                        *)

\* a build in which a page that does not answer is judged on its last scan
RereadCached ==
    /\ xAt = "look" /\ xTried < MaxActions
    /\ xScript
    /\ xSeen' = xReport
    /\ xAt' = "choose"
    /\ UNCHANGED <<pageVars, xOwned, xAct, xTab, xPre, xPost, xWas, xIs, xReply, xLooks, xTried,
                   xQueue, xHit, xLate, xChanges>>

\* perceivePage: the request waits behind the actions the page has not run
Reread ==
    /\ xAt = "look" /\ xTried < MaxActions
    /\ xScript /\ xQueue = <<>>
    /\ xReport' = Scan(xDoc)
    /\ xSeen' = Scan(xDoc)
    /\ xAt' = "choose"
    /\ UNCHANGED <<xDoc, xFocus, xFilled, xDown, xPending, xScript, xRecent, xOwned, xAct, xTab,
                   xPre, xPost, xWas, xIs, xReply, xLooks, xTried, xQueue, xHit, xLate, xChanges>>

\* no reading: a failed cycle, the loop looks again
RereadFails ==
    /\ xAt = "look" /\ xTried < MaxActions
    /\ xTried' = xTried + 1
    /\ UNCHANGED <<pageVars, xOwned, xSeen, xAct, xTab, xPre, xPost, xWas, xIs, xReply, xLooks, xAt,
                   xQueue, xHit, xLate, xChanges>>

\* what the gates let through: an element of the scan, used as its type allows
Uses(kind) == CASE kind = "field" -> {"click", "type", "pressKey"}
                [] kind = "list" -> {"click", "select", "pressKey"}
                [] OTHER -> {"click"}
Proposals ==
    UNION {{[kind |-> k, target |-> r.id, el |-> r.el.name, url |-> None] : k \in Uses(r.el.kind)} :
              r \in ToSet(xSeen)}
      \cup {[kind |-> "scroll", target |-> None, el |-> None, url |-> None]}
      \cup {[kind |-> "navigate", target |-> None, el |-> None, url |-> d.url] : d \in Docs}

\* the action passed the gates; the snapshot before it reads the tab's record, or is given up
Choose ==
    /\ xAt = "choose"
    /\ \E c \in Proposals : xAct' = c /\ xWas' = Truth(c.target)
    /\ \/ xTab' = TabUrl /\ xAt' = "before"
       \/ xTab' = None /\ xAt' = "dispatch"
    /\ xTried' = xTried + 1
    /\ xReply' = "none" /\ xPre' = None /\ xPost' = None /\ xIs' = None /\ xLooks' = 0
    /\ xHit' = None /\ xLate' = FALSE
    /\ UNCHANGED <<pageVars, xOwned, xSeen, xQueue, xChanges>>
\* and then the page, which meanwhile may have become another
SeenBefore ==
    /\ xAt = "before"
    /\ xPre' \in Snapshots(xAct.target)
    /\ xWas' = [Truth(xAct.target) EXCEPT !.url = xWas.url]
    /\ xTab' = None /\ xAt' = "dispatch"
    /\ UNCHANGED <<pageVars, xOwned, xSeen, xAct, xPost, xIs, xReply, xLooks, xTried, xQueue,
                   xHit, xLate, xChanges>>

\* evaluateContainment on the tab's url as it is now
InScope(a) == xDoc.scoped /\ (a.kind = "navigate" => \E d \in Docs : d.url = a.url /\ d.scoped)

\* executeAction: not owned, out of scope, nobody listening
DispatchFails ==
    /\ xAt = "dispatch"
    /\ ~xOwned \/ ~InScope(xAct) \/ ~xScript
    /\ xReply' = "failed" /\ xAt' = "sent"
    /\ UNCHANGED <<pageVars, xOwned, xSeen, xAct, xTab, xPre, xPost, xWas, xIs, xLooks, xTried,
                   xQueue, xHit, xLate, xChanges>>
Dispatch ==
    /\ xAt = "dispatch"
    /\ xOwned /\ InScope(xAct) /\ xScript
    /\ xQueue' = Append(xQueue, [kind |-> xAct.kind, target |-> xAct.target, url |-> xAct.url,
                                 n |-> xTried])
    /\ xAt' = "sent"
    /\ UNCHANGED <<pageVars, xOwned, xSeen, xAct, xTab, xPre, xPost, xWas, xIs, xReply, xLooks,
                   xTried, xHit, xLate, xChanges>>

\* 10 s without an answer, or the port closed by a navigation: reported as a failure
ReplyLost ==
    /\ xAt = "sent" /\ xReply = "none"
    /\ xReply' = "failed"
    /\ UNCHANGED <<pageVars, xOwned, xSeen, xAct, xTab, xPre, xPost, xWas, xIs, xLooks, xTried, xAt,
                   xQueue, xHit, xLate, xChanges>>

\* another task takes over: what was sent is not called back
Supersede ==
    /\ xOwned /\ xAt # "over"
    /\ xOwned' = FALSE
    /\ UNCHANGED <<pageVars, xSeen, xAct, xTab, xPre, xPost, xWas, xIs, xReply, xLooks, xTried, xAt,
                   xQueue, xHit, xLate, xChanges>>
Abandon ==
    /\ ~xOwned /\ xAt = "sent" /\ xReply # "none"
    /\ xAt' = "over"
    /\ UNCHANGED <<pageVars, xOwned, xSeen, xAct, xTab, xPre, xPost, xWas, xIs, xReply, xLooks,
                   xTried, xQueue, xHit, xLate, xChanges>>

\* a failed dispatch is not measured
Failed ==
    /\ xOwned /\ xAt = "sent" /\ xReply = "failed"
    /\ xAt' = "look"
    /\ UNCHANGED <<pageVars, xOwned, xSeen, xAct, xTab, xPre, xPost, xWas, xIs, xReply, xLooks,
                   xTried, xQueue, xHit, xLate, xChanges>>

\* the snapshot after; a click or a key that shows no effect is read again while it settles,
\* and a reading that fails leaves the earlier one
Measure ==
    /\ xOwned /\ xAt = "sent" /\ xReply = "done"
    /\ \/ xPost = None /\ xLooks = 0
       \/ /\ xPre # None /\ xPost # None /\ xLooks < MaxPolls
          /\ xAct.kind \in {"click", "pressKey"}
          /\ Outcome # "effect"
    /\ xLooks' = xLooks + 1
    /\ \/ xTab' = TabUrl /\ xIs' = Truth(xAct.target) /\ xAt' = "after"
       \/ UNCHANGED <<xTab, xIs, xAt>>
    /\ UNCHANGED <<pageVars, xOwned, xSeen, xAct, xPre, xPost, xWas, xReply, xTried, xQueue, xHit,
                   xLate, xChanges>>
SeenAfter ==
    /\ xAt = "after"
    /\ xPost' \in Snapshots(xAct.target)
    /\ xIs' = [Truth(xAct.target) EXCEPT !.url = xIs.url]
    /\ xTab' = None /\ xAt' = "sent"
    /\ UNCHANGED <<pageVars, xOwned, xSeen, xAct, xPre, xWas, xReply, xLooks, xTried, xQueue,
                   xHit, xLate, xChanges>>
Conclude ==
    /\ xOwned /\ xAt = "sent" /\ xReply = "done" /\ xLooks > 0
    /\ xAt' = "look"
    /\ UNCHANGED <<pageVars, xOwned, xSeen, xAct, xTab, xPre, xPost, xWas, xIs, xReply, xLooks,
                   xTried, xQueue, xHit, xLate, xChanges>>
Finish ==
    /\ xAt = "look" /\ xTried = MaxActions
    /\ xAt' = "over"
    /\ UNCHANGED <<pageVars, xOwned, xSeen, xAct, xTab, xPre, xPost, xWas, xIs, xReply, xLooks,
                   xTried, xQueue, xHit, xLate, xChanges>>

-----------------------------------------------------------------------------
ExecutionInit ==
    /\ xDoc \in Docs /\ xFocus = None /\ xFilled = {} /\ xDown = FALSE /\ xPending = None
    /\ xScript = TRUE /\ xReport = <<>> /\ xRecent = {} /\ xQueue = <<>>
    /\ xOwned = TRUE /\ xSeen = <<>> /\ xAct = None /\ xTab = None /\ xPre = None /\ xPost = None
    /\ xWas = None /\ xIs = None /\ xReply = "none" /\ xHit = None /\ xLate = FALSE
    /\ xLooks = 0 /\ xTried = 0 /\ xChanges = 0 /\ xAt = "look"

PageRuns ==
    \E m \in ToSet(xQueue) :
        \/ ClickRefused(m) \/ ClickRuns(m)
        \/ WriteRefused(m) \/ WriteRuns(m)
        \/ KeyRefused(m) \/ KeyRuns(m)
        \/ ScrollRuns(m) \/ NavigateRuns(m)
PageLives ==
    /\ xAt # "over"
    /\ \/ PageChanges \/ PageNavigates \/ NavigationCommits \/ NavigationDropped \/ ScriptStarts
       \/ OwnScan \/ WindowPasses \/ PageRuns
ExecutionNext ==
    \/ PageLives
    \/ Reread \/ RereadFails \/ Choose \/ SeenBefore \/ DispatchFails \/ Dispatch \/ ReplyLost
    \/ Supersede \/ Abandon \/ Failed \/ Measure \/ SeenAfter \/ Conclude \/ Finish
ExecutionSpec == ExecutionInit /\ [][ExecutionNext]_executionVars
-----------------------------------------------------------------------------
(* Properties.                                                             *)

Measured == xAt = "sent" /\ xReply = "done" /\ xPre # None /\ xPost # None

\* What verifyActionEffect says of an action rests on what was read: where it claims an effect the
\* tab's url or the page really was different at the second snapshot (a typed field: holds text),
\* and where it says nothing happened under the same url nothing it looks at was different, although
\* a snapshot reads the url first and the page later, when it may be another page or not answer.
EffectWasMeasured ==
    Measured =>
        /\ Outcome = "effect" => xWas # xIs \/ (xAct.kind = "type" /\ xIs.length = 1)
        /\ Outcome = "no_effect" /\ xWas.url = xIs.url =>
              \A f \in Telling(xAct.kind) :
                  xWas[f] = xIs[f] \/ (f = "length" /\ None \in {xWas.length, xIs.length})

\* An action given up after 10 s may still run when the page is free again, but never between the
\* snapshots of a later action, whose effect it would be taken for.
EffectIsItsOwn == Measured => ~xLate

-----------------------------------------------------------------------------
(* What the repository says and the code does not do.                      *)

\* The element an action runs on is the one the loop saw under that id: the scanner's comment
\* calls the selector that is looked up again unique.
ClickedIsJudged ==
    xAct # None /\ xAct.kind \in {"click", "type", "select"} => xHit \in {None, xAct.el}
=============================================================================
