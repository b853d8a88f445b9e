--------------------------- MODULE PagePerception ---------------------------
(* One reading of the page (perceivePage in serviceWorker.ts): the content *)
(* script's scan, a picture of the visible tab, the text an on-device      *)
(* engine reads off it, the fusion of what they found, and the minimized   *)
(* context the model may see.  Several runs may read at once (a superseded *)
(* one stops only at its next checkpoint); they share the window and the   *)
(* engine, and between two awaits the user switches tabs and pages         *)
(* navigate.                                                               *)
(*                                                                         *)
(* Boxes have one dimension, <<at, size>>; a confidence is a percentage;   *)
(* an id is a number, those of the picture's text from Drawn on; a label   *)
(* and a text stand for themselves only as "there is one".                 *)
EXTENDS Integers, Sequences, FiniteSets, SequencesExt, Sifting, Absent

CONSTANTS Pages,        \* the pages a tab may show
          Readers,      \* the runs; each has a tab of its own name
          OtherTab,     \* a tab of the user's
          Scale,        \* the picture's size over the viewport's
          Height,       \* of the viewport
          Drawn,        \* the first id of what is read off a picture
          MaxOffered,   \* DEFAULT_MAX_CONTEXT_DETECTIONS
          MaxMoves      \* bound on what user and pages do meanwhile

VARIABLES vPage,    \* the page each tab shows
          vActive,  \* the tab the window shows
          vMoves,   \* how often user and pages moved
          vVisual,  \* does the task ask for what only a picture shows?
          vRead,    \* what each run is reading
          vKnown,   \* OffscreenOCREngine.initialized
          vDoc,     \* is there an offscreen document?
          vJobs     \* the engine's requests: which run's, and the picture

perceptionVars == <<vPage, vActive, vMoves, vVisual, vRead, vKnown, vDoc, vJobs>>

Tabs == Readers \cup {OtherTab}

-----------------------------------------------------------------------------
(* The policy.                                                             *)

\* CATEGORY_POLICY: severity, must it be redacted
Policy == [card |-> [rank |-> 3, redact |-> TRUE], account |-> [rank |-> 2, redact |-> TRUE],
           address |-> [rank |-> 1, redact |-> TRUE], email |-> [rank |-> 1, redact |-> FALSE],
           name |-> [rank |-> 1, redact |-> FALSE], button |-> [rank |-> 0, redact |-> FALSE],
           text |-> [rank |-> 0, redact |-> FALSE]]
UnknownRank == 4
Rank(category) == IF category \in DOMAIN Policy THEN Policy[category].rank ELSE UnknownRank
Sensitive(category) == Rank(category) \in 1 .. 3
Floor == 50

\* decideTransmission: what is unknown or uncertain fails closed
Decide(category, sure) ==
    IF category \notin DOMAIN Policy \/ sure < Floor
      THEN [rank |-> UnknownRank, redact |-> TRUE, export |-> FALSE]
      ELSE [rank |-> Rank(category), redact |-> Policy[category].redact, export |-> TRUE]

-----------------------------------------------------------------------------
(* Fusion.                                                                 *)

\* a candidate; named: a word of the task names it
IsCandidate(c) ==
    /\ DOMAIN c = {"id", "category", "sure", "box", "selector", "named"}
    /\ c.id \in Nat /\ c.sure \in 0 .. 100

Least(a, b) == IF a < b THEN a ELSE b
Most(a, b) == IF a < b THEN b ELSE a

Overlap(a, b) == Most(0, Least(a[1] + a[2], b[1] + b[2]) - Most(a[1], b[1]))

\* containmentRatio reaches percent
Contained(a, b, percent) ==
    /\ a # None /\ b # None /\ Least(a[2], b[2]) > 0
    /\ Overlap(a, b) * 100 >= percent * Least(a[2], b[2])

\* shouldMerge
Merges(c, d) ==
    \/ c.id = d.id
    \/ c.selector # None /\ c.selector = d.selector
    \/ Contained(c.box, d.box, IF c.category = d.category THEN 60 ELSE 90)

\* a candidate joins the first group one of whose members it merges with
Join(groups, c) ==
    LET fit == {g \in DOMAIN groups : \E i \in DOMAIN groups[g] : Merges(groups[g][i], c)}
        first == CHOOSE g \in fit : \A h \in fit : g <= h
    IN IF fit = {} THEN Append(groups, <<c>>) ELSE [groups EXCEPT ![first] = Append(@, c)]

\* more severe, or as severe and surer
Stronger(c, d) ==
    \/ Rank(c.category) > Rank(d.category)
    \/ Rank(c.category) = Rank(d.category) /\ c.sure > d.sure

\* a build in which the surest signal names the group
StrongestBySureness(group) ==
    group[CHOOSE i \in DOMAIN group :
             \A j \in DOMAIN group : group[j].sure <= group[i].sure].category

\* the category of a finding: the strongest of its group
Strongest(group) ==
    group[CHOOSE i \in DOMAIN group :
             \A j \in DOMAIN group : /\ ~Stronger(group[j], group[i])
                                     /\ j < i => Stronger(group[i], group[j])].category

\* unionRegion
Union(group) ==
    LET boxes == {group[i].box : i \in DOMAIN group} \ {None}
        from == CHOOSE n \in {b[1] : b \in boxes} : \A b \in boxes : n <= b[1]
        to == CHOOSE n \in {b[1] + b[2] : b \in boxes} : \A b \in boxes : n >= b[1] + b[2]
    IN IF boxes = {} THEN None ELSE <<from, to - from>>

\* buildFinding
Finding(group) ==
    LET category == Strongest(group)
        sure == CHOOSE n \in {group[i].sure : i \in DOMAIN group} :
                   \A i \in DOMAIN group : group[i].sure <= n
        decision == Decide(category, sure)
        placed == Union(group) # None \/ \E i \in DOMAIN group : group[i].selector # None
    IN [group |-> group, category |-> category, sure |-> sure,
        rank |-> decision.rank, redact |-> decision.redact,
        export |-> decision.export /\ (decision.redact => placed),
        named |-> \E i \in DOMAIN group : group[i].named]

\* fusePrivacyFindings
Fused(candidates) ==
    LET joined[i \in 0 .. Len(candidates)] ==
            IF i = 0 THEN <<>> ELSE Join(joined[i - 1], candidates[i])
        groups == joined[Len(candidates)]
    IN [g \in DOMAIN groups |-> Finding(groups[g])]

-----------------------------------------------------------------------------
(* The content script.                                                     *)

\* performPrivacyScan: what is sensitive, then the controls that are not
Report(page) ==
    page.signals \o Among(page.controls,
        {c \in Range(page.controls) : \A i \in DOMAIN page.signals :
             page.signals[i].selector # c.selector /\ page.signals[i].id # c.id})

\* What a page may hold.  A control has the id the page gives it: several may have
\* the same one, and a password field of a frame, which the detector of sensitive
\* fields does not look at, the id of a button.
IsPage(page) ==
    /\ page.signals \in Seq(Range(page.signals)) /\ page.controls \in Seq(Range(page.controls))
    /\ page.hints \in Seq(Range(page.hints)) /\ page.lines \in Seq(Range(page.lines))
    /\ \A c \in Range(page.signals) \cup Range(page.controls) \cup Range(page.hints) : IsCandidate(c)
    /\ \A line \in Range(page.lines) : line.sure \in 0 .. 100

ASSUME PagesAssumption ==
    /\ \A page \in Pages : IsPage(page)
    /\ {Drawn, MaxOffered} \subseteq Nat

-----------------------------------------------------------------------------
(* The picture.                                                            *)

\* mapDOMToScreenshot: clipped to the viewport, in the picture's units; a
\* reading without geometry takes the page for unscrolled.  None: off screen
Mapped(box, scroll, scale) ==
    LET from == Most(0, box[1] - scroll)
        to == Least(Height, box[1] + box[2] - scroll)
    IN IF to <= from \/ scale = 0 THEN None ELSE <<from * scale, (to - from) * scale>>

\* processSpatialOCRResult leaves a degenerate line out
Legible(line) == line.box[2] > 0

\* coordinateMultimodalPerception: lines that a contextual detector takes for a
\* name are withheld by their number in the list of lines
Regions(lines) ==
    LET kept == Among(lines, {line \in Range(lines) : Legible(line)})
    IN [i \in DOMAIN kept |->
          [line |-> kept[i],
           is |-> IF i \in DOMAIN lines /\ lines[i].sort = "cued" THEN "name"
                  ELSE IF kept[i].sort = "cued" THEN "safe" ELSE kept[i].sort]]

Present(all) == Among(all, Range(all) \ {None})

Candidate(id, category, sure, box, selector) ==
    [id |-> id, category |-> category, sure |-> sure, box |-> box, selector |-> selector,
     named |-> FALSE]

\* the text that may be shown: every one under the same selector
Shown(regions) ==
    LET all == [i \in DOMAIN regions |->
                  IF regions[i].is = "safe"
                    THEN Candidate(Drawn + i, "text", regions[i].line.sure, regions[i].line.box,
                                   "canvas:visual-text")
                    ELSE None]
    IN Present(all)

\* what is sensitive in the picture, and what the contextual detector adds, at
\* its own place
Hidden(regions) ==
    LET all == [i \in DOMAIN regions |->
                  IF Sensitive(regions[i].is)
                    THEN Candidate(Drawn + i, regions[i].is, regions[i].line.sure,
                                   regions[i].line.box, None)
                    ELSE None]
    IN Present(all)
Contextual(lines) ==
    LET all == [i \in DOMAIN lines |->
                  IF lines[i].sort = "cued"
                    THEN Candidate(2 * Drawn + i, "name", 80, IF lines[i].words THEN lines[i].box ELSE None, None)
                    ELSE None]
    IN Present(all)

\* the sensitive elements of the page where the picture shows them
Twins(report, scroll, scale) ==
    LET all == [i \in DOMAIN report |->
                  IF Sensitive(report[i].category) /\ Mapped(report[i].box, scroll, scale) # None
                    THEN [report[i] EXCEPT !.box = Mapped(@, scroll, scale)]
                    ELSE None]
    IN Present(all)

\* the findings of the world model once the picture was read
Seen(report, scroll, scale, lines) ==
    Fused(report \o Twins(report, scroll, scale) \o Shown(Regions(lines))
                 \o Hidden(Regions(lines)) \o Contextual(lines))

-----------------------------------------------------------------------------
(* The context the model may see.                                          *)

\* buildAgentPayload: the report, and of the picture what has no id of its
Payload(report, visual) ==
    report \o Among(visual, {v \in Range(visual) : \A i \in DOMAIN report : report[i].id # v.id})

\* toExportedDetection: the first id that does not begin as those of the older
\* text detector do; none of this pipeline does, not even those of a picture's lines
Named(finding) == finding.group[1].id

\* minimizeAgentContext: ranked by severity, relevance, sureness and id
Before(f, g) ==
    \/ f.rank > g.rank
    \/ f.rank = g.rank /\ f.named /\ ~g.named
    \/ f.rank = g.rank /\ f.named = g.named /\ f.sure > g.sure
    \/ f.rank = g.rank /\ f.named = g.named /\ f.sure = g.sure /\ Named(f) < Named(g)

\* of the findings with these numbers the one that is offered first; of two alike
\* the earlier
FirstOffered(findings, left) ==
    CHOOSE i \in left : \A j \in left :
       /\ ~Before(findings[j], findings[i])
       /\ j < i => Before(findings[i], findings[j])

Minimized(payload) ==
    LET all == Fused(payload)
        exported == Among(all, {f \in Range(all) : f.export})
        left[i \in 0 .. Len(exported)] ==
            IF i = 0 THEN DOMAIN exported
            ELSE left[i - 1] \ {FirstOffered(exported, left[i - 1])}
        Next(i) == exported[FirstOffered(exported, left[i - 1])]
    IN [i \in 1 .. Least(MaxOffered, Len(exported)) |->
           [id |-> Named(Next(i)), category |-> Next(i).category, of |-> Next(i).group]]

\* filterAffordancesToOfferedIds
Kept(affordances, offered) ==
    {a \in affordances : a = None \/ \E i \in DOMAIN offered : offered[i].id = a}
-----------------------------------------------------------------------------
Unread == [at |-> "start", page |-> None, url |-> None, scroll |-> 0, shot |-> None,
           lines |-> <<>>, state |-> None, findings |-> <<>>, payload |-> <<>>,
           offered |-> <<>>, affordances |-> {}]

PerceptionInit ==
    /\ vPage \in [Tabs -> Pages] /\ vActive \in Tabs /\ vMoves = 0 /\ vVisual \in BOOLEAN
    /\ vRead = [r \in Readers |-> Unread]
    /\ vKnown = FALSE /\ vDoc = FALSE /\ vJobs = <<>>

At(r, at) == vRead[r].at = at
Learnt(read, facts) == [of \in DOMAIN read |-> IF of \in DOMAIN facts THEN facts[of] ELSE read[of]]
Learn(r, facts) == vRead' = [vRead EXCEPT ![r] = Learnt(@, facts)]

\* the scan of the page and, of an excluded one, its empty report
Scan(r) ==
    /\ At(r, "start")
    /\ LET page == vPage[r]
           report == IF page.excluded THEN <<>> ELSE Report(page)
       IN Learn(r, [at |-> "scanned", page |-> page, payload |-> report,
                    findings |-> Fused(report \o page.hints)])
    /\ UNCHANGED <<vPage, vActive, vMoves, vVisual, vKnown, vDoc, vJobs>>

\* the tab is looked up and shown
Locate(r) ==
    /\ At(r, "scanned")
    /\ Learn(r, [at |-> "located", url |-> vPage[r].id])
    /\ vActive' = r
    /\ UNCHANGED <<vPage, vMoves, vVisual, vKnown, vDoc, vJobs>>

\* readLiveViewportGeometry, or nothing within 1.5 s
Measure(r) ==
    /\ At(r, "located")
    /\ \E scroll \in {vPage[r].scroll, 0} : Learn(r, [at |-> "measured", scroll |-> scroll])
    /\ UNCHANGED <<vPage, vActive, vMoves, vVisual, vKnown, vDoc, vJobs>>

\* isNonDOMPerceptionRequired
NeedsPicture(page) == vVisual \/ page.excluded \/ page.canvas \/ Report(page) = <<>>

\* coordinateMultimodalPerception, up to the engine: the visible tab's picture
\* or, when that fails, the one of the provider
Capture(r) ==
    /\ At(r, "measured")
    /\ IF ~NeedsPicture(vRead[r].page)
         THEN Learn(r, [at |-> "coordinated", state |-> "NOT_APPLICABLE"])
         ELSE \E shot \in {[tab |-> vActive, page |-> vPage[vActive]], [tab |-> None, page |-> None]} :
                 Learn(r, [at |-> "pictured", shot |-> shot])
    /\ UNCHANGED <<vPage, vActive, vMoves, vVisual, vKnown, vDoc, vJobs>>

\* OffscreenOCREngine.init and recognize: a document is made once, then taken
\* to be there; the request waits for those before it
Send(r) ==
    /\ At(r, "pictured")
    /\ \/ /\ vDoc \/ ~vKnown
          /\ vKnown' = TRUE /\ vDoc' = TRUE
          /\ vJobs' = Append(vJobs, [of |-> r, shot |-> vRead[r].shot])
          /\ Learn(r, [at |-> "reading"])
       \/ /\ ~vDoc
          /\ Learn(r, [at |-> "coordinated", state |-> "UNAVAILABLE"])
          /\ UNCHANGED <<vKnown, vDoc, vJobs>>
    /\ UNCHANGED <<vPage, vActive, vMoves, vVisual>>

LinesOf(shot) == IF shot.tab = None THEN <<>> ELSE shot.page.lines

\* the engine answers the first request; nobody may be waiting any more
Recognised ==
    /\ vJobs # <<>>
    /\ LET r == Head(vJobs).of
       IN IF At(r, "reading")
            THEN \/ Learn(r, [at |-> "coordinated", state |-> "OBSERVED",
                              lines |-> LinesOf(Head(vJobs).shot)])
                 \/ Learn(r, [at |-> "coordinated", state |-> "UNAVAILABLE"])
            ELSE UNCHANGED vRead
    /\ vJobs' = Tail(vJobs)
    /\ UNCHANGED <<vPage, vActive, vMoves, vVisual, vKnown, vDoc>>

\* 15 s passed
GivesUp(r) ==
    /\ At(r, "reading")
    /\ Learn(r, [at |-> "coordinated", state |-> "UNAVAILABLE"])
    /\ UNCHANGED <<vPage, vActive, vMoves, vVisual, vKnown, vDoc, vJobs>>

\* the rest of the coordination, buildAgentPayload and minimizeAgentContext;
\* an excluded page gives no context
Conclude(r) ==
    /\ At(r, "coordinated")
    /\ LET read == vRead[r]
           scale == CASE read.shot = None -> 1 [] read.shot # None /\ read.shot.tab = None -> 0
                      [] OTHER -> Scale
           report == read.payload
           visual == Twins(report, read.scroll, scale) \o Shown(Regions(read.lines))
           payload == Payload(report, visual)
           offered == IF read.page.excluded THEN <<>> ELSE Minimized(payload)
       IN Learn(r, [at |-> "done", payload |-> payload, offered |-> offered,
                    findings |-> Seen(report, read.scroll, scale, read.lines),
                    affordances |-> Kept(read.page.affordances, offered)])
    /\ UNCHANGED <<vPage, vActive, vMoves, vVisual, vKnown, vDoc, vJobs>>

\* a lookup fails: the context is made of the scan alone
Skip(r) ==
    /\ At(r, "scanned")
    /\ LET offered == IF vRead[r].page.excluded THEN <<>> ELSE Minimized(vRead[r].payload)
       IN Learn(r, [at |-> "done", offered |-> offered,
                    affordances |-> Kept(vRead[r].page.affordances, offered)])
    /\ UNCHANGED <<vPage, vActive, vMoves, vVisual, vKnown, vDoc, vJobs>>

\* the user looks at another tab
Switch(t) ==
    /\ vMoves < MaxMoves /\ t # vActive
    /\ vActive' = t /\ vMoves' = vMoves + 1
    /\ UNCHANGED <<vPage, vVisual, vRead, vKnown, vDoc, vJobs>>

\* a run's page gives way to another
Leave(r, page) ==
    /\ vMoves < MaxMoves /\ page # vPage[r]
    /\ vPage' = [vPage EXCEPT ![r] = page] /\ vMoves' = vMoves + 1
    /\ UNCHANGED <<vActive, vVisual, vRead, vKnown, vDoc, vJobs>>

\* the browser drops the offscreen document, and whoever waits is told
DocumentGone ==
    /\ vDoc /\ vMoves < MaxMoves
    /\ vDoc' = FALSE /\ vJobs' = <<>> /\ vMoves' = vMoves + 1
    /\ vRead' = [r \in Readers |-> IF At(r, "reading")
                                     THEN Learnt(vRead[r], [at |-> "coordinated", state |-> "UNAVAILABLE"])
                                     ELSE vRead[r]]
    /\ UNCHANGED <<vPage, vActive, vVisual, vKnown>>

PerceptionNext ==
    \/ \E r \in Readers : \/ Scan(r) \/ Locate(r) \/ Measure(r) \/ Capture(r) \/ Send(r)
                          \/ GivesUp(r) \/ Conclude(r) \/ Skip(r)
                          \/ \E page \in Pages : Leave(r, page)
    \/ \E t \in Tabs : Switch(t)
    \/ Recognised \/ DocumentGone

PerceptionSpec == PerceptionInit /\ [][PerceptionNext]_perceptionVars

-----------------------------------------------------------------------------
(* Properties.                                                             *)

\* Whatever the fusion makes of signals that overlap or share an id, none is lost
\* and none counts less than it did: each element the model's context is made of is
\* in a finding, no finding is milder than one of its signals, and what the model
\* is offered is at least as severe as every element merged into it and bears the
\* id of one of them.  (Where a page gives one id to several elements that are not
\* merged, the id alone does not tell which of them is offered.)
SensitiveKept ==
    \A r \in Readers : At(r, "done") =>
       LET read == vRead[r]
       IN /\ \A c \in Range(read.payload) :
                \E i \in DOMAIN read.findings : c \in Range(read.findings[i].group)
          /\ \A i \in DOMAIN read.findings : \A c \in Range(read.findings[i].group) :
                Rank(c.category) <= read.findings[i].rank
          /\ \A i \in DOMAIN read.offered :
                LET offer == read.offered[i]
                IN /\ \A c \in Range(offer.of) :
                         c \in Range(read.payload) /\ Rank(c.category) <= Rank(offer.category)
                   /\ \E c \in Range(offer.of) : c.id = offer.id

\* The model is never shown an affordance of an element that is not among those
\* it may name, though fusion, withholding and the bound each remove elements.
NoDecoys ==
    \A r \in Readers : At(r, "done") =>
       \A a \in vRead[r].affordances \ {None} :
          \E i \in DOMAIN vRead[r].offered : vRead[r].offered[i].id = a

-----------------------------------------------------------------------------
(* What the repository says and the code does not do.                      *)

\* A reading that says OBSERVED was made from a picture of the run's own tab,
\* showing the document it names.
ObservedIsReal ==
    \A r \in Readers : vRead[r].state = "OBSERVED" =>
       vRead[r].shot.tab = r /\ vRead[r].shot.page.id = vRead[r].url
=============================================================================
