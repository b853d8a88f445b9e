------------------------- MODULE PageEvidenceProofs -------------------------
(* For every page, every reading of it and every bound: a success is told  *)
(* with what was found, a record that went stale stays so, and what a run  *)
(* tells is undisputed among what it has read.                             *)
EXTENDS PageEvidence, FiniteSetTheorems, WellFoundedInduction, TLAPS

-----------------------------------------------------------------------------
(* Success.                                                                *)

Informed ==
    /\ pc # "done" => status = "IN_PROGRESS"
    /\ why \in {"cycle", "arrival", "retry"}
    /\ InformedSuccess

\* A verdict that holds where evidence is needed has records to tell.
LEMMA SatisfiedIsComposed ==
  ASSUME NEW satisfied, NEW published, published = {r.key : r \in VerifiedView},
         GoalSatisfied(satisfied, published), ComposeAnswer, NeedsEvidence
  PROVE  answer' # {}
<1>1. PICK r \in VerifiedView : r.key \in Subject
  BY DEF GoalSatisfied
<1>2. r \in Composed
  BY <1>1 DEF Composed
<1> QED BY <1>2 DEF ComposeAnswer

LEMMA VerdictInforms ==
  ASSUME Informed, NEW satisfied, NEW next, Verdict(satisfied, next), pc # "done", why' = why
  PROVE  Informed'
<1> DEFINE published == {r.key : r \in VerifiedView}
<1>1. CASE GoalSatisfied(satisfied, published)
  <2>1. pc' = "done" /\ status' = "SUCCESS" /\ ComposeAnswer
    BY <1>1 DEF Verdict, End
  <2>2. NeedsEvidence => answer' # {}
    <3> HIDE DEF published
    <3>1. published = {r.key : r \in VerifiedView}
      BY DEF published
    <3> QED BY <1>1, <2>1, <3>1, SatisfiedIsComposed
  <2> QED BY <2>1, <2>2 DEF Informed, InformedSuccess
<1>2. CASE ~GoalSatisfied(satisfied, published)
  <2>1. status' = status
    BY <1>2 DEF Verdict
  <2> QED BY <2>1 DEF Informed, InformedSuccess
<1> QED BY <1>1, <1>2

LEMMA InformedPreserved == Informed /\ [Next]_vars => Informed'
<1> SUFFICES ASSUME Informed, [Next]_vars
             PROVE  Informed'
  OBVIOUS
<1>1. CASE UNCHANGED vars
  BY <1>1 DEF vars, control, Informed, InformedSuccess
<1> SUFFICES ASSUME Next
             PROVE  Informed'
  BY <1>1
<1>0. pc # "done" /\ status = "IN_PROGRESS"
  BY DEF Next, Informed
<1>a. why \in {"cycle", "arrival", "retry"}
  BY DEF Informed
<1>2. CASE Tab
  BY <1>2 DEF Tab, InitialScan, PageMoves, control, Informed, InformedSuccess
<1>3. CASE Perceive
  <2>1. status' # "SUCCESS" /\ (pc' # "done" => status' = "IN_PROGRESS")
        /\ why' \in {"cycle", "arrival", "retry"}
    <3>1. CASE StartCycle \/ ScanFails
      BY <1>0, <1>a, <3>1 DEF StartCycle, ScanFails, AfterRefusal, End
    <3>2. CASE \E built, safe \in Builds, shown \in Displays : Scan(built, safe, shown)
      BY <1>0, <1>a, <3>2 DEF Scan
    <3>3. ASSUME NEW placed \in BOOLEAN, NEW arrived \in BOOLEAN, Observe(placed, arrived)
          PROVE  status' # "SUCCESS" /\ (pc' # "done" => status' = "IN_PROGRESS") /\ why' = why
      <4>1. Attach(arrived) /\ why' = why
        BY <3>3 DEF Observe
      <4> QED BY <1>0, <1>a, <4>1 DEF Attach, AfterRefusal, End
    <3> QED BY <1>3, <1>a, <3>1, <3>2, <3>3 DEF Perceive
  <2> QED BY <2>1 DEF Informed, InformedSuccess
<1>4. ASSUME NEW satisfied \in BOOLEAN, Judge(satisfied) \/ JudgeAfterAction(satisfied)
      PROVE  Informed'
  BY <1>0, <1>4, VerdictInforms DEF Judge, JudgeAfterAction
<1>5. ASSUME NEW kind \in Kinds, NEW cited \in SUBSET ledger, Propose(kind, cited)
      PROVE  Informed'
  <2>1. pc' = "done" /\ status' # "SUCCESS" /\ why' = why
    BY <1>5 DEF Propose, End, Outcome
  <2> QED BY <1>a, <2>1 DEF Informed, InformedSuccess
<1>6. CASE \/ ProposeMalformed \/ ReasoningFails \/ ActionFails
           \/ \E destination \in BOOLEAN : NoEffect(destination)
           \/ \E abort \in BOOLEAN : Recover(abort)
           \/ \E engine, satisfied, navigates \in BOOLEAN : ActionSucceeds(engine, satisfied, navigates)
           \/ \E settled \in BOOLEAN : Settle(settled)
  <2>1. status' # "SUCCESS" /\ (pc' # "done" => status' = "IN_PROGRESS")
        /\ why' \in {"cycle", "arrival", "retry"}
    BY <1>0, <1>a, <1>6 DEF ProposeMalformed, ReasoningFails, ActionFails, NoEffect, Recover,
                      ActionSucceeds, Settle, End
  <2> QED BY <2>1 DEF Informed, InformedSuccess
<1> QED BY <1>2, <1>3, <1>4, <1>5, <1>6 DEF Next, Decide

\* Whatever pages a run passes, where evidence is needed it is in the answer of
\* a run that succeeds.
THEOREM InformedAlways == Spec => []InformedSuccess
<1>1. Init => Informed
  BY DEF Init, Informed, InformedSuccess
<1>2. Informed => InformedSuccess
  BY DEF Informed
<1> QED BY <1>1, <1>2, InformedPreserved, PTL DEF Spec

-----------------------------------------------------------------------------
(* Staleness.  No two records are of the same place of the same reading,   *)
(* so a record of a later ledger is an earlier one as the readings left    *)
(* it, or is new.                                                          *)

Rec(r) ==
    /\ DOMAIN r = {"key", "claim", "url", "gen", "fresh", "ver", "read", "pos"}
    /\ r = [field \in DOMAIN r |-> r[field]]

OnePlace(records) == \A r, q \in records : r.read = q.read /\ r.pos = q.pos => r = q

Ordered ==
    /\ reads \in Nat
    /\ \E n \in Nat : DOMAIN reading.facts = 1 .. n
    /\ \A r \in ledger : Rec(r) /\ r.read \in 0 .. reads /\ (~r.fresh => r.ver # "VERIFIED")
    /\ OnePlace(ledger)

LEMMA Least ==
  ASSUME NEW T, T \subseteq Nat, T # {}
  PROVE  \E x \in T : \A y \in T : x <= y
<1>1. PICK x \in T : \A y \in T : ~(<<y, x>> \in OpToRel(<, Nat))
  BY NatLessThanWellFounded, WFMin, Zenon
<1>2. ASSUME NEW y \in T
      PROVE  x <= y
  <2>1. ~(<<y, x>> \in {ss \in Nat \X Nat : ss[1] < ss[2]})
    BY <1>1 DEF OpToRel
  <2> QED BY <2>1
<1> QED BY <1>2

LEMMA ExtractNumbered ==
  ASSUME NEW shown \in Displays
  PROVE  \E n \in Nat : DOMAIN Extract(shown) = 1 .. n
<1> DEFINE safe == {i \in DOMAIN shown : shown[i][2] \notin Raw}
           Before(i) == Cardinality({j \in safe : j < i})
           kept == {i \in safe : Before(i) < MaxFacts}
<1>1. shown \in Seq(Fact) /\ DOMAIN shown = 1 .. Len(shown) /\ Len(shown) \in Nat
  BY EvidenceAssumption
<1>2. IsFiniteSet(DOMAIN shown)
  BY <1>1, FS_Interval
<1>3. kept \subseteq DOMAIN shown
  OBVIOUS
<1>4. Cardinality(kept) \in Nat
  BY <1>2, <1>3, FS_Subset, FS_CardinalityType
<1>5. Extract(shown) = [n \in 1 .. Cardinality(kept) |-> shown[CHOOSE i \in kept : Before(i) = n - 1]]
  BY DEF Extract
<1> HIDE DEF kept, Before
<1> QED BY <1>4, <1>5

\* What a reading of another number makes of a record.
Aged(r, gen) == IF r.gen = gen THEN r ELSE [r EXCEPT !.fresh = FALSE, !.ver = "INVALIDATED"]

\* What the re-reading of the page makes of a record that is held.
Now(r, scan, url, held) ==
    LET NewOf(key) == {f[2] : f \in {g \in ToSet(scan.facts) : g[1] = key}}
        HeldOf(key) == {q.claim : q \in Rivals(held, url, scan.gen, key)}
    IN  IF r.url = url /\ r.gen = scan.gen THEN Reread(r, HeldOf(r.key), NewOf(r.key)) ELSE r

LEMMA AdvanceKeeps ==
  ASSUME NEW records, \A r \in records : Rec(r) /\ (~r.fresh => r.ver # "VERIFIED"), NEW gen,
         NEW q \in Advance(records, gen)
  PROVE  \E r \in records : /\ q.read = r.read /\ q.pos = r.pos /\ Rec(q)
                            /\ ~q.fresh => q.ver # "VERIFIED"
                            /\ ~r.fresh => ~q.fresh
                            /\ q = Aged(r, gen)
<1>1. PICK r \in records : q = Aged(r, gen)
  BY DEF Advance, Aged
<1>2. CASE r.gen = gen
  BY <1>1, <1>2 DEF Aged
<1>3. CASE r.gen # gen
  <2>1. Rec(r)
    OBVIOUS
  <2>2. /\ q.read = r.read /\ q.pos = r.pos /\ Rec(q) /\ q.ver = "INVALIDATED" /\ ~q.fresh
    BY <1>1, <1>3, <2>1 DEF Rec, Aged
  <2> QED BY <1>1, <2>2
<1> QED BY <1>2, <1>3

LEMMA NowKeeps ==
  ASSUME NEW r, Rec(r), ~r.fresh => r.ver # "VERIFIED", NEW scan, NEW url, NEW held,
         NEW q, q = Now(r, scan, url, held)
  PROVE  /\ q.read = r.read /\ q.pos = r.pos /\ Rec(q)
         /\ ~q.fresh => q.ver # "VERIFIED"
         /\ ~r.fresh => ~q.fresh
<1>1. \/ q = r
      \/ q = [r EXCEPT !.ver = "CONFLICTED"]
      \/ r.fresh /\ q = [r EXCEPT !.ver = "VERIFIED"]
  BY DEF Now, Reread
<1>2. ASSUME NEW v, q = [r EXCEPT !.ver = v]
      PROVE  q.read = r.read /\ q.pos = r.pos /\ Rec(q) /\ q.fresh = r.fresh /\ q.ver = v
  BY <1>2 DEF Rec
<1>3. q.read = r.read /\ q.pos = r.pos /\ Rec(q) /\ (~q.fresh => q.ver # "VERIFIED") /\ (~r.fresh => ~q.fresh)
  BY <1>1, <1>2
<1> QED BY <1>3

\* What a fact of the reading is recorded as.
New(f, scan, url) ==
    LET NewOf(key) == {g[2] : g \in {h \in ToSet(scan.facts) : h[1] = key}}
        HeldOf(key) == {r.claim : r \in Rivals(Advance(ledger, scan.gen), url, scan.gen, key)}
    IN  Recorded(scan, url, f[1], f[2], (HeldOf(f[1]) \cup NewOf(f[1])) \ {f[2]})

LEMMA IngestSplits ==
  ASSUME NEW scan, NEW url, NEW q \in Ingest(scan, url)
  PROVE  \/ \E h \in Advance(ledger, scan.gen) : q = Now(h, scan, url, Advance(ledger, scan.gen))
         \/ \E f \in ToSet(scan.facts) : q = New(f, scan, url)
BY DEF Ingest, Ring, Now, New

LEMMA NewPlace ==
  ASSUME NEW scan, NEW url, NEW n \in Nat, DOMAIN scan.facts = 1 .. n, NEW f \in ToSet(scan.facts)
  PROVE  LET q == New(f, scan, url)
         IN  /\ Rec(q) /\ q.read = reads + 1 /\ q.fresh /\ q.pos \in 1 .. n
             /\ f[1] = scan.facts[q.pos][1] /\ f[2] = scan.facts[q.pos][2]
<1> DEFINE saying == {i \in DOMAIN scan.facts : Says(scan.facts[i], f[1], f[2])}
           Opens(i) == /\ Says(scan.facts[i], f[1], f[2])
                       /\ \A j \in 1..(i - 1) : ~Says(scan.facts[j], f[1], f[2])
           at == CHOOSE i \in DOMAIN scan.facts : Opens(i)
           q == New(f, scan, url)
<1>1. \E i \in DOMAIN scan.facts : Opens(i)
  <2>1. saying \subseteq Nat /\ saying # {}
    BY DEF ToSet, Says
  <2>2. PICK i \in saying : \A j \in saying : i <= j
    <3> HIDE DEF saying
    <3> QED BY <2>1, Least
  <2>3. \A j \in 1 .. (i - 1) : j \in DOMAIN scan.facts /\ ~(i <= j)
    BY <2>2
  <2> QED BY <2>2, <2>3
<1>2. Opens(at) /\ at \in DOMAIN scan.facts
  <2> HIDE DEF Opens
  <2> QED BY <1>1
<1>3. PICK rivals : q = Recorded(scan, url, f[1], f[2], rivals)
  BY DEF New
<1>4. q.pos = at /\ q.read = reads + 1 /\ q.fresh /\ Rec(q)
  <2> DEFINE v == IF rivals # {} THEN "CONFLICTED"
                  ELSE IF f[2] \in Shaped THEN "UNVERIFIED" ELSE "VERIFIED"
  <2>1. q = [key |-> f[1], claim |-> f[2], url |-> url, gen |-> scan.gen, fresh |-> TRUE,
             ver |-> v, read |-> reads + 1, pos |-> at]
    BY <1>3 DEF Recorded
  <2> HIDE DEF v, at, q
  <2> QED BY <2>1 DEF Rec
<1> HIDE DEF q, at
<1>5. f[1] = scan.facts[q.pos][1] /\ f[2] = scan.facts[q.pos][2]
  BY <1>2, <1>4 DEF Says
<1> QED BY <1>2, <1>4, <1>5 DEF q

\* q is what became of r, which the reading found aged to h.
From(q, r, h, gen) ==
    /\ q.read = r.read /\ q.pos = r.pos
    /\ ~r.fresh => ~q.fresh
    /\ h = Aged(r, gen)

\* A record that was held, after the reading.
LEMMA HeldPlace ==
  ASSUME Ordered, NEW scan, NEW url, NEW h \in Advance(ledger, scan.gen),
         NEW q, q = Now(h, scan, url, Advance(ledger, scan.gen))
  PROVE  /\ Rec(q) /\ (~q.fresh => q.ver # "VERIFIED")
         /\ \E r \in ledger : From(q, r, h, scan.gen)
<1>1. PICK r \in ledger : /\ h.read = r.read /\ h.pos = r.pos /\ Rec(h)
                          /\ ~h.fresh => h.ver # "VERIFIED"
                          /\ ~r.fresh => ~h.fresh
                          /\ h = Aged(r, scan.gen)
  <2>1. \A r \in ledger : Rec(r) /\ (~r.fresh => r.ver # "VERIFIED")
    BY DEF Ordered
  <2> QED BY <2>1, AdvanceKeeps
<1>2. /\ q.read = h.read /\ q.pos = h.pos /\ Rec(q)
      /\ ~q.fresh => q.ver # "VERIFIED"
      /\ ~h.fresh => ~q.fresh
  BY <1>1, NowKeeps
<1> QED BY <1>1, <1>2 DEF From

LEMMA IngestOrders ==
  ASSUME Ordered, NEW scan, NEW n \in Nat, DOMAIN scan.facts = 1 .. n, NEW url
  PROVE  /\ \A q \in Ingest(scan, url) : Rec(q) /\ q.read \in 0 .. reads + 1 /\ (~q.fresh => q.ver # "VERIFIED")
         /\ OnePlace(Ingest(scan, url))
         /\ \A r \in ledger, q \in Ingest(scan, url) :
               r.read = q.read /\ r.pos = q.pos /\ ~r.fresh => ~q.fresh
<1> DEFINE held == Advance(ledger, scan.gen)
           IsHeld(q, h) == h \in held /\ q = Now(h, scan, url, held)
           IsNew(q, f) == f \in ToSet(scan.facts) /\ q = New(f, scan, url)
<1>0. reads \in Nat /\ OnePlace(ledger) /\ \A r \in ledger : r.read \in 0 .. reads
  BY DEF Ordered
<1>1. \A q \in Ingest(scan, url) : (\E h : IsHeld(q, h)) \/ (\E f : IsNew(q, f))
  BY IngestSplits
<1>2. ASSUME NEW q, NEW h, IsHeld(q, h)
      PROVE  /\ Rec(q) /\ (~q.fresh => q.ver # "VERIFIED")
             /\ \E r \in ledger : From(q, r, h, scan.gen)
  <2>1. h \in Advance(ledger, scan.gen) /\ q = Now(h, scan, url, Advance(ledger, scan.gen))
    BY <1>2
  <2> QED BY <2>1, HeldPlace
<1>3. ASSUME NEW q, NEW f, IsNew(q, f)
      PROVE  /\ Rec(q) /\ q.read = reads + 1 /\ q.fresh
             /\ f[1] = scan.facts[q.pos][1] /\ f[2] = scan.facts[q.pos][2]
  BY <1>3, NewPlace
<1>4. ASSUME NEW q \in Ingest(scan, url)
      PROVE  Rec(q) /\ q.read \in 0 .. reads + 1 /\ (~q.fresh => q.ver # "VERIFIED")
  <2> HIDE DEF IsHeld, IsNew
  <2>1. CASE \E h : IsHeld(q, h)
    <3>1. PICK h : IsHeld(q, h)
      BY <2>1
    <3>2. PICK r \in ledger : From(q, r, h, scan.gen)
      BY <1>2, <3>1
    <3> QED BY <1>0, <1>2, <3>1, <3>2 DEF From
  <2>2. CASE \E f : IsNew(q, f)
    BY <1>0, <1>3, <2>2
  <2> QED BY <1>1, <2>1, <2>2
<1>5. ASSUME NEW q \in Ingest(scan, url), NEW p \in Ingest(scan, url), q.read = p.read, q.pos = p.pos
      PROVE  q = p
  <2>1. ASSUME NEW h, NEW k, IsHeld(q, h), IsHeld(p, k)
        PROVE  q = p
    <3>1. PICK r \in ledger : From(q, r, h, scan.gen)
      <4> HIDE DEF IsHeld
      <4> QED BY <1>2, <2>1
    <3>2. PICK s \in ledger : From(p, s, k, scan.gen)
      <4> HIDE DEF IsHeld
      <4> QED BY <1>2, <2>1
    <3>3. r = s
      BY <1>0, <1>5, <3>1, <3>2 DEF OnePlace, From
    <3> QED BY <2>1, <3>1, <3>2, <3>3 DEF From
  <2>2. ASSUME NEW f, NEW g, IsNew(q, f), IsNew(p, g)
        PROVE  q = p
    <3>1. f[1] = g[1] /\ f[2] = g[2]
      <4> HIDE DEF IsNew
      <4> QED BY <1>3, <1>5, <2>2
    <3>2. New(f, scan, url) = New(g, scan, url)
      BY <3>1 DEF New
    <3> QED BY <2>2, <3>2
  <2>3. ASSUME NEW a, NEW b, NEW h, NEW f, IsHeld(a, h), IsNew(b, f), a.read = b.read
        PROVE  FALSE
    <3> HIDE DEF IsHeld, IsNew
    <3>1. a.read \in 0 .. reads /\ b.read = reads + 1
      BY <1>0, <1>2, <1>3, <2>3 DEF From
    <3> QED BY <1>0, <2>3, <3>1
  <2> HIDE DEF IsHeld, IsNew
  <2> QED BY <1>1, <1>5, <2>1, <2>2, <2>3
<1>6. ASSUME NEW r \in ledger, NEW q \in Ingest(scan, url), r.read = q.read, r.pos = q.pos, ~r.fresh
      PROVE  ~q.fresh
  <2> HIDE DEF IsHeld, IsNew
  <2>1. ASSUME NEW h, IsHeld(q, h)
        PROVE  ~q.fresh
    <3>1. PICK s \in ledger : From(q, s, h, scan.gen)
      BY <1>2, <2>1
    <3>2. s = r
      BY <1>0, <1>6, <3>1 DEF OnePlace, From
    <3> QED BY <1>6, <3>1, <3>2 DEF From
  <2>2. ASSUME NEW f, IsNew(q, f)
        PROVE  FALSE
    <3>1. q.read = reads + 1 /\ r.read \in 0 .. reads
      BY <1>0, <1>3, <2>2
    <3> QED BY <1>0, <1>6, <3>1
  <2> QED BY <1>1, <2>1, <2>2
<1> QED BY <1>4, <1>5, <1>6 DEF OnePlace

\* Every step but a reading leaves the ledger alone.
LEMMA LedgerStep ==
  ASSUME Ordered, [Next]_vars
  PROVE  /\ \E n \in Nat : DOMAIN reading'.facts = 1 .. n
         /\ \/ UNCHANGED <<ledger, reads>>
            \/ ledger' = Ingest(reading, tab.site) /\ reads' = reads + 1
<1>0. \E n \in Nat : DOMAIN reading.facts = 1 .. n
  BY DEF Ordered
<1>1. CASE UNCHANGED vars
  BY <1>0, <1>1 DEF vars, evidence
<1>2. CASE Tab
  <2>1. reading'.facts = reading.facts /\ UNCHANGED <<ledger, reads>>
    <3>1. CASE InitialScan
      BY <3>1 DEF InitialScan, evidence
    <3>2. ASSUME NEW site \in Sites, PageMoves(site)
          PROVE  reading'.facts = reading.facts /\ UNCHANGED <<ledger, reads>>
      BY <3>2 DEF PageMoves, evidence
    <3> QED BY <1>2, <3>1, <3>2 DEF Tab
  <2> QED BY <1>0, <2>1
<1>a. \E n \in Nat : DOMAIN <<>> = 1 .. n
  OBVIOUS
<1>3. ASSUME NEW built \in Builds, NEW safe \in Builds, NEW shown \in Displays, Scan(built, safe, shown)
      PROVE  /\ \E n \in Nat : DOMAIN reading'.facts = 1 .. n
             /\ UNCHANGED <<ledger, reads>>
  <2>1. reading'.facts = IF built /\ safe THEN Extract(shown) ELSE <<>>
    BY <1>3 DEF Scan
  <2> QED BY <1>3, <1>a, <2>1, ExtractNumbered DEF Scan, evidence
<1>4. ASSUME NEW placed \in BOOLEAN, NEW arrived \in BOOLEAN, Observe(placed, arrived)
      PROVE  /\ \E n \in Nat : DOMAIN reading'.facts = 1 .. n
             /\ \/ UNCHANGED <<ledger, reads>>
                \/ ledger' = Ingest(reading, tab.site) /\ reads' = reads + 1
  <2>1. reading'.facts = <<>>
    BY <1>4 DEF Observe, NoReading
  <2> QED BY <1>4, <1>a, <2>1 DEF Observe, evidence
<1>5. CASE StartCycle \/ ScanFails \/ Decide
  BY <1>0, <1>5 DEF StartCycle, ScanFails, Decide, Judge, JudgeAfterAction, Propose, ProposeMalformed,
                    ReasoningFails, ActionFails, NoEffect, Recover, ActionSucceeds, Settle, evidence
<1> QED BY <1>1, <1>2, <1>3, <1>4, <1>5 DEF Next, Perceive

LEMMA OrderedPreserved == Ordered /\ [Next]_vars => Ordered'
<1> SUFFICES ASSUME Ordered, [Next]_vars
             PROVE  Ordered'
  OBVIOUS
<1>1. CASE UNCHANGED <<ledger, reads>>
  BY <1>1, LedgerStep DEF Ordered, OnePlace
<1>2. CASE ledger' = Ingest(reading, tab.site) /\ reads' = reads + 1
  <2>1. PICK n \in Nat : DOMAIN reading.facts = 1 .. n
    BY DEF Ordered
  <2>2. /\ \A q \in ledger' : Rec(q) /\ q.read \in 0 .. reads' /\ (~q.fresh => q.ver # "VERIFIED")
        /\ OnePlace(ledger')
    BY <1>2, <2>1, IngestOrders
  <2>3. reads' \in Nat
    BY <1>2 DEF Ordered
  <2> QED BY <2>2, <2>3, LedgerStep DEF Ordered, OnePlace
<1> QED BY <1>1, <1>2, LedgerStep

\* A record that went stale is never evidence again, however the counters of
\* the origins restart and whatever the pages show.
THEOREM StaleForGood == Spec => StaleStaysStale
<1>1. Init => Ordered
  <2>1. \E n \in Nat : DOMAIN <<>> = 1 .. n
    OBVIOUS
  <2> QED BY <2>1 DEF Init, Ordered, OnePlace, NoReading
<1>2. Ordered /\ [Next]_vars =>
        [\A r \in ledger, q \in ledger' :
            /\ r.read = q.read /\ r.pos = q.pos
            /\ ~r.fresh
            => ~q.fresh /\ q.ver # "VERIFIED"]_vars
  <2> SUFFICES ASSUME Ordered, [Next]_vars, NEW r \in ledger, NEW q \in ledger',
                      r.read = q.read, r.pos = q.pos, ~r.fresh
               PROVE  ~q.fresh /\ q.ver # "VERIFIED"
    OBVIOUS
  <2>1. CASE UNCHANGED <<ledger, reads>>
    BY <2>1 DEF Ordered, OnePlace
  <2>2. CASE ledger' = Ingest(reading, tab.site) /\ reads' = reads + 1
    <3>1. PICK n \in Nat : DOMAIN reading.facts = 1 .. n
      BY DEF Ordered
    <3> QED BY <2>2, <3>1, IngestOrders
  <2> QED BY <2>1, <2>2, LedgerStep
<1> QED BY <1>1, <1>2, OrderedPreserved, PTL DEF Spec, StaleStaysStale

-----------------------------------------------------------------------------
(* What is told.  A fact that extractSemanticFacts keeps is one of those   *)
(* shown that are not raw.                                                 *)

\* How many of a set are before i, and those before which there are fewer than m.
Before(S, i) == Cardinality({j \in S : j < i})
First(S, m) == {i \in S : Before(S, i) < m}

LEMMA BeforeGrows ==
  ASSUME NEW S \in SUBSET Nat, IsFiniteSet(S)
  PROVE  /\ \A i \in S : Before(S, i) \in Nat /\ IsFiniteSet({j \in S : j < i})
         /\ \A i, j \in S : i < j => Before(S, i) < Before(S, j)
<1>1. ASSUME NEW i \in S PROVE IsFiniteSet({j \in S : j < i}) /\ Before(S, i) \in Nat
  <2>1. IsFiniteSet({j \in S : j < i})
    BY FS_Subset
  <2> QED BY <2>1, FS_CardinalityType DEF Before
<1>2. ASSUME NEW i \in S, NEW j \in S, i < j PROVE Before(S, i) < Before(S, j)
  <2> DEFINE a == {k \in S : k < i}
             b == {k \in S : k < j}
  <2>1. IsFiniteSet(a) /\ IsFiniteSet(b) /\ Cardinality(a) \in Nat /\ Cardinality(b) \in Nat
    BY <1>1, FS_CardinalityType
  <2>2. i \notin a /\ a \cup {i} \subseteq b
    <3>1. i \in Nat /\ j \in Nat /\ S \subseteq Nat
      OBVIOUS
    <3>2. i \notin a
      BY <3>1
    <3>3. ASSUME NEW k \in a PROVE k \in b
      <4>1. k \in S /\ k \in Nat /\ k < i
        BY <3>1
      <4> QED BY <1>2, <3>1, <4>1
    <3>4. i \in b
      BY <1>2
    <3> QED BY <3>2, <3>3, <3>4
  <2> HIDE DEF a, b
  <2>3. IsFiniteSet(a \cup {i}) /\ Cardinality(a \cup {i}) = Cardinality(a) + 1
    BY <2>1, <2>2, FS_AddElement
  <2>4. Cardinality(a \cup {i}) <= Cardinality(b)
    BY <2>1, <2>2, FS_Subset
  <2>5. Before(S, i) = Cardinality(a) /\ Before(S, j) = Cardinality(b)
    BY DEF Before, a, b
  <2> QED BY <2>1, <2>3, <2>4, <2>5
<1> QED BY <1>1, <1>2

\* The first ones have the ranks from 0 on, none left out.
LEMMA FirstRanked ==
  ASSUME NEW S \in SUBSET Nat, IsFiniteSet(S), NEW m \in Nat, NEW n \in 1 .. Cardinality(First(S, m))
  PROVE  \E i \in First(S, m) : Before(S, i) = n - 1
<1> DEFINE kept == First(S, m)
           low == {i \in kept : Before(S, i) < n - 1}
           high == kept \ low
<1>1. IsFiniteSet(kept) /\ Cardinality(kept) \in Nat /\ IsFiniteSet(low) /\ Cardinality(low) \in Nat
  <2>1. kept \subseteq S /\ low \subseteq S
    BY DEF First
  <2> HIDE DEF kept, low
  <2> QED BY <2>1, FS_Subset, FS_CardinalityType
<1>2. \A i \in kept : i \in S /\ i \in Nat /\ Before(S, i) \in Nat
  BY BeforeGrows DEF First
<1>0. n \in Nat /\ n >= 1 /\ n <= Cardinality(kept)
  BY <1>1
<1>3. Cardinality(low) <= n - 1
  <2> SUFFICES ASSUME n - 1 < Cardinality(low) PROVE FALSE
    BY <1>1
  <2> DEFINE f == [i \in low |-> Before(S, i)]
             T == 0 .. (n - 2)
  <2>1. f \in [low -> T]
    BY <1>2
  <2>2. IsFiniteSet(T) /\ Cardinality(T) = n - 1
    <3>1. 0 \in Int /\ n - 2 \in Int /\ n - 2 - 0 + 1 = n - 1 /\ (0 > n - 2 => n - 1 = 0)
      BY <1>0
    <3> QED BY <3>1, FS_Interval
  <2>3. PICK x \in low, y \in low : x # y /\ f[x] = f[y]
    <3> HIDE DEF f, T, low
    <3> QED BY <1>1, <2>1, <2>2, FS_PigeonHole
  <2>4. x \in S /\ y \in S /\ Before(S, x) = Before(S, y) /\ x \in Nat /\ y \in Nat
    BY <1>2, <2>3
  <2>5. x < y \/ y < x
    BY <2>3, <2>4
  <2> QED BY <1>2, <2>3, <2>4, <2>5, BeforeGrows
<1>4. high # {}
  <2>1. Cardinality(low) # Cardinality(kept)
    BY <1>1, <1>3
  <2>2. low \subseteq kept
    OBVIOUS
  <2> HIDE DEF kept
  <2> QED BY <2>1, <2>2
<1>5. PICK i \in high : \A j \in high : i <= j
  <2>1. high \subseteq Nat
    BY <1>2
  <2> HIDE DEF high
  <2> QED BY <1>4, <2>1, Least
<1>6. {j \in S : j < i} \subseteq low
  <2> SUFFICES ASSUME NEW j \in S, j < i PROVE j \in low
    OBVIOUS
  <2>1. Before(S, j) < Before(S, i) /\ Before(S, j) \in Nat /\ Before(S, i) < m /\ Before(S, i) \in Nat
    BY <1>2, <1>5, BeforeGrows DEF First
  <2>2. j \in kept
    BY <2>1 DEF First
  <2>3. ~(i <= j)
    <3>1. i \in Nat /\ j \in Nat
      BY <1>2, <1>5
    <3> QED BY <3>1
  <2> QED BY <1>5, <2>2, <2>3
<1>7. Before(S, i) <= n - 1
  <2>1. Before(S, i) <= Cardinality(low)
    <3> HIDE DEF low
    <3> QED BY <1>1, <1>6, FS_Subset DEF Before
  <2> QED BY <1>1, <1>2, <1>3, <1>5, <2>1
<1>8. Before(S, i) >= n - 1 /\ Before(S, i) \in Nat /\ i \in kept
  BY <1>2, <1>5
<1> QED BY <1>7, <1>8

LEMMA ExtractedIsShown ==
  ASSUME NEW shown \in Displays
  PROVE  Extract(shown) \in Seq(Fact) /\ \A n \in DOMAIN Extract(shown) : Extract(shown)[n][2] \notin Raw
<1> DEFINE safe == {i \in DOMAIN shown : shown[i][2] \notin Raw}
<1>1. shown \in Seq(Fact) /\ DOMAIN shown = 1 .. Len(shown) /\ Len(shown) \in Nat /\ MaxFacts \in Nat
  BY EvidenceAssumption
<1>2. IsFiniteSet(safe) /\ safe \in SUBSET Nat
  <2>1. IsFiniteSet(DOMAIN shown)
    BY <1>1, FS_Interval
  <2> QED BY <1>1, <2>1, FS_Subset
<1>3. Extract(shown) = [n \in 1 .. Cardinality(First(safe, MaxFacts)) |->
                          shown[CHOOSE i \in First(safe, MaxFacts) : Before(safe, i) = n - 1]]
  BY Zenon DEF Extract, First, Before
<1>4. ASSUME NEW n \in 1 .. Cardinality(First(safe, MaxFacts))
      PROVE  (CHOOSE i \in First(safe, MaxFacts) : Before(safe, i) = n - 1) \in safe
  <2> DEFINE at == CHOOSE i \in First(safe, MaxFacts) : Before(safe, i) = n - 1
  <2>1. at \in First(safe, MaxFacts)
    <3> HIDE DEF safe
    <3> QED BY <1>1, <1>2, FirstRanked
  <2> HIDE DEF safe, at
  <2>2. at \in safe
    BY <2>1 DEF First
  <2> QED BY <2>2 DEF at
<1>5. Cardinality(First(safe, MaxFacts)) \in Nat
  <2>1. First(safe, MaxFacts) \subseteq safe
    BY DEF First
  <2> HIDE DEF safe
  <2> QED BY <1>2, <2>1, FS_Subset, FS_CardinalityType
<1>6. \A i \in safe : shown[i] \in Fact /\ shown[i][2] \notin Raw
  BY <1>1
<1> DEFINE k == Cardinality(First(safe, MaxFacts))
           at(n) == CHOOSE i \in First(safe, MaxFacts) : Before(safe, i) = n - 1
<1>7. k \in Nat /\ Extract(shown) = [n \in 1 .. k |-> shown[at(n)]] /\ \A n \in 1 .. k : at(n) \in safe
  BY <1>3, <1>4, <1>5
<1> HIDE DEF safe, k, at
<1> QED BY <1>6, <1>7

-----------------------------------------------------------------------------
(* The numbers of the records, and what a verdict finds at its own.        *)

LEMMA IngestNumbers ==
  ASSUME Ordered, NEW scan, NEW n \in Nat, DOMAIN scan.facts = 1 .. n, NEW url, NEW q \in Ingest(scan, url)
  PROVE  \/ \E r \in ledger : q.gen = r.gen
         \/ q.gen = scan.gen
<1>1. CASE \E h \in Advance(ledger, scan.gen) : q = Now(h, scan, url, Advance(ledger, scan.gen))
  <2>1. PICK h \in Advance(ledger, scan.gen) : q = Now(h, scan, url, Advance(ledger, scan.gen))
    BY <1>1
  <2>2. PICK r \in ledger : Rec(h) /\ Rec(r) /\ h = Aged(r, scan.gen)
    <3>1. \A r \in ledger : Rec(r) /\ (~r.fresh => r.ver # "VERIFIED")
      BY DEF Ordered
    <3> QED BY <2>1, <3>1, AdvanceKeeps
  <2>3. h.gen = r.gen
    BY <2>2 DEF Aged, Rec
  <2>4. q = h \/ \E v : q = [h EXCEPT !.ver = v]
    BY <2>1 DEF Now, Reread
  <2>5. q.gen = h.gen
    BY <2>2, <2>4 DEF Rec
  <2> QED BY <2>3, <2>5
<1>2. CASE \E f \in ToSet(scan.facts) : q = New(f, scan, url)
  BY <1>2 DEF New, Recorded
<1> QED BY <1>1, <1>2, IngestSplits

\* Where the ledger has no record of the number that is read, what is verified at
\* that number was read now, and the reading says nothing else under its key.
LEMMA ReadNow ==
  ASSUME Ordered, NEW scan, NEW n \in Nat, DOMAIN scan.facts = 1 .. n, NEW url, NEW q \in Ingest(scan, url),
         \A r \in ledger : r.gen # scan.gen,
         \A i \in DOMAIN scan.facts : scan.facts[i][2] \notin Raw,
         q.gen = scan.gen, Verified(q)
  PROVE  /\ {f[2] : f \in {g \in ToSet(scan.facts) : g[1] = q.key}} = {q.claim}
         /\ q.claim \notin Shaped \cup Raw
<1>1. ASSUME NEW h \in Advance(ledger, scan.gen), q = Now(h, scan, url, Advance(ledger, scan.gen))
      PROVE  FALSE
  <2>1. PICK r \in ledger : Rec(h) /\ Rec(r) /\ h = Aged(r, scan.gen)
    <3>1. \A r \in ledger : Rec(r) /\ (~r.fresh => r.ver # "VERIFIED")
      BY DEF Ordered
    <3> QED BY <3>1, AdvanceKeeps
  <2>2. h.gen = r.gen /\ h.gen # scan.gen
    BY <2>1 DEF Aged, Rec
  <2>3. q = h
    BY <1>1, <2>2 DEF Now
  <2> QED BY <2>2, <2>3
<1>2. PICK f \in ToSet(scan.facts) : q = New(f, scan, url)
  BY <1>1, IngestSplits
<1> DEFINE new == {g[2] : g \in {h \in ToSet(scan.facts) : h[1] = f[1]}}
           had == {r.claim : r \in Rivals(Advance(ledger, scan.gen), url, scan.gen, f[1])}
<1>3. q = Recorded(scan, url, f[1], f[2], (had \cup new) \ {f[2]})
  BY <1>2, Zenon DEF New
<1>4. /\ q.key = f[1] /\ q.claim = f[2]
      /\ q.ver = "VERIFIED" => (had \cup new) \ {f[2]} = {}
  <2> HIDE DEF had, new
  <2> QED BY <1>3 DEF Recorded
<1>5. f[2] \in new /\ new \subseteq {f[2]}
  BY <1>4 DEF Verified
<1>6. q.claim \notin Shaped
  BY DEF Verified, Citable, Sanitized
<1>7. f[2] \notin Raw
  BY DEF ToSet
<1> QED BY <1>4, <1>5, <1>6, <1>7

-----------------------------------------------------------------------------
(* The types.                                                              *)

LEMMA RecordShape ==
  ASSUME NEW r \in Record
  PROVE  /\ Rec(r) /\ r.key \in Keys /\ r.claim \in Claims /\ r.url \in Sites /\ r.gen \in Nat
         /\ r.fresh \in BOOLEAN /\ r.read \in Nat /\ r.pos \in Nat
         /\ [r EXCEPT !.fresh = FALSE, !.ver = "INVALIDATED"] \in Record
         /\ [r EXCEPT !.ver = "CONFLICTED"] \in Record
         /\ [r EXCEPT !.ver = "VERIFIED"] \in Record
BY DEF Record, Rec

LEMMA IngestType ==
  ASSUME TypeOK
  PROVE  Ingest(reading, tab.site) \subseteq Record
<1> DEFINE scan == reading
           url == tab.site
<1>0. /\ scan.gen \in Nat /\ scan.facts \in Seq(Fact) /\ url \in Sites /\ reads \in Nat /\ ledger \subseteq Record
  BY DEF TypeOK
<1>1. PICK n \in Nat : DOMAIN scan.facts = 1 .. n
  BY <1>0
<1>2. Advance(ledger, scan.gen) \subseteq Record
  BY <1>0, RecordShape DEF Advance
<1>3. ASSUME NEW h \in Advance(ledger, scan.gen)
      PROVE  Now(h, scan, url, Advance(ledger, scan.gen)) \in Record
  <2>1. h \in Record
    BY <1>2
  <2>2. \/ Now(h, scan, url, Advance(ledger, scan.gen)) = h
        \/ Now(h, scan, url, Advance(ledger, scan.gen)) = [h EXCEPT !.ver = "CONFLICTED"]
        \/ Now(h, scan, url, Advance(ledger, scan.gen)) = [h EXCEPT !.ver = "VERIFIED"]
    BY DEF Now, Reread
  <2> QED BY <2>1, <2>2, RecordShape
<1>4. ASSUME NEW f \in ToSet(scan.facts)
      PROVE  New(f, scan, url) \in Record
  <2> DEFINE q == New(f, scan, url)
  <2> HIDE DEF q
  <2>1. Rec(q) /\ q.read = reads + 1 /\ q.fresh /\ q.pos \in 1 .. n
    <3> HIDE DEF scan, url
    <3> QED BY <1>1, NewPlace DEF q
  <2>2. f \in Fact
    <3>1. ToSet(scan.facts) = {scan.facts[i] : i \in 1 .. n}
      BY <1>1 DEF ToSet
    <3> QED BY <1>0, <1>1, <3>1
  <2>3. /\ q.key = f[1] /\ q.claim = f[2] /\ q.url = url /\ q.gen = scan.gen /\ q.fresh = TRUE
        /\ q.ver \in {"CONFLICTED", "UNVERIFIED", "VERIFIED"}
    BY DEF q, New, Recorded
  <2>4. q.pos \in Nat /\ q.read \in Nat /\ f[1] \in Keys /\ f[2] \in Claims
    BY <1>0, <2>1, <2>2 DEF Fact
  <2>5. q \in Record
    BY <1>0, <2>1, <2>3, <2>4 DEF Rec, Record
  <2> QED BY <2>5 DEF q
<1>5. ASSUME NEW q \in Ingest(scan, url)
      PROVE  q \in Record
  <2> HIDE DEF scan, url
  <2> QED BY <1>3, <1>4, IngestSplits
<1> QED BY <1>5

LEMMA TypePreserved == TypeOK /\ [Next]_vars => TypeOK'
<1> SUFFICES ASSUME TypeOK, [Next]_vars
             PROVE  TypeOK'
  OBVIOUS
<1>1. CASE UNCHANGED vars
  BY <1>1 DEF vars, page, evidence, counters, control, TypeOK
<1>0. /\ tab \in [site : Sites, gen : Nat, due : BOOLEAN] /\ stored \in [Sites -> Nat] /\ moves \in Nat
      /\ reading \in [model : BOOLEAN, gen : Nat, here : BOOLEAN, facts : Seq(Fact)]
      /\ ledger \subseteq Record /\ reads \in Nat /\ taken \in Seq(Fact)
      /\ per \in Nat /\ cur \in Nat /\ scoped \in BOOLEAN
      /\ keys \subseteq Keys /\ lastOk \in BOOLEAN /\ arrives \in BOOLEAN /\ step \in Nat
      /\ why \in {"cycle", "arrival", "retry"} /\ answer \subseteq Record
      /\ status \in {"IN_PROGRESS", "SUCCESS", "FAILED", "LIMIT"} \cup Kinds
      /\ pc \in {"top", "scan", "observe", "judge", "ask", "recover", "settle", "judge2", "done"}
  BY DEF TypeOK
<1>a. NoReading \in [model : BOOLEAN, gen : Nat, here : BOOLEAN, facts : Seq(Fact)]
  <2>1. <<>> \in Seq(Fact)
    OBVIOUS
  <2> QED BY <2>1 DEF NoReading
<1>b. ASSUME NEW built \in BOOLEAN, PerformScan(built)
      PROVE  tab' \in [site : Sites, gen : Nat, due : BOOLEAN] /\ stored' \in [Sites -> Nat]
  <2>1. tab.gen + 1 \in Nat /\ tab.gen \in Nat
    BY <1>0
  <2>2. PICK g \in Nat : tab' = [tab EXCEPT !.gen = g]
    BY <1>b, <2>1 DEF PerformScan
  <2>3. stored' = stored \/ \E n \in Nat : stored' = [stored EXCEPT ![tab.site] = n]
    BY <1>b, <2>1 DEF PerformScan
  <2> QED BY <1>0, <2>2, <2>3
<1>c. View \subseteq ledger /\ VerifiedView \subseteq ledger /\ Composed \subseteq ledger
  BY DEF View, VerifiedView, Composed
<1>2. CASE InitialScan
  <2>1. tab.gen + 1 \in Nat
    BY <1>0
  <2>2. tab' = [tab EXCEPT !.due = FALSE, !.gen = tab.gen + 1]
    BY <1>2 DEF InitialScan
  <2>3. tab' \in [site : Sites, gen : Nat, due : BOOLEAN]
    BY <1>0, <2>1, <2>2
  <2>4. stored' = stored \/ \E g \in Nat : stored' = [stored EXCEPT ![tab.site] = g]
    BY <1>2, <2>1 DEF InitialScan
  <2>5. stored' \in [Sites -> Nat]
    BY <1>0, <2>4
  <2>6. UNCHANGED <<moves, reading, evidence, counters, keys, lastOk, control, answer>>
    BY <1>2 DEF InitialScan
  <2> QED BY <1>0, <2>3, <2>5, <2>6 DEF evidence, counters, control, TypeOK
<1>3. ASSUME NEW site \in Sites, PageMoves(site)
      PROVE  TypeOK'
  <2>1. Restored(site) \in Nat
    BY <1>0 DEF Restored
  <2>2. tab' \in [site : Sites, gen : Nat, due : BOOLEAN]
    BY <1>3, <2>1 DEF PageMoves
  <2>3. reading' \in [model : BOOLEAN, gen : Nat, here : BOOLEAN, facts : Seq(Fact)]
    BY <1>0, <1>3 DEF PageMoves
  <2>4. moves' \in Nat
    BY <1>0, <1>3 DEF PageMoves
  <2>5. UNCHANGED <<stored, ledger, reads, taken, per, cur, scoped, keys, lastOk, pc, why, arrives, step, status, answer>>
    BY <1>3 DEF PageMoves, evidence, counters, control
  <2> QED BY <1>0, <2>2, <2>3, <2>4, <2>5 DEF TypeOK
<1>4. CASE StartCycle \/ ScanFails
  <2>1. /\ per' \in Nat /\ cur' \in Nat /\ step' \in Nat
        /\ why' \in {"cycle", "arrival", "retry"}
        /\ status' \in {"IN_PROGRESS", "SUCCESS", "FAILED", "LIMIT"} \cup Kinds
        /\ pc' \in {"top", "scan", "observe", "judge", "ask", "recover", "settle", "judge2", "done"}
    <3>1. CASE StartCycle
      BY <1>0, <3>1 DEF StartCycle, End
    <3>2. CASE ScanFails
      BY <1>0, <3>2 DEF ScanFails, AfterRefusal, End, counters
    <3> QED BY <1>4, <3>1, <3>2
  <2>2. UNCHANGED <<tab, stored, moves, reading, ledger, reads, taken, scoped, keys, lastOk, arrives, answer>>
    BY <1>4 DEF StartCycle, ScanFails, page, evidence, counters
  <2> QED BY <1>0, <2>1, <2>2 DEF TypeOK
<1>5. ASSUME NEW built \in Builds, NEW safe \in Builds, NEW shown \in Displays, Scan(built, safe, shown)
      PROVE  TypeOK'
  <2>0. built \in BOOLEAN /\ safe \in BOOLEAN
    BY EvidenceAssumption
  <2>1. tab' \in [site : Sites, gen : Nat, due : BOOLEAN] /\ stored' \in [Sites -> Nat]
    BY <1>5, <1>b, <2>0 DEF Scan
  <2>2. Extract(shown) \in Seq(Fact) /\ <<>> \in Seq(Fact)
    BY ExtractedIsShown
  <2>3. reading' \in [model : BOOLEAN, gen : Nat, here : BOOLEAN, facts : Seq(Fact)]
    BY <1>0, <1>5, <2>0, <2>2 DEF Scan
  <2> QED BY <1>0, <1>5, <2>1, <2>3 DEF Scan, evidence, counters, TypeOK
<1>6. ASSUME NEW placed \in BOOLEAN, NEW arrived \in BOOLEAN, Observe(placed, arrived)
      PROVE  TypeOK'
  <2>1. ledger' \subseteq Record /\ reads' \in Nat /\ taken' \in Seq(Fact)
    BY <1>0, <1>6, IngestType DEF Observe, evidence
  <2>2. /\ per' \in Nat /\ cur' \in Nat /\ scoped' \in BOOLEAN
        /\ status' \in {"IN_PROGRESS", "SUCCESS", "FAILED", "LIMIT"} \cup Kinds
        /\ pc' \in {"top", "scan", "observe", "judge", "ask", "recover", "settle", "judge2", "done"}
    <3>1. Attach(arrived)
      BY <1>6 DEF Observe
    <3> QED BY <1>0, <3>1 DEF Attach, AfterRefusal, End, counters
  <2>3. reading' = NoReading /\ UNCHANGED <<tab, stored, moves, keys, lastOk, why, arrives, step, answer>>
    BY <1>6 DEF Observe, page
  <2> QED BY <1>0, <1>a, <2>1, <2>2, <2>3 DEF TypeOK
<1>7. ASSUME NEW satisfied \in BOOLEAN, Judge(satisfied) \/ JudgeAfterAction(satisfied)
      PROVE  TypeOK'
  <2>1. PICK next \in {"ask", "top"} : Verdict(satisfied, next)
    BY <1>7 DEF Judge, JudgeAfterAction
  <2>2. keys' \subseteq Keys
    <3>1. keys' = {r.key : r \in VerifiedView}
      BY <2>1 DEF Verdict
    <3>2. \A r \in VerifiedView : r.key \in Keys
      BY <1>0, <1>c, RecordShape
    <3> QED BY <3>1, <3>2
  <2>3. /\ answer' \subseteq Record
        /\ status' \in {"IN_PROGRESS", "SUCCESS", "FAILED", "LIMIT"} \cup Kinds
        /\ pc' \in {"top", "scan", "observe", "judge", "ask", "recover", "settle", "judge2", "done"}
    BY <1>0, <1>c, <2>1 DEF Verdict, End, ComposeAnswer
  <2>4. UNCHANGED <<page, reading, evidence, counters, lastOk, why, arrives, step>>
    BY <1>7 DEF Judge, JudgeAfterAction
  <2> QED BY <1>0, <2>2, <2>3, <2>4 DEF page, evidence, counters, TypeOK
<1>8. ASSUME NEW kind \in Kinds, NEW cited \in SUBSET ledger, Propose(kind, cited)
      PROVE  TypeOK'
  <2>1. answer' \subseteq Record
    BY <1>0, <1>8 DEF Propose
  <2>2. PICK supported : pc' = "done" /\ status' = Outcome(kind, supported)
    BY <1>8 DEF Propose, End
  <2>3. status' \in Kinds
    BY <2>2 DEF Outcome, Kinds
  <2>4. UNCHANGED <<page, reading, evidence, counters, keys, lastOk, why, arrives, step>>
    BY <1>8 DEF Propose
  <2> QED BY <1>0, <2>1, <2>2, <2>3, <2>4 DEF page, evidence, counters, TypeOK
<1>9. CASE \/ ProposeMalformed \/ ReasoningFails \/ ActionFails
           \/ \E destination \in BOOLEAN : NoEffect(destination)
           \/ \E abort \in BOOLEAN : Recover(abort)
  BY <1>0, <1>9 DEF ProposeMalformed, ReasoningFails, ActionFails, NoEffect, Recover, End,
                    page, evidence, counters, TypeOK
<1>10. ASSUME NEW engine \in BOOLEAN, NEW satisfied \in BOOLEAN, NEW navigates \in BOOLEAN,
              ActionSucceeds(engine, satisfied, navigates)
       PROVE  TypeOK'
  <2>1. answer' \subseteq Record
    BY <1>0, <1>10, <1>c DEF ActionSucceeds, ComposeAnswer
  <2> QED BY <1>0, <1>10, <2>1 DEF ActionSucceeds, page, evidence, counters, TypeOK
<1>11. ASSUME NEW settled \in BOOLEAN, Settle(settled)
       PROVE  TypeOK'
  BY <1>0, <1>11 DEF Settle, page, evidence, TypeOK
<1> QED BY <1>1, <1>2, <1>3, <1>4, <1>5, <1>6, <1>7, <1>8, <1>9, <1>10, <1>11
        DEF Next, Tab, Perceive, Decide

\* Every variable keeps its type, for every set of pages, facts and bounds.
THEOREM TypeCorrect == Spec => []TypeOK
<1>1. Init => TypeOK
  <2>1. <<>> \in Seq(Fact)
    OBVIOUS
  <2> SUFFICES ASSUME Init PROVE TypeOK
    OBVIOUS
  <2>2. tab \in [site : Sites, gen : Nat, due : BOOLEAN] /\ stored \in [Sites -> Nat]
    <3>1. {1} \subseteq Nat /\ {TRUE} \subseteq BOOLEAN
      OBVIOUS
    <3>2. tab \in [site : Sites, gen : {1}, due : {TRUE}] /\ stored \in [Sites -> Nat]
      BY DEF Init
    <3>3. ASSUME NEW G, NEW D, G \subseteq Nat, D \subseteq BOOLEAN
          PROVE  [site : Sites, gen : G, due : D] \subseteq [site : Sites, gen : Nat, due : BOOLEAN]
      BY <3>3
    <3>4. tab \in [site : Sites, gen : Nat, due : BOOLEAN]
      <4>1. [site : Sites, gen : {1}, due : {TRUE}] \subseteq [site : Sites, gen : Nat, due : BOOLEAN]
        BY <3>1, <3>3
      <4> QED BY <3>2, <4>1
    <3> QED BY <3>2, <3>4
  <2>3. reading \in [model : BOOLEAN, gen : Nat, here : BOOLEAN, facts : Seq(Fact)]
    BY <2>1 DEF Init, NoReading
  <2>4. ledger \subseteq Record /\ answer \subseteq Record /\ keys \subseteq Keys
    BY DEF Init
  <2> QED BY <2>1, <2>2, <2>3, <2>4 DEF Init, TypeOK
<1> QED BY <1>1, TypePreserved, PTL DEF Spec

-----------------------------------------------------------------------------
(* The answer.                                                             *)

\* What a reading leaves behind, whatever the loop then makes of it.
LEMMA ObservedNumbers ==
  ASSUME TypeOK, Ordered, StandInv, ~arrives,
         NEW placed \in BOOLEAN, NEW arrived \in BOOLEAN, Observe(placed, arrived)
  PROVE  NumbersGrow' /\ VerdictsStand'
<1>0. /\ cur \in Nat /\ per = cur /\ cur > 0 /\ why \in {"cycle", "retry"} /\ reading.gen \in Nat
      /\ \A r \in ledger : r.gen \in Nat /\ r.gen <= cur /\ (why = "cycle" => r.gen < cur)
      /\ reading.facts # <<>> => reading.model
      /\ \A i \in DOMAIN reading.facts : reading.facts[i][2] \notin Raw
  <2>1. NumbersGrow /\ ReadingIsClean /\ pc = "observe"
    BY DEF StandInv, Observe
  <2>2. \A r \in ledger : r.gen \in Nat
    BY RecordShape DEF TypeOK
  <2> QED BY <2>1, <2>2 DEF NumbersGrow, ReadingIsClean, TypeOK
<1>1. PICK n \in Nat : DOMAIN reading.facts = 1 .. n
  BY DEF Ordered
<1>2. Attach(arrived) /\ why' = why /\ Local = cur
  BY <1>0 DEF Observe, Local
<1>3. ASSUME NEW q \in ledger'
      PROVE  (\E r \in ledger : q.gen = r.gen) \/ (reading.model /\ q.gen = reading.gen)
  <2>1. CASE ledger' = ledger
    BY <2>1
  <2>2. CASE ledger' # ledger
    <3>1. ledger' = Ingest(reading, tab.site) /\ reading.model
      BY <1>0, <2>2 DEF Observe, evidence
    <3> QED BY <1>1, <3>1, IngestNumbers
  <2> QED BY <2>1, <2>2
<1>4. CASE ~Accepted
  <2>1. reading.model /\ reading.gen < cur
    BY <1>0, <1>2, <1>4 DEF Accepted
  <2>2. \A q \in ledger' : q.gen <= cur
    BY <1>0, <1>3, <2>1
  <2>3. UNCHANGED <<per, cur>> /\ pc' \in {"done", "top"}
    BY <1>0, <1>2, <1>4 DEF Attach, AfterRefusal, End, counters
  <2> QED BY <1>0, <1>2, <2>2, <2>3 DEF NumbersGrow, VerdictsStand
<1>5. CASE Accepted /\ why = "cycle"
  <2>1. /\ pc' = "judge" /\ per' = cur'
        /\ cur' = IF reading.model THEN reading.gen ELSE cur
    BY <1>0, <1>2, <1>5 DEF Attach
  <2>2. cur' \in Nat /\ cur' >= cur
    BY <1>0, <1>2, <1>5, <2>1 DEF Accepted
  <2>3. NumbersGrow'
    <3>1. \A q \in ledger' : q.gen <= cur'
      BY <1>0, <1>3, <2>1, <2>2
    <3> QED BY <1>0, <1>2, <2>1, <2>2, <3>1 DEF NumbersGrow
  <2>4. ASSUME NEW q \in ledger', q.gen = cur', Verified(q)
        PROVE  Undisputed(q)'
    <3>1. reading.model /\ cur' = reading.gen
      BY <1>0, <1>3, <1>5, <2>1, <2>2, <2>4
    <3>2. \A r \in ledger : r.gen # reading.gen
      BY <1>0, <1>5, <2>2, <3>1
    <3>3. ledger' = Ingest(reading, tab.site) /\ taken' = reading.facts
      BY <2>4, <3>1, <3>2 DEF Observe, evidence
    <3>4. /\ {f[2] : f \in {g \in ToSet(reading.facts) : g[1] = q.key}} = {q.claim}
          /\ q.claim \notin Shaped \cup Raw
      BY <1>0, <1>1, <2>4, <3>1, <3>2, <3>3, ReadNow
    <3> QED BY <3>3, <3>4 DEF Undisputed
  <2>5. VerdictsStand'
    BY <2>4 DEF VerdictsStand, Verified, Citable, Sanitized
  <2> QED BY <2>3, <2>5
<1>6. CASE Accepted /\ why = "retry"
  <2>1. /\ pc' = "top" /\ per' = cur'
        /\ cur' = IF reading.model THEN reading.gen ELSE cur
    BY <1>0, <1>2, <1>6 DEF Attach
  <2>2. cur' \in Nat /\ cur' >= cur
    BY <1>0, <1>2, <1>6, <2>1 DEF Accepted
  <2>3. \A q \in ledger' : q.gen <= cur'
    BY <1>0, <1>3, <2>1, <2>2
  <2> QED BY <1>0, <1>2, <2>1, <2>2, <2>3 DEF NumbersGrow, VerdictsStand
<1> QED BY <1>0, <1>4, <1>5, <1>6

\* A step that reads nothing and leaves the counters, or moves both on.
LEMMA NumbersKept ==
  ASSUME TypeOK, NumbersGrow, VerdictsStand, UNCHANGED <<ledger, taken>>,
         \/ /\ UNCHANGED <<per, cur>>
            /\ why' = why \/ (why' = "retry" /\ pc = "recover")
            /\ pc' = pc \/ pc' \in {"top", "done"}
               \/ (pc = "scan" /\ pc' = "observe" /\ why' = why)
               \/ (pc = "recover" /\ pc' = "scan" /\ why' = "retry")
               \/ (pc \in {"judge", "ask", "settle"} /\ pc' \in {"ask", "settle", "judge2", "recover"})
         \/ per' = per + 1 /\ cur' = per + 1 /\ why' = "cycle" /\ pc' = "scan"
         \/ per' = cur + 1 /\ cur' = cur + 1 /\ why' = why /\ pc' = "judge2"
  PROVE  NumbersGrow' /\ VerdictsStand'
<1>0. cur \in Nat /\ per = cur /\ \A r \in ledger : r.gen \in Nat /\ r.gen <= cur
  BY RecordShape DEF TypeOK, NumbersGrow
<1>1. CASE UNCHANGED <<per, cur>>
  BY <1>0, <1>1 DEF NumbersGrow, VerdictsStand, Undisputed, Verified, Citable, Sanitized
<1>2. CASE per' = cur + 1 /\ cur' = cur + 1
  <2>1. \A r \in ledger' : r.gen < cur' /\ r.gen <= cur' /\ r.gen # cur'
    BY <1>0, <1>2
  <2>2. cur' > 0
    BY <1>0, <1>2
  <2> QED BY <1>0, <1>2, <2>1, <2>2 DEF NumbersGrow, VerdictsStand
<1> QED BY <1>0, <1>1, <1>2

LEMMA StandPreserved ==
  ASSUME TypeOK, Ordered, StandInv, [Next]_vars
  PROVE  StandInv'
<1>1. CASE UNCHANGED vars
  BY <1>1 DEF vars, evidence, counters, control, StandInv, ReadingIsClean, NumbersGrow, VerdictsStand,
              Undisputed, Verified, Citable, Sanitized
<1> SUFFICES ASSUME Next PROVE StandInv'
  BY <1>1
<1>0. pc # "done" /\ arrives' = arrives
  BY DEF Next, Tab, InitialScan, PageMoves, Perceive, StartCycle, ScanFails, Scan, Observe, Decide, Judge,
         JudgeAfterAction, Propose, ProposeMalformed, ReasoningFails, ActionFails, NoEffect, Recover,
         ActionSucceeds, Settle, control
<1>2. ReadingIsClean'
  <2>1. CASE \E built, safe \in Builds, shown \in Displays : Scan(built, safe, shown)
    <3>1. PICK built \in Builds, safe \in Builds, shown \in Displays : Scan(built, safe, shown)
      BY <2>1
    <3>2. /\ reading'.model = (built /\ safe)
          /\ reading'.facts = IF built /\ safe THEN Extract(shown) ELSE <<>>
      BY <3>1 DEF Scan
    <3>3. built \in BOOLEAN /\ safe \in BOOLEAN
      BY EvidenceAssumption
    <3>4. CASE built /\ safe
      BY <3>2, <3>3, <3>4, ExtractedIsShown DEF ReadingIsClean
    <3>5. CASE ~(built /\ safe)
      <4>1. reading'.facts = <<>>
        BY <3>2, <3>5
      <4> QED BY <4>1 DEF ReadingIsClean
    <3> QED BY <3>4, <3>5
  <2>2. CASE \E placed, arrived \in BOOLEAN : Observe(placed, arrived)
    <3>1. reading'.facts = <<>>
      BY <2>2 DEF Observe, NoReading
    <3> QED BY <3>1 DEF ReadingIsClean
  <2>3. CASE Tab \/ StartCycle \/ ScanFails \/ Decide
    <3>1. reading'.facts = reading.facts /\ reading'.model = reading.model
      <4>1. CASE \E site \in Sites : PageMoves(site)
        BY <4>1 DEF PageMoves, TypeOK
      <4>2. CASE InitialScan \/ StartCycle \/ ScanFails \/ Decide
        BY <4>2 DEF InitialScan, StartCycle, ScanFails, Decide, Judge, JudgeAfterAction, Propose,
                    ProposeMalformed, ReasoningFails, ActionFails, NoEffect, Recover, ActionSucceeds, Settle
      <4> QED BY <2>3, <4>1, <4>2 DEF Tab
    <3> QED BY <3>1 DEF StandInv, ReadingIsClean
  <2> QED BY <2>1, <2>2, <2>3 DEF Next, Perceive
<1>3. ASSUME ~arrives PROVE NumbersGrow' /\ VerdictsStand'
  <2>0. NumbersGrow /\ VerdictsStand /\ why \in {"cycle", "retry"}
    BY <1>3 DEF StandInv, NumbersGrow
  <2>1. CASE Tab
    <3>1. UNCHANGED <<ledger, taken, per, cur, why, pc>>
      BY <2>1 DEF Tab, InitialScan, PageMoves, evidence, counters, control
    <3> QED BY <2>0, <3>1, NumbersKept
  <2>2. CASE StartCycle
    <3>1. UNCHANGED <<ledger, taken>>
      BY <2>2 DEF StartCycle, evidence
    <3>2. \/ UNCHANGED <<per, cur, why>> /\ pc' = "done"
          \/ per' = per + 1 /\ cur' = per + 1 /\ why' = "cycle" /\ pc' = "scan"
      BY <2>2 DEF StartCycle, End
    <3> QED BY <2>0, <3>1, <3>2, NumbersKept
  <2>3. CASE ScanFails
    <3>1. UNCHANGED <<ledger, taken, per, cur, why>> /\ pc' \in {"top", "done"}
      BY <2>0, <2>3 DEF ScanFails, AfterRefusal, End, evidence, counters
    <3> QED BY <2>0, <3>1, NumbersKept
  <2>4. CASE \E built, safe \in Builds, shown \in Displays : Scan(built, safe, shown)
    <3>1. UNCHANGED <<ledger, taken, per, cur, why>> /\ pc = "scan" /\ pc' = "observe"
      BY <2>4 DEF Scan, evidence, counters
    <3> QED BY <2>0, <3>1, NumbersKept
  <2>5. CASE \E placed, arrived \in BOOLEAN : Observe(placed, arrived)
    BY <1>3, <2>5, ObservedNumbers
  <2>6. CASE \E satisfied \in BOOLEAN : Judge(satisfied) \/ JudgeAfterAction(satisfied)
    <3>1. UNCHANGED <<ledger, taken, per, cur, why>> /\ ((pc = "judge" /\ pc' = "ask") \/ pc' \in {"top", "done"})
      BY <2>6 DEF Judge, JudgeAfterAction, Verdict, End, evidence, counters
    <3> QED BY <2>0, <3>1, NumbersKept
  <2>7. CASE \/ \E kind \in Kinds, cited \in SUBSET ledger : Propose(kind, cited)
             \/ ProposeMalformed \/ ReasoningFails \/ ActionFails
    <3>1. UNCHANGED <<ledger, taken, per, cur, why>> /\ pc' \in {"top", "done"}
      BY <2>7 DEF Propose, ProposeMalformed, ReasoningFails, ActionFails, End, evidence, counters
    <3> QED BY <2>0, <3>1, NumbersKept
  <2>8. CASE \E destination \in BOOLEAN : NoEffect(destination)
    <3>1. UNCHANGED <<ledger, taken, per, cur, why>> /\ pc = "ask" /\ pc' = "recover"
      BY <1>3, <2>8 DEF NoEffect, evidence, counters
    <3> QED BY <2>0, <3>1, NumbersKept
  <2>9. CASE \E abort \in BOOLEAN : Recover(abort)
    <3>1. /\ UNCHANGED <<ledger, taken, per, cur>> /\ pc = "recover"
          /\ (pc' = "done" /\ why' = why) \/ (pc' = "scan" /\ why' = "retry")
      BY <2>9 DEF Recover, End, evidence, counters
    <3> QED BY <2>0, <3>1, NumbersKept
  <2>10. CASE \E engine, satisfied, navigates \in BOOLEAN : ActionSucceeds(engine, satisfied, navigates)
    <3>1. UNCHANGED <<ledger, taken, per, cur, why>> /\ pc = "ask" /\ pc' \in {"settle", "judge2"}
      BY <2>10 DEF ActionSucceeds, evidence, counters
    <3> QED BY <2>0, <3>1, NumbersKept
  <2>11. CASE \E settled \in BOOLEAN : Settle(settled)
    <3>1. /\ UNCHANGED <<ledger, taken, why>> /\ pc = "settle" /\ pc' = "judge2"
          /\ UNCHANGED <<per, cur>> \/ (per' = cur + 1 /\ cur' = cur + 1)
      BY <2>11 DEF Settle, evidence
    <3> QED BY <2>0, <3>1, NumbersKept
  <2> QED BY <2>1, <2>2, <2>3, <2>4, <2>5, <2>6, <2>7, <2>8, <2>9, <2>10, <2>11 DEF Next, Perceive, Decide
<1> QED BY <1>0, <1>2, <1>3 DEF StandInv

\* What a step tells stands.
LEMMA ToldStands ==
  ASSUME TypeOK, StandInv, [Next]_vars, scoped, ~arrives, answer' # answer
  PROVE  SaidLast(answer')
<1>0. NumbersGrow /\ VerdictsStand
  BY DEF StandInv
<1>1. Next
  BY DEF vars
<1>2. \/ pc \in {"judge", "judge2", "ask"} /\ ComposeAnswer
      \/ \E kind \in Kinds, cited \in SUBSET ledger : Propose(kind, cited)
  BY <1>1 DEF Next, Tab, InitialScan, PageMoves, Perceive, StartCycle, ScanFails, Scan, Observe, Decide, Judge,
              JudgeAfterAction, Verdict, Propose, ProposeMalformed, ReasoningFails, ActionFails, NoEffect, Recover,
              ActionSucceeds, Settle
<1>3. pc \in {"judge", "judge2", "ask"}
  BY <1>2 DEF Propose
<1>4. \A r \in answer' : r \in VerifiedView /\ r.key \in Subject
  BY <1>2 DEF ComposeAnswer, Composed, Propose
<1>5. ASSUME NEW r \in VerifiedView PROVE Undisputed(r)
  <2>1. r \in ledger /\ InScope(r) /\ Verified(r)
    BY DEF VerifiedView, View
  <2>2. r.gen = cur
    BY <1>0, <1>3, <2>1 DEF InScope, NumbersGrow
  <2> QED BY <1>0, <1>3, <2>1, <2>2 DEF VerdictsStand
<1> QED BY <1>4, <1>5 DEF SaidLast

\* Whatever pages the tab goes to and however late a reading is filed: once a cycle
\* has begun with a model and unless subgoals declare destinations, what the user is
\* told is what the last reading said, undisputed.
THEOREM AnswerAlwaysStands == Spec => AnswerStands
<1>1. Init => Ordered
  <2>1. \E n \in Nat : DOMAIN <<>> = 1 .. n
    OBVIOUS
  <2> QED BY <2>1 DEF Init, Ordered, OnePlace, NoReading
<1>2. Init => StandInv
  BY DEF Init, StandInv, ReadingIsClean, NumbersGrow, VerdictsStand, NoReading
<1>3. TypeOK /\ StandInv /\ [Next]_vars =>
        [scoped /\ ~arrives /\ answer' # answer => SaidLast(answer')]_vars
  BY ToldStands
<1>4. TypeOK /\ Ordered /\ StandInv /\ [Next]_vars => StandInv'
  BY StandPreserved
<1> QED BY <1>1, <1>2, <1>3, <1>4, OrderedPreserved, TypeCorrect, PTL DEF Spec, AnswerStands
=============================================================================
