------------------------- MODULE CommitGuardProofs -------------------------
(***************************************************************************)
(* What the commit guard keeps for every set of classes and every bound:   *)
(* its types, that it remembers every dispatch nothing was observed of,    *)
(* and that it implements the gate on evidence.                            *)
(***************************************************************************)
EXTENDS CommitGuard, FiniteSetTheorems, SequenceTheorems, TLAPS

\* A record that is rewritten keeps its class, and stays open unless it is closed.
LEMMA SettleType ==
  ASSUME NEW recs \in Seq(CommitRecord), NEW i, NEW code \in Codes, NEW u \in BOOLEAN
  PROVE  /\ Settle(recs, i, code, u) \in Seq(CommitRecord)
         /\ Len(Settle(recs, i, code, u)) = Len(recs)
         /\ \A j \in 1..Len(recs) :
              /\ Settle(recs, i, code, u)[j].class = recs[j].class
              /\ u /\ recs[j].unresolved => Settle(recs, i, code, u)[j].unresolved
<1> DEFINE e == [recs[i] EXCEPT !.code = code, !.unresolved = u]
           t == Settle(recs, i, code, u)
<1>1. \A j \in 1..Len(recs) : recs[j] \in CommitRecord
  BY ElementOfSeq
<1>2. CASE i \in 1..Len(recs)
  <2>1. e \in CommitRecord /\ e.class = recs[i].class /\ e.unresolved = u
    BY <1>1, <1>2 DEF CommitRecord
  <2>2. t = [recs EXCEPT ![i] = e]
    BY DEF Settle
  <2> HIDE DEF e, t
  <2>3. /\ t \in Seq(CommitRecord)
        /\ Len(t) = Len(recs)
        /\ \A j \in 1..Len(recs) : t[j] = IF j = i THEN e ELSE recs[j]
    BY <1>2, <2>1, <2>2, ExceptSeq
  <2>4. \A j \in 1..Len(recs) : t[j].class = recs[j].class /\ (u /\ recs[j].unresolved => t[j].unresolved)
    BY <2>1, <2>3
  <2> QED BY <2>3, <2>4 DEF t
<1>3. CASE i \notin 1..Len(recs)
  <2>1. recs \in [1..Len(recs) -> CommitRecord]
    BY LenProperties
  <2>2. t = recs
    BY <1>3, <2>1 DEF Settle
  <2> QED BY <2>2
<1> QED BY <1>2, <1>3

\* An open record of class c, behind which there are only open ones, no two of
\* one class: so many records were made since, and no more than there are classes.
Recent(recs, c) ==
  {i \in UnresolvedOf(recs, c) :
     \A j \in i .. Len(recs) :
        /\ recs[j].unresolved
        /\ \A k \in i .. Len(recs) : recs[j].class = recs[k].class => j = k}

\* Rewriting a record without closing it keeps what is recent.
LEMMA SettleKeepsRecent ==
  ASSUME NEW recs \in Seq(CommitRecord), NEW i, NEW code \in Codes, NEW u \in BOOLEAN, u, NEW c
  PROVE  Recent(recs, c) \subseteq Recent(Settle(recs, i, code, u), c)
<1> DEFINE t == Settle(recs, i, code, u)
<1>1. /\ t \in Seq(CommitRecord)
      /\ Len(t) = Len(recs)
      /\ \A j \in 1..Len(recs) : t[j].class = recs[j].class /\ (recs[j].unresolved => t[j].unresolved)
  BY SettleType
<1> HIDE DEF t
<1>2. DOMAIN t = 1..Len(recs) /\ DOMAIN recs = 1..Len(recs) /\ Len(recs) \in Nat
  BY <1>1, LenProperties
<1>3. ASSUME NEW k \in Recent(recs, c)
      PROVE  k \in Recent(t, c)
  <2>1. k \in 1 .. Len(recs) /\ \A j \in k .. Len(recs) : j \in 1 .. Len(recs)
    BY <1>2 DEF Recent, UnresolvedOf, Unresolved
  <2>2. k \in UnresolvedOf(t, c)
    BY <1>1, <1>2, <2>1 DEF Recent, UnresolvedOf, Unresolved
  <2> QED BY <1>1, <2>1, <2>2 DEF Recent
<1> QED BY <1>3 DEF t

\* resolveOpenCommit rewrites one record and drops none.
LEMMA ResolveType ==
  ASSUME NEW recs \in Seq(CommitRecord), NEW wording \in Wordings
  PROVE  /\ ResolveOpenCommit(recs, wording) \in Seq(CommitRecord)
         /\ Len(ResolveOpenCommit(recs, wording)) = Len(recs)
<1> DEFINE i == FirstUnresolved(recs)
<1>1. "RESOLVED_COMMITTED" \in Codes /\ "RESOLVED_NOT_COMMITTED" \in Codes
  BY DEF Codes
<1>2. CASE wording = "confirms"
  <2> HIDE DEF i
  <2>1. ResolveCommit(recs, i, wording) = Settle(recs, i, "RESOLVED_COMMITTED", FALSE)
    BY <1>2 DEF ResolveCommit
  <2>2. /\ Settle(recs, i, "RESOLVED_COMMITTED", FALSE) \in Seq(CommitRecord)
        /\ Len(Settle(recs, i, "RESOLVED_COMMITTED", FALSE)) = Len(recs)
    BY <1>1, SettleType, Zenon
  <2> QED BY <2>1, <2>2 DEF ResolveOpenCommit, i
<1>3. CASE wording = "fails"
  <2> HIDE DEF i
  <2>1. ResolveCommit(recs, i, wording) = Settle(recs, i, "RESOLVED_NOT_COMMITTED", FALSE)
    BY <1>3 DEF ResolveCommit
  <2>2. /\ Settle(recs, i, "RESOLVED_NOT_COMMITTED", FALSE) \in Seq(CommitRecord)
        /\ Len(Settle(recs, i, "RESOLVED_NOT_COMMITTED", FALSE)) = Len(recs)
    BY <1>1, SettleType, Zenon
  <2> QED BY <2>1, <2>2 DEF ResolveOpenCommit, i
<1>4. CASE wording = "silent"
  BY <1>4 DEF ResolveOpenCommit, ResolveCommit
<1> QED BY <1>2, <1>3, <1>4 DEF Wordings

\* settleOpenCommitWithEffect rewrites one record and drops none.
LEMMA SettleOpenType ==
  ASSUME NEW recs \in Seq(CommitRecord), NEW code \in Codes
  PROVE  /\ SettleOpenCommitWithEffect(recs, code) \in Seq(CommitRecord)
         /\ Len(SettleOpenCommitWithEffect(recs, code)) = Len(recs)
         /\ code # "RESOLVED_COMMITTED" =>
              \A c : Recent(recs, c) \subseteq Recent(SettleOpenCommitWithEffect(recs, code), c)
<1> DEFINE u == code # "RESOLVED_COMMITTED"
           t == Settle(recs, LastUnresolved(recs), code, u)
<1>1. u \in BOOLEAN
  OBVIOUS
<1>2. SettleOpenCommitWithEffect(recs, code) = IF Unresolved(recs) = {} THEN recs ELSE t
  BY DEF SettleOpenCommitWithEffect
<1> HIDE DEF u
<1>3. t \in Seq(CommitRecord) /\ Len(t) = Len(recs)
  BY <1>1, SettleType
<1>4. u => \A c : Recent(recs, c) \subseteq Recent(t, c)
  BY <1>1, SettleKeepsRecent
<1> HIDE DEF t
<1> QED BY <1>2, <1>3, <1>4 DEF u

\* A record that is remembered is added at the end and the oldest may go.
LEMMA RememberType ==
  ASSUME NEW recs \in Seq(CommitRecord), NEW r \in CommitRecord
  PROVE  /\ Remember(recs, r) \in Seq(CommitRecord)
         /\ Len(Remember(recs, r)) <= Len(recs) + 1
<1> DEFINE all == Append(recs, r)
<1>1. all \in Seq(CommitRecord) /\ Len(all) = Len(recs) + 1 /\ Len(recs) \in Nat
  BY AppendProperties, LenProperties
<1>2. KeepRecords \in Nat
  BY BoundsAssumption
<1> HIDE DEF all
<1>3. CASE Len(all) <= KeepRecords
  BY <1>1, <1>3 DEF Remember, all
<1>4. CASE ~(Len(all) <= KeepRecords)
  <2> DEFINE first == Len(all) - KeepRecords + 1
  <2>1. first \in Int /\ Len(all) \in Int /\ 1 <= first
    BY <1>1, <1>2, <1>4
  <2>2. \A k \in first..Len(all) : all[k] \in CommitRecord
    <3> SUFFICES ASSUME NEW k \in first..Len(all)
                 PROVE  all[k] \in CommitRecord
      OBVIOUS
    <3>1. k \in 1..Len(all)
      BY <2>1
    <3> QED BY <1>1, <3>1, ElementOfSeq
  <2>3. /\ SubSeq(all, first, Len(all)) \in Seq(CommitRecord)
        /\ Len(SubSeq(all, first, Len(all))) <= Len(all)
    <3> HIDE DEF first
    <3>1. /\ SubSeq(all, first, Len(all)) \in Seq(CommitRecord)
          /\ Len(SubSeq(all, first, Len(all))) = IF first <= Len(all) THEN Len(all) - first + 1 ELSE 0
      BY <2>1, <2>2, SubSeqProperties
    <3> QED BY <1>1, <2>1, <3>1
  <2> QED BY <1>1, <1>4, <2>3 DEF Remember, all
<1> QED BY <1>3, <1>4

\* Records of different classes are not more than the classes.
LEMMA FewerThanClasses ==
  ASSUME NEW recs \in Seq(CommitRecord), NEW i \in 1 .. Len(recs),
         \A j, k \in i .. Len(recs) : recs[j].class = recs[k].class => j = k
  PROVE  Len(recs) - i + 1 <= KeepRecords
<1> DEFINE f == [j \in i .. Len(recs) |-> recs[j].class]
           n == Cardinality(i .. Len(recs))
<1>1. Len(recs) \in Nat /\ \A j \in i .. Len(recs) : recs[j] \in CommitRecord
  BY ElementOfSeq, LenProperties
<1>2. \A j \in i .. Len(recs) : recs[j].class \in Classes
  BY <1>1 DEF CommitRecord
<1>3. f \in Injection(i .. Len(recs), Classes)
  BY <1>2 DEF Injection, IsInjective
<1> HIDE DEF f
<1>4. IsFiniteSet(Classes)
  BY ClassesAssumption
<1>5. n <= Cardinality(Classes)
  BY <1>3, <1>4, FS_Injection
<1>6. n = Len(recs) - i + 1
  BY <1>1, FS_Interval
<1>7. Cardinality(Classes) \in Nat /\ KeepRecords \in Nat
  BY <1>4, FS_CardinalityType, BoundsAssumption
<1> QED BY <1>1, <1>5, <1>6, <1>7, KeepAssumption

\* What is recent is not dropped by a record of a class that has none open.
LEMMA RememberKeepsRecent ==
  ASSUME NEW recs \in Seq(CommitRecord), NEW r \in CommitRecord, r.unresolved
  PROVE  /\ Recent(Remember(recs, r), r.class) # {}
         /\ UnresolvedOf(recs, r.class) = {} =>
              \A c : Recent(recs, c) # {} => Recent(Remember(recs, r), c) # {}
<1> DEFINE all == Append(recs, r)
           kept == Remember(recs, r)
           n == Len(all)
<1>1. /\ all \in Seq(CommitRecord)
      /\ n = Len(recs) + 1 /\ Len(recs) \in Nat /\ n \in Nat
      /\ \A i \in 1..Len(recs) : all[i] = recs[i]
      /\ all[n] = r
  BY AppendProperties, LenProperties
<1>2. KeepRecords \in Nat
  BY BoundsAssumption
<1>3. kept = IF n <= KeepRecords THEN all ELSE SubSeq(all, n - KeepRecords + 1, n)
  BY DEF Remember
<1> HIDE DEF all, kept
\* a recent record of all that were made stays among those that are kept
<1>4. ASSUME NEW c, NEW i \in Recent(all, c)
      PROVE  Recent(kept, c) # {}
  <2>1. DOMAIN all = 1 .. n
    BY <1>1, LenProperties
  <2>2. /\ i \in 1 .. n /\ all[i].unresolved /\ all[i].class = c
        /\ \A j \in i .. n : all[j].unresolved /\ \A k \in i .. n : all[j].class = all[k].class => j = k
    BY <2>1 DEF Recent, UnresolvedOf, Unresolved
  <2>3. n - i + 1 <= KeepRecords
    BY <1>1, <2>2, FewerThanClasses
  <2>4. CASE n <= KeepRecords
    BY <1>3, <1>4, <2>4
  <2>5. CASE ~(n <= KeepRecords)
    <3> DEFINE d == n - KeepRecords
    <3>1. d \in 1 .. n /\ i - d \in 1 .. KeepRecords
      BY <1>1, <1>2, <2>2, <2>3, <2>5
    <3>2. kept = SubSeq(all, d + 1, n)
      BY <1>3, <2>5
    <3>3. \A k \in d + 1 .. n : all[k] \in CommitRecord
      <4> SUFFICES ASSUME NEW k \in d + 1 .. n
                   PROVE  all[k] \in CommitRecord
        OBVIOUS
      <4>1. k \in 1 .. n
        BY <1>1, <3>1
      <4> QED BY <1>1, <4>1, ElementOfSeq
    <3>4. n - d = KeepRecords
      BY <1>1, <1>2
    <3> HIDE DEF d
    <3>5. /\ kept \in Seq(CommitRecord)
          /\ Len(kept) = IF d + 1 <= n THEN n - (d + 1) + 1 ELSE 0
          /\ \A k \in 1 .. n - (d + 1) + 1 : kept[k] = all[d + 1 + k - 1]
      BY <1>1, <3>1, <3>2, <3>3, SubSeqProperties
    <3>6. /\ Len(kept) = KeepRecords /\ DOMAIN kept = 1 .. KeepRecords
          /\ \A k \in 1 .. KeepRecords : kept[k] = all[d + k]
      <4>1. Len(kept) = KeepRecords
        BY <1>1, <1>2, <3>1, <3>4, <3>5
      <4>2. \A k \in 1 .. KeepRecords : k \in 1 .. n - (d + 1) + 1 /\ d + 1 + k - 1 = d + k
        BY <1>1, <1>2, <3>1, <3>4
      <4> QED BY <3>5, <4>1, <4>2, LenProperties
    <3>7. i - d \in UnresolvedOf(kept, c)
      <4>1. d + (i - d) = i
        BY <1>1, <3>1, <2>2
      <4> QED BY <2>2, <3>1, <3>6, <4>1 DEF UnresolvedOf, Unresolved
    <3>8. ASSUME NEW j \in i - d .. KeepRecords
          PROVE  j \in 1 .. KeepRecords /\ d + j \in i .. n
      BY <1>1, <1>2, <2>2, <3>1, <3>4
    <3>9. ASSUME NEW j \in i - d .. KeepRecords
          PROVE  /\ kept[j].unresolved
                 /\ \A k \in i - d .. KeepRecords : kept[j].class = kept[k].class => j = k
      <4>1. kept[j].unresolved
        BY <2>2, <3>6, <3>8
      <4>2. ASSUME NEW k \in i - d .. KeepRecords, kept[j].class = kept[k].class
            PROVE  j = k
        <5>1. all[d + j].class = all[d + k].class
          BY <3>6, <3>8, <4>2
        <5>2. d + j = d + k
          BY <2>2, <3>8, <5>1
        <5> QED BY <3>1, <3>8, <5>2
      <4> QED BY <4>1, <4>2
    <3>10. i - d \in Recent(kept, c)
      BY <3>6, <3>7, <3>9 DEF Recent
    <3> QED BY <3>10
  <2> QED BY <2>4, <2>5
<1>5. n \in Recent(all, r.class)
  BY <1>1, LenProperties DEF Recent, UnresolvedOf, Unresolved
<1>6. ASSUME UnresolvedOf(recs, r.class) = {}, NEW c, NEW i \in Recent(recs, c)
      PROVE  i \in Recent(all, c)
  <2>1. DOMAIN recs = 1 .. Len(recs) /\ DOMAIN all = 1 .. n
    BY <1>1, LenProperties
  <2>2. /\ i \in 1 .. Len(recs) /\ recs[i].unresolved /\ recs[i].class = c
        /\ \A j \in i .. Len(recs) :
              recs[j].unresolved /\ \A k \in i .. Len(recs) : recs[j].class = recs[k].class => j = k
    BY <2>1 DEF Recent, UnresolvedOf, Unresolved
  <2>3. \A j \in i .. n : j = n \/ (j \in i .. Len(recs) /\ j \in 1 .. Len(recs))
    BY <1>1, <2>2
  <2>4. \A j \in i .. Len(recs) : recs[j].class # r.class
    <3>1. \A j \in i .. Len(recs) : j \in 1 .. Len(recs)
      BY <1>1, <2>2
    <3> QED BY <1>6, <2>1, <2>2, <3>1 DEF UnresolvedOf, Unresolved
  <2>5. \A j \in i .. n : all[j].unresolved
    BY <1>1, <2>2, <2>3
  <2>6. ASSUME NEW j \in i .. n, NEW k \in i .. n, all[j].class = all[k].class
        PROVE  j = k
    <3>1. CASE j = n /\ k = n
      BY <3>1
    <3>2. CASE j = n /\ k # n
      BY <1>1, <2>3, <2>4, <2>6, <3>2
    <3>3. CASE j # n /\ k = n
      BY <1>1, <2>3, <2>4, <2>6, <3>3
    <3>4. CASE j # n /\ k # n
      BY <1>1, <2>2, <2>3, <2>6, <3>4
    <3> QED BY <3>1, <3>2, <3>3, <3>4
  <2>7. i \in UnresolvedOf(all, c)
    BY <1>1, <2>1, <2>2 DEF UnresolvedOf, Unresolved
  <2> QED BY <2>5, <2>6, <2>7 DEF Recent
<1> QED BY <1>4, <1>5, <1>6 DEF kept
----------------------------------------------------------------------------
\* The classes of records a failed or returned call leaves are records.
LEMMA AssessType ==
  ASSUME NEW c \in Classes, NEW ok \in BOOLEAN
  PROVE  AssessCommit(c, ok) \in CommitRecord /\ AssessCommit(c, ok).unresolved /\ AssessCommit(c, ok).class = c
BY DEF AssessCommit, CommitRecord, Codes

LEMMA TypeInit == Init => TypeOK
<1> USE BoundsAssumption
<1>1. Init => step \in 0..MaxSteps /\ confirmations \in 0..MaxConfirmations /\ retryCount \in Nat
  BY DEF Init
<1>2. Init => records \in Seq(CommitRecord) /\ unseen \in [Classes -> Nat] /\ granted \in [Classes -> Nat]
  BY DEF Init, NoneOfAny
<1>3. Init => pc \in Awaits /\ status \in Statuses /\ class \in ActionClasses
  BY DEF Init, Awaits, Statuses, ActionClasses
<1>4. Init => cancelled \in BOOLEAN /\ page \in Wordings
  BY DEF Init
<1> QED BY <1>1, <1>2, <1>3, <1>4 DEF TypeOK

LEMMA CountsStay ==
  /\ NoneOfAny \in [Classes -> Nat]
  /\ \A count \in [Classes -> Nat] : \A c : OneMore(count, c) \in [Classes -> Nat]
BY DEF NoneOfAny, OneMore

LEMMA TypeStep == TypeOK /\ [Next]_vars => TypeOK'
<1> USE BoundsAssumption
<1> SUFFICES ASSUME TypeOK, [Next]_vars PROVE TypeOK'
  OBVIOUS
<1> USE DEF TypeOK, Awaits, Statuses, MayPropose, MustLeave, observations
<1>1. CASE LeaveLoop
  BY <1>1 DEF LeaveLoop, Finish
<1>2. CASE \E c \in ActionClasses : RefuseProposal(c)
  BY <1>2 DEF RefuseProposal, RetryOrFail, Finish, ActionClasses
<1>3. CASE \E c \in ActionClasses : ParkForConfirmation(c)
  BY <1>3 DEF ParkForConfirmation, ActionClasses
<1>4. CASE \E c \in ActionClasses : PassGates(c)
  BY <1>4 DEF PassGates, ActionClasses
<1>5. CASE ConfirmedGate
  BY <1>5, CountsStay DEF ConfirmedGate, Dispatch
<1>6. CASE ConfirmedReturns
  <2>1. step' \in 0..MaxSteps /\ retryCount' \in Nat
    BY <1>6 DEF ConfirmedReturns
  <2> QED BY <1>6, <2>1 DEF ConfirmedReturns
<1>7. CASE GateRefuses
  BY <1>7 DEF GateRefuses, Finish
<1>8. CASE GateClear
  BY <1>8, CountsStay DEF GateClear, Dispatch
<1>9. CASE GateBlocked
  BY <1>9 DEF GateBlocked
<1>10. CASE ResolveAtGate
  <2>1. ResolveOpenCommit(records, page) \in Seq(CommitRecord)
    BY ResolveType
  <2>2. retryCount' \in Nat /\ records' \in Seq(CommitRecord)
    BY <1>10, <2>1 DEF ResolveAtGate, Dispatch, Finish
  <2>3. unseen' \in [Classes -> Nat] /\ granted' \in [Classes -> Nat]
    BY <1>10, CountsStay DEF ResolveAtGate, Dispatch, Finish, Observed, observations
  <2> QED BY <1>10, <2>2, <2>3 DEF ResolveAtGate, Dispatch, Finish
<1>11. CASE \E ok \in BOOLEAN : ExecReturns(ok)
  <2>1. PICK ok \in BOOLEAN : ExecReturns(ok)
    BY <1>11
  <2>2. class \in Classes => Remember(records, AssessCommit(class, ok)) \in Seq(CommitRecord)
    BY AssessType, RememberType
  <2> QED BY <2>1, <2>2 DEF ExecReturns, RetryOrFail, Finish
<1>12. CASE ResolveAfterFailure
  <2>1. ResolveOpenCommit(records, page) \in Seq(CommitRecord)
    BY ResolveType
  <2>2. retryCount' \in Nat /\ records' \in Seq(CommitRecord)
    BY <1>12, <2>1 DEF ResolveAfterFailure, RetryOrFail, Finish
  <2>3. unseen' \in [Classes -> Nat] /\ granted' \in [Classes -> Nat]
    BY <1>12, CountsStay DEF ResolveAfterFailure, Observed, observations
  <2> QED BY <1>12, <2>2, <2>3 DEF ResolveAfterFailure, RetryOrFail, Finish
<1>13. CASE EffectUnobservable
  BY <1>13 DEF EffectUnobservable, Finish
<1>14. CASE EffectAbsent
  <2>1. \A code \in Codes : SettleOpenCommitWithEffect(records, code) \in Seq(CommitRecord)
    BY SettleOpenType
  <2> QED BY <1>14, <2>1 DEF EffectAbsent, RetryOrFail, Finish, Codes
<1>15. CASE EffectObserved
  <2>1. \A code \in Codes : SettleOpenCommitWithEffect(records, code) \in Seq(CommitRecord)
    BY SettleOpenType
  <2> QED BY <1>15, <2>1, CountsStay DEF EffectObserved, Finish, Observed, Codes
<1>16. CASE Cancel
  BY <1>16 DEF Cancel
<1>17. CASE ConfirmAllowed
  <2>1. confirmations' \in 0..MaxConfirmations
    BY <1>17 DEF ConfirmAllowed
  <2>2. granted' \in [Classes -> Nat]
    BY <1>17, CountsStay DEF ConfirmAllowed
  <2> QED BY <1>17, <2>1, <2>2 DEF ConfirmAllowed
<1>18. CASE PageChanges
  BY <1>18 DEF PageChanges, Wordings
<1>19. CASE UNCHANGED vars
  BY <1>19 DEF vars
<1> QED BY <1>1, <1>2, <1>3, <1>4, <1>5, <1>6, <1>7, <1>8, <1>9, <1>10, <1>11, <1>12, <1>13, <1>14, <1>15, <1>16, <1>17, <1>18, <1>19 DEF Next, LoopStep
\* Every variable keeps its type (the state of agentLoop.ts runTask).
THEOREM TypeCorrect == Spec => []TypeOK
BY TypeInit, TypeStep, PTL DEF Spec
----------------------------------------------------------------------------
\* No class was dispatched by the loop itself twice.
OwnOnce == \A c \in Classes : Own(c) <= 1

\* The dispatch that nothing was observed of is among the recent records.
Recalled ==
  \A c \in Classes :
    Own(c) <= 0 \/ Recent(records, c) # {} \/ (class = c /\ pc \in {"exec", "done"})

\* The action in flight is the first of its class, or of all since an observation.
FlightFirst ==
  pc = "exec" /\ class \in Classes =>
    \/ UnresolvedOf(records, class) = {}
    \/ \A d \in Classes \ {class} : Own(d) <= 0

IInv == TypeOK /\ OwnOnce /\ Recalled /\ FlightFirst

LEMMA CountsAreInt ==
  ASSUME TypeOK, NEW c \in Classes
  PROVE  unseen[c] \in Nat /\ granted[c] \in Nat /\ Own(c) \in Int
<1>1. unseen[c] \in Nat /\ granted[c] \in Nat
  BY DEF TypeOK
<1> QED BY <1>1 DEF Own

LEMMA RecentIsOpen ==
  ASSUME NEW c, Recent(records, c) # {}
  PROVE  UnresolvedOf(records, c) # {}
BY DEF Recent

\* After an observation nothing is owed.
LEMMA ObservedClears ==
  ASSUME Observed, pc' # "confirmedGate", NEW c \in Classes
  PROVE  Own(c)' = 0
BY DEF Observed, NoneOfAny, Own

\* What touches neither counts nor a confirmation leaves them alone.
LEMMA OwnStays ==
  ASSUME TypeOK, UNCHANGED observations, pc # "confirmedGate", pc' # "confirmedGate", NEW c \in Classes
  PROVE  Own(c)' = Own(c)
BY DEF observations, Own

\* Where neither the counts nor the records change, nor an action is in flight.
LEMMA QuietSteps ==
  ASSUME IInv, UNCHANGED <<observations, records>>,
         {pc, pc'} \cap {"confirmedGate", "exec"} = {},
         pc # "done" \/ (pc' = "done" /\ class' = class)
  PROVE  OwnOnce' /\ Recalled' /\ FlightFirst'
<1>1. \A c \in Classes : Own(c)' = Own(c)
  BY OwnStays DEF IInv
<1>2. \A c \in Classes : Recent(records, c)' = Recent(records, c)
  BY DEF Recent, UnresolvedOf, Unresolved
<1> QED BY <1>1, <1>2 DEF IInv, OwnOnce, Recalled, FlightFirst

LEMMA GuardStep ==
  ASSUME IInv, TypeOK', Next
  PROVE  OwnOnce' /\ Recalled' /\ FlightFirst'
<1> USE DEF MayPropose, MustLeave
<1>0. TypeOK /\ \A c \in Classes : Own(c) \in Int /\ unseen[c] \in Nat /\ granted[c] \in Nat
  BY CountsAreInt DEF IInv
<1>1. CASE \/ LeaveLoop
           \/ \E c \in ActionClasses : RefuseProposal(c) \/ ParkForConfirmation(c) \/ PassGates(c)
           \/ ConfirmedReturns \/ GateRefuses \/ GateBlocked \/ EffectUnobservable
  <2>1. /\ UNCHANGED <<observations, records>>
        /\ pc \notin {"confirmedGate", "exec", "done"} /\ pc' \notin {"confirmedGate", "exec"}
    BY <1>1 DEF LeaveLoop, RefuseProposal, ParkForConfirmation, PassGates, ConfirmedReturns,
           GateRefuses, GateBlocked, EffectUnobservable, RetryOrFail, Finish
  <2> QED BY <2>1, QuietSteps
<1>2. CASE Cancel \/ PageChanges
  <2>1. /\ UNCHANGED <<observations, records, class>> /\ pc # "done"
        /\ pc' = pc \/ (pc = "parked" /\ pc' = "done")
    BY <1>2 DEF Cancel, PageChanges
  <2>2. \A c \in Classes : Own(c)' = Own(c)
    BY <2>1 DEF Own, observations
  <2>3. \A c \in Classes : Recent(records, c)' = Recent(records, c)
                         /\ UnresolvedOf(records, c)' = UnresolvedOf(records, c)
    BY <2>1 DEF Recent, UnresolvedOf, Unresolved
  <2> QED BY <2>1, <2>2, <2>3 DEF IInv, OwnOnce, Recalled, FlightFirst
<1>3. CASE ConfirmAllowed
  <2>1. /\ pc = "parked" /\ pc' = "confirmedGate" /\ UNCHANGED <<records, class, unseen>>
        /\ granted' = OneMore(granted, class)
    BY <1>3 DEF ConfirmAllowed
  <2>2. \A c \in Classes : Own(c)' = Own(c)
    BY <1>0, <2>1 DEF Own, OneMore
  <2>3. \A c \in Classes : Recent(records, c)' = Recent(records, c)
    BY <2>1 DEF Recent, UnresolvedOf, Unresolved
  <2> QED BY <2>1, <2>2, <2>3 DEF IInv, OwnOnce, Recalled, FlightFirst
<1>4. CASE ConfirmedGate
  <2>1. pc = "confirmedGate" /\ UNCHANGED <<records, class, granted>>
    BY <1>4 DEF ConfirmedGate
  <2>2. \/ pc' = "done" /\ unseen' = unseen
        \/ pc' = "confirmedExec" /\ unseen' = OneMore(unseen, class)
    BY <1>4 DEF ConfirmedGate, Dispatch
  <2>3. \A c \in Classes : Own(c)' <= Own(c) /\ Own(c)' \in Int
    BY <1>0, <2>1, <2>2 DEF Own, OneMore
  <2>4. \A c \in Classes : Recent(records, c)' = Recent(records, c)
    BY <2>1 DEF Recent, UnresolvedOf, Unresolved
  <2>5. ASSUME NEW c \in Classes
        PROVE  Own(c)' <= 1 /\ (Own(c)' <= 0 \/ Recent(records, c)' # {})
    <3>1. Own(c) <= 1 /\ (Own(c) <= 0 \/ Recent(records, c) # {})
      BY <2>1 DEF IInv, OwnOnce, Recalled
    <3> QED BY <1>0, <2>3, <2>4, <3>1
  <2> QED BY <2>2, <2>5 DEF OwnOnce, Recalled, FlightFirst
<1>5. CASE GateClear
  <2>1. /\ pc = "gate" /\ pc' = "exec" /\ UNCHANGED <<records, class, granted>>
        /\ unseen' = OneMore(unseen, class) /\ MayDispatchConsequential(class)
    BY <1>5 DEF GateClear, Dispatch
  <2>2. \A c \in Classes : Own(c)' = Own(c) + IF c = class THEN 1 ELSE 0
    BY <1>0, <2>1 DEF Own, OneMore
  <2>3. \A c \in Classes : Recent(records, c)' = Recent(records, c)
                         /\ UnresolvedOf(records, c)' = UnresolvedOf(records, c)
    BY <2>1 DEF Recent, UnresolvedOf, Unresolved
  <2>4. class \in Classes => UnresolvedOf(records, class) = {} /\ Own(class) <= 0
    BY <2>1, RecentIsOpen DEF IInv, Recalled, MayDispatchConsequential
  <2>5. ASSUME NEW c \in Classes
        PROVE  /\ Own(c)' <= 1
               /\ Own(c)' <= 0 \/ Recent(records, c)' # {} \/ class = c
    <3>1. CASE c = class
      BY <1>0, <2>2, <2>4, <3>1
    <3>2. CASE c # class
      <4>1. Own(c)' = Own(c)
        BY <1>0, <2>2, <3>2
      <4> QED BY <2>1, <2>3, <4>1 DEF IInv, OwnOnce, Recalled
    <3> QED BY <3>1, <3>2
  <2> QED BY <2>1, <2>3, <2>4, <2>5 DEF OwnOnce, Recalled, FlightFirst
<1>6. CASE ResolveAtGate
  <2>1. CASE ~cancelled /\ page = "fails"
    <3>1. pc' = "exec" /\ unseen' = OneMore(NoneOfAny, class) /\ granted' = NoneOfAny /\ class' = class
      BY <1>6, <2>1 DEF ResolveAtGate, Dispatch
    <3>2. \A c \in Classes : Own(c)' = IF c = class THEN 1 ELSE 0
      BY <3>1 DEF Own, OneMore, NoneOfAny
    <3> QED BY <3>1, <3>2 DEF OwnOnce, Recalled, FlightFirst
  <2>2. CASE ~cancelled /\ page = "confirms"
    <3>1. pc' = "done" /\ Observed
      BY <1>6, <2>2 DEF ResolveAtGate, Finish
    <3>2. \A c \in Classes : Own(c)' = 0
      BY <3>1, ObservedClears
    <3> QED BY <3>1, <3>2 DEF OwnOnce, Recalled, FlightFirst
  <2>3. CASE cancelled \/ page = "silent"
    <3>1. ResolveOpenCommit(records, "silent") = records
      BY DEF ResolveOpenCommit, ResolveCommit
    <3>2. pc = "resolveGate" /\ pc' = "done" /\ UNCHANGED <<observations, records>>
      BY <1>6, <2>3, <3>1 DEF ResolveAtGate, Finish
    <3> QED BY <3>2, QuietSteps
  <2> QED BY <1>0, <2>1, <2>2, <2>3 DEF TypeOK, Wordings
<1>7. CASE \E ok \in BOOLEAN : ExecReturns(ok)
  <2>1. PICK ok \in BOOLEAN : ExecReturns(ok)
    BY <1>7
  <2>2. /\ pc = "exec" /\ pc' \in {"done", "effect", "resolveFailure", "propose"}
        /\ UNCHANGED <<observations, class>>
    BY <2>1 DEF ExecReturns, RetryOrFail, Finish
  <2>3. \A c \in Classes : Own(c)' = Own(c)
    BY <1>0, <2>2, OwnStays
  <2>4. CASE cancelled \/ class \notin Classes
    <3>1. records' = records /\ (pc' = "done" \/ class \notin Classes)
      BY <2>1, <2>4 DEF ExecReturns, Finish
    <3>2. \A c \in Classes : Recent(records, c)' = Recent(records, c)
      BY <3>1 DEF Recent, UnresolvedOf, Unresolved
    <3> QED BY <2>2, <2>3, <3>1, <3>2 DEF IInv, OwnOnce, Recalled, FlightFirst
  <2>5. CASE ~cancelled /\ class \in Classes
    <3> DEFINE r == AssessCommit(class, ok)
    <3>1. records' = Remember(records, r) /\ pc' # "done"
      BY <2>1, <2>5 DEF ExecReturns
    <3>2. r \in CommitRecord /\ r.unresolved /\ r.class = class
      BY <2>5, AssessType
    <3> HIDE DEF r
    <3>3. records \in Seq(CommitRecord)
      BY <1>0 DEF TypeOK
    <3>4. Recent(records', class) # {}
      BY <3>1, <3>2, <3>3, RememberKeepsRecent
    <3>5. ASSUME NEW c \in Classes, c # class
          PROVE  Own(c)' <= 0 \/ Recent(records', c) # {}
      <4>1. CASE UnresolvedOf(records, class) = {}
        <5>1. Recent(records, c) # {} => Recent(records', c) # {}
          BY <3>1, <3>2, <3>3, <4>1, RememberKeepsRecent
        <5> QED BY <2>3, <3>5, <5>1 DEF IInv, Recalled
      <4>2. CASE UnresolvedOf(records, class) # {}
        BY <2>2, <2>3, <2>5, <3>5, <4>2 DEF IInv, FlightFirst
      <4> QED BY <4>1, <4>2
    <3>6. \A c \in Classes : Recent(records, c)' = Recent(records', c)
      BY DEF Recent, UnresolvedOf, Unresolved
    <3> QED BY <2>2, <2>3, <3>4, <3>5, <3>6 DEF IInv, OwnOnce, Recalled, FlightFirst
  <2> QED BY <2>4, <2>5
<1>8. CASE ResolveAfterFailure
  <2>1. pc = "resolveFailure" /\ pc' \in {"done", "propose"} /\ class' = class
    BY <1>8 DEF ResolveAfterFailure, RetryOrFail, Finish
  <2>2. CASE ~cancelled /\ page # "silent"
    <3>1. Observed
      BY <1>8, <2>2 DEF ResolveAfterFailure
    <3>2. \A c \in Classes : Own(c)' = 0
      BY <2>1, <3>1, ObservedClears
    <3> QED BY <2>1, <3>2 DEF OwnOnce, Recalled, FlightFirst
  <2>3. CASE cancelled \/ page = "silent"
    <3>1. ResolveOpenCommit(records, "silent") = records
      BY DEF ResolveOpenCommit, ResolveCommit
    <3>2. UNCHANGED <<observations, records>>
      BY <1>8, <2>3, <3>1 DEF ResolveAfterFailure
    <3> QED BY <2>1, <3>2, QuietSteps
  <2> QED BY <2>2, <2>3
<1>9. CASE EffectAbsent
  <2>1. PICK code \in {"EFFECT_UNVERIFIED", "EFFECT_NOT_OBSERVABLE"} :
          records' = SettleOpenCommitWithEffect(records, code)
    BY <1>9 DEF EffectAbsent
  <2>2. \A c \in Classes : Recent(records, c) \subseteq Recent(records', c)
    BY <1>0, <2>1, SettleOpenType DEF Codes, TypeOK
  <2>3. pc = "effect" /\ pc' \in {"done", "propose"} /\ UNCHANGED <<observations, class>>
    BY <1>9 DEF EffectAbsent, RetryOrFail, Finish
  <2>4. \A c \in Classes : Own(c)' = Own(c)
    BY <1>0, <2>3, OwnStays
  <2>5. \A c \in Classes : Recent(records, c)' = Recent(records', c)
    BY DEF Recent, UnresolvedOf, Unresolved
  <2> QED BY <2>2, <2>3, <2>4, <2>5 DEF IInv, OwnOnce, Recalled, FlightFirst
<1>10. CASE EffectObserved
  <2>1. Observed /\ pc' \in {"done", "propose"}
    BY <1>10 DEF EffectObserved, Finish
  <2>2. \A c \in Classes : Own(c)' = 0
    BY <2>1, ObservedClears
  <2> QED BY <2>1, <2>2 DEF OwnOnce, Recalled, FlightFirst
<1> QED BY <1>1, <1>2, <1>3, <1>4, <1>5, <1>6, <1>7, <1>8, <1>9, <1>10 DEF Next, LoopStep

LEMMA Invariance == Spec => []IInv
<1>1. Init => IInv
  <2>1. Init => \A c \in Classes : Own(c) = 0
    BY DEF Init, Own, NoneOfAny
  <2>2. Init => OwnOnce /\ Recalled /\ FlightFirst
    BY <2>1 DEF Init, OwnOnce, Recalled, FlightFirst
  <2> QED BY <2>2, TypeInit DEF IInv
<1>2. IInv /\ [Next]_vars => IInv'
  <2> SUFFICES ASSUME IInv, [Next]_vars PROVE IInv'
    OBVIOUS
  <2>1. TypeOK'
    BY TypeStep DEF IInv
  <2>2. CASE Next
    BY <2>1, <2>2, GuardStep DEF IInv
  <2>3. CASE UNCHANGED vars
    <3>1. \A c \in Classes : /\ Own(c)' = Own(c)
                             /\ Recent(records, c)' = Recent(records, c)
                             /\ UnresolvedOf(records, c)' = UnresolvedOf(records, c)
      BY <2>3 DEF vars, observations, Own, Recent, UnresolvedOf, Unresolved
    <3>2. UNCHANGED <<pc, class>>
      BY <2>3 DEF vars
    <3>3. OwnOnce' /\ Recalled' /\ FlightFirst'
      BY <3>1, <3>2 DEF IInv, OwnOnce, Recalled, FlightFirst
    <3> QED BY <2>1, <3>3 DEF IInv
  <2> QED BY <2>2, <2>3
<1> QED BY <1>1, <1>2, PTL DEF Spec

\* A dispatch of the loop's own that nothing was observed of leaves an open record
\* of its class, however many records the slice drops (agentLoop.ts runTask, the
\* gate on open commits).
THEOREM GuardNeverForgets == Spec => []GuardRemembers
<1>1. IInv => GuardRemembers
  BY RecentIsOpen DEF IInv, Recalled, GuardRemembers
<1> QED BY <1>1, Invariance, PTL

\* Until something is observed no class is dispatched more often than once and
\* once for each confirmation, counting what the loop dispatches itself and what
\* it dispatches on the user's word.
THEOREM NoBlindRepeat == Spec => []RepeatNeedsEvidence
<1>1. ASSUME IInv
      PROVE  RepeatNeedsEvidence
  <2> SUFFICES ASSUME NEW c \in Classes
               PROVE  unseen[c] <= 1 + granted[c]
    BY DEF RepeatNeedsEvidence
  <2>1. unseen[c] \in Nat /\ granted[c] \in Nat /\ Own(c) <= 1
    BY <1>1, CountsAreInt DEF IInv, OwnOnce
  <2> QED BY <2>1 DEF Own
<1> QED BY <1>1, Invariance, PTL

\* The credit of a class, as the gate on evidence counts it.
Credit == [c \in Classes |-> 1 + granted[c] - unseen[c]]

LEMMA CreditIs ==
  ASSUME NEW c \in Classes
  PROVE  Credit[c] = 1 + granted[c] - unseen[c]
BY DEF Credit

\* A dispatch of a class, by the loop or for the user, is paid for.
LEMMA DispatchIsPaid ==
  ASSUME IInv, IInv', NEW c \in Classes, c = class, pc \in {"gate", "confirmedGate"},
         pc' \in {"exec", "confirmedExec"}, unseen' = OneMore(unseen, class),
         UNCHANGED <<granted, page, class>>
  PROVE  Gate!Dispatch(c)
<1>1. \A d \in Classes : /\ unseen[d] \in Nat /\ granted[d] \in Nat
                         /\ unseen'[d] = unseen[d] + IF d = class THEN 1 ELSE 0
  BY CountsAreInt DEF IInv, OneMore
<1>2. Credit[c] > 0
  <2>1. Own(c)' <= 1 /\ pc' # "confirmedGate"
    BY DEF IInv, OwnOnce
  <2>2. Own(c)' = unseen[c] + 1 - granted[c]
    BY <1>1, <2>1 DEF Own
  <2> QED BY <1>1, <2>1, <2>2, CreditIs
<1>3. Credit' = [Credit EXCEPT ![c] = @ - 1]
  <2>1. \A d \in Classes : Credit'[d] = [Credit EXCEPT ![c] = @ - 1][d]
    BY <1>1 DEF Credit
  <2> QED BY <2>1 DEF Credit
<1> QED BY <1>2, <1>3 DEF Gate!Dispatch, InFlight, Credit

\* The records implement the gate on evidence.
THEOREM GuardImplementsGate == Spec => ImplementsEvidenceGate
<1>1. Init => Gate!GateInit
  BY DEF Init, Gate!GateInit, NoneOfAny, InFlight, Wordings
<1>2. IInv /\ IInv' /\ [Next]_vars => [Gate!GateNext]_(Gate!gateVars)
  <2> SUFFICES ASSUME IInv, IInv', Next
               PROVE  [Gate!GateNext]_(Gate!gateVars)
    BY DEF vars, observations, Gate!gateVars, InFlight
  <2>0. \A c \in Classes : unseen[c] \in Nat /\ granted[c] \in Nat
    BY CountsAreInt DEF IInv
  <2> DEFINE Quiet == UNCHANGED observations
  <2>1. Quiet => Credit' = Credit
    BY DEF Credit, observations
  <2>2. Observed => Credit' = [c \in Classes |-> 1]
    BY DEF Credit, Observed, NoneOfAny
  <2> USE DEF Gate!GateNext, Gate!gateVars, InFlight
  \* nothing was observed and nothing dispatched or returned: it ends or stays
  <2>3. ASSUME Quiet, page' = page, pc \notin {"exec", "confirmedExec", "done"},
               pc' \notin {"exec", "confirmedExec"}
        PROVE  [Gate!GateNext]_(Gate!gateVars)
    BY <2>1, <2>3 DEF Gate!End, Credit
  <2>4. ASSUME Observed, page' = page, pc \notin {"exec", "confirmedExec", "done"},
               pc' \notin {"exec", "confirmedExec"}
        PROVE  [Gate!GateNext]_(Gate!gateVars)
    BY <2>2, <2>4 DEF Gate!Observe, Credit
  <2>5. ASSUME Quiet, page' = page, pc \in {"exec", "confirmedExec"},
               pc' \notin {"exec", "confirmedExec"}, class' = class
        PROVE  [Gate!GateNext]_(Gate!gateVars)
    <3>1. CASE class \in Classes
      BY <2>1, <2>5, <3>1, ClassesAssumption DEF Gate!Return, Credit
    <3>2. CASE class \notin Classes
      BY <2>1, <2>5, <3>2 DEF Gate!End, Credit
    <3> QED BY <3>1, <3>2
  <2>6. ASSUME pc \in {"gate", "confirmedGate"}, pc' \in {"exec", "confirmedExec"},
               unseen' = OneMore(unseen, class), UNCHANGED <<granted, page, class>>
        PROVE  [Gate!GateNext]_(Gate!gateVars)
    <3>1. CASE class \in Classes
      <4> HIDE DEF InFlight, Gate!gateVars, Gate!GateNext
      <4>1. PICK c \in Classes : c = class
        BY <3>1
      <4>2. Gate!Dispatch(c)
        BY <2>6, <4>1, DispatchIsPaid
      <4>3. Gate!GateNext
        BY <4>2 DEF Gate!GateNext
      <4> QED BY <4>3
    <3>2. CASE class \notin Classes
      <4>1. unseen' = unseen
        <5>1. unseen \in [Classes -> Nat]
          BY DEF IInv, TypeOK
        <5>2. \A c \in Classes : unseen'[c] = unseen[c]
          BY <2>0, <2>6, <3>2 DEF OneMore
        <5> QED BY <2>6, <5>1, <5>2 DEF OneMore
      <4> QED BY <2>6, <3>2, <4>1
    <3> QED BY <3>1, <3>2
  <2>7. CASE \/ LeaveLoop
             \/ \E c \in ActionClasses : RefuseProposal(c) \/ ParkForConfirmation(c) \/ PassGates(c)
             \/ GateRefuses \/ GateBlocked \/ EffectUnobservable \/ EffectAbsent
    <3>1. /\ Quiet /\ page' = page /\ pc \notin {"exec", "confirmedExec", "done"}
          /\ pc' \notin {"exec", "confirmedExec"}
      BY <2>7 DEF LeaveLoop, RefuseProposal, ParkForConfirmation, PassGates, MayPropose, GateRefuses,
             GateBlocked, EffectUnobservable, EffectAbsent, RetryOrFail, Finish
    <3> QED BY <2>3, <3>1
  <2>8. CASE ConfirmedReturns \/ \E ok \in BOOLEAN : ExecReturns(ok)
    <3>1. /\ Quiet /\ page' = page /\ pc \in {"exec", "confirmedExec"}
          /\ pc' \notin {"exec", "confirmedExec"} /\ class' = class
      BY <2>8 DEF ConfirmedReturns, ExecReturns, RetryOrFail, Finish
    <3> QED BY <2>5, <3>1
  <2>9. CASE GateClear
    BY <2>6, <2>9 DEF GateClear, Dispatch
  <2>10. CASE ConfirmedGate
    <3>1. CASE pc' = "done"
      <4>1. Quiet /\ page' = page /\ pc = "confirmedGate"
        BY <2>10, <3>1 DEF ConfirmedGate, Dispatch, observations
      <4> QED BY <2>3, <3>1, <4>1
    <3>2. CASE pc' # "done"
      BY <2>6, <2>10, <3>2 DEF ConfirmedGate, Dispatch
    <3> QED BY <3>1, <3>2
  <2>11. CASE ConfirmAllowed
    <3>1. /\ pc = "parked" /\ pc' = "confirmedGate" /\ UNCHANGED <<page, class, unseen>>
          /\ granted' = OneMore(granted, class)
      BY <2>11 DEF ConfirmAllowed
    <3>2. \A c \in Classes : Credit'[c] = Credit[c] + IF c = class THEN 1 ELSE 0
      BY <2>0, <3>1 DEF Credit, OneMore
    <3>3. DOMAIN Credit' = Classes /\ DOMAIN Credit = Classes
          /\ Credit' = [c \in Classes |-> Credit'[c]] /\ Credit = [c \in Classes |-> Credit[c]]
      BY DEF Credit
    <3>4. CASE class \in Classes
      <4>1. Credit' = [Credit EXCEPT ![class] = @ + 1]
        <5>1. \A c \in Classes : Credit[c] \in Int
          BY <2>0 DEF Credit
        <5> QED BY <3>2, <3>3, <3>4, <5>1
      <4> QED BY <3>1, <3>4, <4>1 DEF Gate!UserConfirms, Credit
    <3>5. CASE class \notin Classes
      <4>1. Credit' = Credit
        <5>1. \A c \in Classes : Credit[c] \in Int
          BY <2>0 DEF Credit
        <5> QED BY <3>2, <3>3, <3>5, <5>1
      <4> QED BY <3>1, <4>1 DEF Credit
    <3> QED BY <3>4, <3>5
  <2>12. CASE ResolveAtGate
    <3>1. pc = "resolveGate" /\ UNCHANGED <<page, class>>
      BY <2>12 DEF ResolveAtGate
    <3>2. CASE ~cancelled /\ page = "fails"
      <4>1. pc' = "exec" /\ unseen' = OneMore(NoneOfAny, class) /\ granted' = NoneOfAny
        BY <2>12, <3>2 DEF ResolveAtGate, Dispatch
      <4>2. Credit' = [c \in Classes |-> IF c = class THEN 0 ELSE 1]
        BY <4>1 DEF Credit, OneMore, NoneOfAny
      <4>3. CASE class \in Classes
        BY <3>1, <3>2, <4>1, <4>2, <4>3 DEF Gate!ObserveAndDispatch, Credit
      <4>4. CASE class \notin Classes
        <5>1. Credit' = [c \in Classes |-> 1]
          BY <4>2, <4>4
        <5> QED BY <3>1, <4>1, <4>4, <5>1 DEF Gate!Observe, Credit
      <4> QED BY <4>3, <4>4
    <3>3. CASE ~(~cancelled /\ page = "fails")
      <4>1. pc' = "done" /\ (Quiet \/ Observed)
        BY <2>12, <3>3 DEF ResolveAtGate, Finish
      <4> QED BY <2>3, <2>4, <3>1, <4>1
    <3> QED BY <3>2, <3>3
  <2>13. CASE ResolveAfterFailure \/ EffectObserved
    <3>1. /\ Quiet \/ Observed
          /\ page' = page /\ pc \notin {"exec", "confirmedExec", "done"}
          /\ pc' \notin {"exec", "confirmedExec"}
      BY <2>13 DEF ResolveAfterFailure, EffectObserved, RetryOrFail, Finish
    <3> QED BY <2>3, <2>4, <3>1
  <2>14. CASE PageChanges
    <3>1. Quiet /\ UNCHANGED <<pc, class>> /\ pc # "done" /\ page' \in Wordings
      BY <2>14 DEF PageChanges
    <3> QED BY <2>1, <3>1 DEF Gate!PageTurns, Wordings, Credit
  <2>15. CASE Cancel
    <3>1. /\ Quiet /\ pc # "done" /\ UNCHANGED <<class, page>>
          /\ pc' = pc \/ (pc = "parked" /\ pc' = "done")
      BY <2>15 DEF Cancel
    <3>2. CASE pc' = pc
      BY <2>1, <3>1, <3>2 DEF Credit
    <3>3. CASE pc = "parked" /\ pc' = "done"
      BY <2>3, <3>1, <3>3
    <3> QED BY <3>1, <3>2, <3>3
  <2> QED BY <2>7, <2>8, <2>9, <2>10, <2>11, <2>12, <2>13, <2>14, <2>15 DEF Next, LoopStep
<1> QED BY <1>1, <1>2, Invariance, PTL DEF Spec, ImplementsEvidenceGate, Gate!GateSpec

(***************************************************************************)
(* Why a run ends or waits for the user (RunEndsOrWaits): a variant of two *)
(* parts.  A confirmation gives a run its steps back, but takes one of the *)
(* answers the user still gives; between two answers steps run out.        *)
(***************************************************************************)

\* Two for each answer to come, one for an answer that is being carried out.
AnswersLeft ==
  2 * (MaxConfirmations - confirmations) + IF pc \in {"confirmedGate", "confirmedExec"} THEN 1 ELSE 0

\* Where the run is in its iteration, counted from the end.
Stage ==
  CASE pc = "done" -> 0
    [] pc \in {"parked", "confirmedExec"} -> 1
    [] pc \in {"propose", "confirmedGate"} -> 2
    [] pc \in {"effect", "resolveFailure"} -> 3
    [] pc = "exec" -> 4
    [] pc = "resolveGate" -> 5
    [] pc = "gate" -> 6

StepsLeft == 10 * (MaxSteps - step) + Stage

Shorter ==
  \/ AnswersLeft' < AnswersLeft
  \/ AnswersLeft' = AnswersLeft /\ StepsLeft' < StepsLeft

\* Where no turn is counted the iteration comes nearer to its end.
LEMMA StageFalls ==
  ASSUME TypeOK,
         \/ LeaveLoop \/ GateRefuses \/ GateClear \/ GateBlocked \/ ResolveAtGate
         \/ (\E ok \in BOOLEAN : ExecReturns(ok)) \/ ResolveAfterFailure
         \/ EffectUnobservable \/ EffectAbsent \/ EffectObserved
  PROVE  AnswersLeft' = AnswersLeft /\ step' = step /\ Stage' < Stage
<1>1. step' = step /\ confirmations' = confirmations
  BY DEF LeaveLoop, GateRefuses, GateClear, GateBlocked, ResolveAtGate, ExecReturns,
         ResolveAfterFailure, EffectUnobservable, EffectAbsent, EffectObserved
<1>2. CASE LeaveLoop
  BY <1>1, <1>2 DEF LeaveLoop, Finish, AnswersLeft, Stage
<1>3. CASE GateRefuses \/ GateClear \/ GateBlocked
  <2>1. pc = "gate" /\ pc' \in {"done", "propose", "exec", "resolveGate"}
    BY <1>3 DEF GateRefuses, GateClear, GateBlocked, Finish, Dispatch
  <2> QED BY <1>1, <2>1 DEF AnswersLeft, Stage
<1>4. CASE ResolveAtGate
  <2>1. pc = "resolveGate" /\ pc' \in {"done", "exec"}
    BY <1>4 DEF ResolveAtGate, Finish, Dispatch
  <2> QED BY <1>1, <2>1 DEF AnswersLeft, Stage
<1>5. CASE \E ok \in BOOLEAN : ExecReturns(ok)
  <2>1. pc = "exec" /\ pc' \in {"done", "effect", "resolveFailure", "propose"}
    BY <1>5 DEF ExecReturns, Finish, RetryOrFail
  <2> QED BY <1>1, <2>1 DEF AnswersLeft, Stage
<1>6. CASE ResolveAfterFailure
  <2>1. pc = "resolveFailure" /\ pc' \in {"done", "propose"}
    BY <1>6 DEF ResolveAfterFailure, Finish, RetryOrFail
  <2> QED BY <1>1, <2>1 DEF AnswersLeft, Stage
<1>7. CASE EffectUnobservable \/ EffectAbsent \/ EffectObserved
  <2>1. pc = "effect" /\ pc' \in {"done", "propose"}
    BY <1>7 DEF EffectUnobservable, EffectAbsent, EffectObserved, Finish, RetryOrFail
  <2> QED BY <1>1, <2>1 DEF AnswersLeft, Stage
<1> QED BY <1>2, <1>3, <1>4, <1>5, <1>6, <1>7

\* A proposal that is taken up costs a turn, and a turn outweighs an iteration.
LEMMA TurnCounts ==
  ASSUME TypeOK, NEW c \in ActionClasses,
         RefuseProposal(c) \/ ParkForConfirmation(c) \/ PassGates(c)
  PROVE  AnswersLeft' = AnswersLeft /\ step' = step + 1
BY DEF RefuseProposal, ParkForConfirmation, PassGates, MayPropose, RetryOrFail, Finish, AnswersLeft

LEMMA Weighs ==
  ASSUME NEW m \in Nat, NEW n \in 0 .. m, NEW o \in 0 .. m, NEW i \in 0 .. 6, NEW j \in 0 .. 6,
         o = n + 1 \/ (o = n /\ j < i)
  PROVE  10 * (m - o) + j < 10 * (m - n) + i
OBVIOUS

LEMMA StepShortens ==
  ASSUME TypeOK, TypeOK', Next
  PROVE  /\ LoopStep \/ ConfirmAllowed => Shorter
         /\ Shorter \/ UNCHANGED <<AnswersLeft, StepsLeft>>
<1>1. /\ MaxSteps \in Nat /\ step \in 0 .. MaxSteps /\ step' \in 0 .. MaxSteps
      /\ MaxConfirmations \in Nat /\ confirmations \in 0 .. MaxConfirmations
      /\ confirmations' \in 0 .. MaxConfirmations
  BY BoundsAssumption DEF TypeOK
<1>2. Stage \in 0 .. 6
  BY DEF TypeOK, Awaits, Stage
<1>3. Stage' \in 0 .. 6
  BY DEF TypeOK, Awaits, Stage
<1>4. AnswersLeft' = AnswersLeft /\ (step' = step + 1 \/ (step' = step /\ Stage' < Stage)) => Shorter
  <2> SUFFICES ASSUME AnswersLeft' = AnswersLeft, step' = step + 1 \/ (step' = step /\ Stage' < Stage)
               PROVE  Shorter
    OBVIOUS
  <2>1. 10 * (MaxSteps - step') + Stage' < 10 * (MaxSteps - step) + Stage
    BY <1>1, <1>2, <1>3, Weighs
  <2> QED BY <2>1 DEF Shorter, StepsLeft
<1>5. CASE ConfirmAllowed
  <2>1. AnswersLeft' < AnswersLeft
    BY <1>1, <1>5 DEF ConfirmAllowed, AnswersLeft
  <2> QED BY <2>1 DEF Shorter
<1>6. CASE ConfirmedReturns
  <2>1. AnswersLeft' < AnswersLeft
    BY <1>1, <1>6 DEF ConfirmedReturns, AnswersLeft
  <2> QED BY <2>1 DEF Shorter
<1>7. CASE ConfirmedGate
  <2>1. CASE pc' = "done"
    <3>1. AnswersLeft' < AnswersLeft
      BY <1>1, <1>7, <2>1 DEF ConfirmedGate, AnswersLeft
    <3> QED BY <3>1 DEF Shorter
  <2>2. CASE pc' = "confirmedExec"
    <3>1. AnswersLeft' = AnswersLeft /\ step' = step /\ Stage' < Stage
      BY <1>7, <2>2 DEF ConfirmedGate, Dispatch, AnswersLeft, Stage
    <3> QED BY <1>4, <3>1
  <2> QED BY <1>7, <2>1, <2>2 DEF ConfirmedGate, Dispatch
<1>8. CASE \E c \in ActionClasses : RefuseProposal(c) \/ ParkForConfirmation(c) \/ PassGates(c)
  BY <1>4, <1>8, TurnCounts
<1>9. CASE \/ LeaveLoop \/ GateRefuses \/ GateClear \/ GateBlocked \/ ResolveAtGate
           \/ (\E ok \in BOOLEAN : ExecReturns(ok)) \/ ResolveAfterFailure
           \/ EffectUnobservable \/ EffectAbsent \/ EffectObserved
  BY <1>4, <1>9, StageFalls
<1>10. LoopStep \/ ConfirmAllowed => Shorter
  BY <1>5, <1>6, <1>7, <1>8, <1>9 DEF LoopStep
<1>11. CASE Cancel
  <2>1. step' = step /\ confirmations' = confirmations
    BY <1>11 DEF Cancel
  <2>2. CASE pc = "parked"
    <3>1. AnswersLeft' = AnswersLeft /\ Stage' < Stage
      BY <1>11, <2>1, <2>2 DEF Cancel, AnswersLeft, Stage
    <3> QED BY <1>4, <1>10, <2>1, <3>1
  <2>3. CASE pc # "parked"
    <3>1. pc' = pc
      BY <1>11, <2>3 DEF Cancel
    <3> QED BY <1>10, <2>1, <3>1 DEF AnswersLeft, StepsLeft, Stage
  <2> QED BY <2>2, <2>3
<1>12. CASE PageChanges
  <2>1. UNCHANGED <<pc, step, confirmations>>
    BY <1>12 DEF PageChanges
  <2> QED BY <1>10, <2>1 DEF AnswersLeft, StepsLeft, Stage
<1> QED BY <1>5, <1>10, <1>11, <1>12 DEF Next

\* Whatever is dispatched, refused, confirmed or observed, each step of the
\* loop and each confirmation leaves the run less to do, and neither the page
\* nor a cancellation leaves it more: a confirmation that gave the steps back
\* without being counted would make a run endless (agentLoop.ts, the reset of
\* the counters in runTask when resumeWithConfirmation calls it).
THEOREM RunsAreFinite ==
  Spec => /\ [](AnswersLeft \in Nat /\ StepsLeft \in Nat)
          /\ [][/\ LoopStep \/ ConfirmAllowed => Shorter
                /\ Shorter \/ UNCHANGED <<AnswersLeft, StepsLeft>>]_vars
<1>1. TypeOK => AnswersLeft \in Nat /\ StepsLeft \in Nat
  <2> SUFFICES ASSUME TypeOK PROVE AnswersLeft \in Nat /\ StepsLeft \in Nat
    OBVIOUS
  <2>1. Stage \in 0 .. 6
    BY DEF TypeOK, Awaits, Stage
  <2> QED BY <2>1, BoundsAssumption DEF TypeOK, AnswersLeft, StepsLeft
<1>2. TypeOK /\ TypeOK' /\ [Next]_vars
        => [/\ LoopStep \/ ConfirmAllowed => Shorter
            /\ Shorter \/ UNCHANGED <<AnswersLeft, StepsLeft>>]_vars
  BY StepShortens
<1> QED BY <1>1, <1>2, TypeCorrect, PTL DEF Spec
=============================================================================
