--------------------------- MODULE BoundaryProofs ---------------------------
(* Where the program meets what it does not control: the user's words and  *)
(* tabs, the turns of a conversation, the page, the model behind the       *)
(* backend, and the user who reads what it says.                           *)
(*                                                                         *)
(* What is done to the tabs is done for the latest message, a task that    *)
(* names a site is not given the tab of another one, and a run that is led *)
(* away from its site reads one page there and no more; the worker's       *)
(* conversation is the one of the run that owns the task, and nothing in   *)
(* it is a guess.  What a page's frames declare sensitive is sensitive in  *)
(* the page that is put together of them, and what is offered of it can be *)
(* named.  What the model proposes is scanned whole, and the history it is *)
(* told is what happened.  What is logged of a run that ended does not     *)
(* change, and a card that ended does not go back to work.  A run is sent  *)
(* only where the user's words ask it to go, and where they ask it to go   *)
(* it plans to be before anything else.                                    *)
EXTENDS TaskTarget, TaskDecomposer, Conversation, PagePerception, WireContract, Output,
        FiniteSetTheorems, WellFoundedInduction, TLAPS

-----------------------------------------------------------------------------
(* Walks over a list.                                                      *)

LEMMA Smallest ==
  ASSUME NEW T, T \subseteq Nat, T # {}
  PROVE  \E x \in T : \A y \in T : x <= y
<1>1. PICK x \in T : \A y \in T : ~(<<y, x>> \in OpToRel(<, Nat))
  BY NatLessThanWellFounded, WFMin, Zenon
<1>2. ASSUME NEW y \in T
      PROVE  x <= y
  <2>1. ~(<<y, x>> \in {ss \in Nat \X Nat : ss[1] < ss[2]})
    BY <1>1 DEF OpToRel
  <2> QED BY <2>1
<1> QED BY <1>2

\* Induction up to n, over the set of the indices for which something holds.
LEMMA Climb ==
  ASSUME NEW n \in Nat, NEW X, 0 \in X, \A i \in 1 .. n : i - 1 \in X => i \in X
  PROVE  0 .. n \subseteq X
<1> DEFINE missed == (0 .. n) \ X
<1> SUFFICES ASSUME missed # {}
             PROVE  FALSE
  OBVIOUS
<1>1. PICK i \in missed : \A j \in missed : i <= j
  <2>1. missed \subseteq Nat
    OBVIOUS
  <2> HIDE DEF missed
  <2> QED BY <2>1, Smallest
<1>2. i \in 1 .. n /\ i - 1 \in 0 .. n /\ i - 1 \notin missed
  BY <1>1
<1> QED BY <1>1, <1>2

\* Where every step leads from a set to itself there is a function that starts at
\* the base and takes the steps.
Steps(n, X) == [1 .. n -> [X -> X]]
Taken(f, n, X, base, step) ==
    f \in [0 .. n -> X] /\ f[0] = base /\ \A i \in 1 .. n : f[i] = step[i][f[i - 1]]

LEMMA Recursed ==
  ASSUME NEW n \in Nat, NEW X, NEW base \in X, NEW step \in Steps(n, X)
  PROVE  \E f : Taken(f, n, X, base, step)
<1> USE DEF Steps, Taken
<1> DEFINE Up(m) == \E f \in [0 .. m -> X] : f[0] = base /\ \A i \in 1 .. m : f[i] = step[i][f[i - 1]]
           reached == {m \in 0 .. n : Up(m)}
<1>1. 0 \in reached
  <2> DEFINE f == [i \in 0 .. 0 |-> base]
  <2>1. f \in [0 .. 0 -> X] /\ f[0] = base /\ \A i \in 1 .. 0 : f[i] = step[i][f[i - 1]]
    OBVIOUS
  <2>2. Up(0)
    <3> HIDE DEF f
    <3> QED BY <2>1
  <2> QED BY <2>2
<1>2. ASSUME NEW m \in 1 .. n, m - 1 \in reached
      PROVE  m \in reached
  <2>1. PICK f \in [0 .. m - 1 -> X] : f[0] = base /\ \A i \in 1 .. m - 1 : f[i] = step[i][f[i - 1]]
    BY <1>2
  <2> DEFINE g == [i \in 0 .. m |-> IF i = m THEN step[m][f[m - 1]] ELSE f[i]]
  <2>2. g \in [0 .. m -> X] /\ g[0] = base
    BY <2>1
  <2>3. ASSUME NEW i \in 1 .. m
        PROVE  g[i] = step[i][g[i - 1]]
    BY <2>1
  <2>4. Up(m)
    <3> HIDE DEF g
    <3> QED BY <2>2, <2>3
  <2> HIDE DEF Up
  <2> QED BY <2>4
<1> HIDE DEF reached
<1>3. 0 .. n \subseteq reached
  BY <1>1, <1>2, Climb
<1> QED BY <1>3 DEF reached

\* What Among has kept on the way.
LEMMA AmongUnfolds ==
  ASSUME NEW T, NEW s \in Seq(T), NEW S
  PROVE  \E kept :
            /\ kept[0] = <<>> /\ Among(s, S) = kept[Len(s)]
            /\ \A i \in 1 .. Len(s) :
                  kept[i] = IF s[i] \in S THEN Append(kept[i - 1], s[i]) ELSE kept[i - 1]
<1> DEFINE n == Len(s)
           X == Seq(T)
           next(i, x) == IF s[i] \in S THEN Append(x, s[i]) ELSE x
           step == [i \in 1 .. n |-> [x \in X |-> next(i, x)]]
           Keeps(f) == f = [i \in 0 .. n |-> IF i = 0 THEN <<>> ELSE next(i, f[i - 1])]
           kept == CHOOSE f : Keeps(f)
<1>0. n \in Nat /\ <<>> \in X
  OBVIOUS
<1>1. \A i \in 1 .. n, x \in X : next(i, x) \in X
  OBVIOUS
<1>2. step \in Steps(n, X)
  BY <1>1 DEF Steps
<1>3. PICK f : Taken(f, n, X, <<>>, step)
  <2> HIDE DEF step, X, n
  <2> QED BY <1>0, <1>2, Recursed
<1>4. ASSUME NEW i \in 1 .. n
      PROVE  f[i] = next(i, f[i - 1])
  <2>1. f[i - 1] \in X
    <3>1. i - 1 \in 0 .. n
      BY <1>0
    <3> HIDE DEF X, step
    <3> QED BY <1>3, <3>1 DEF Taken
  <2>2. \A x \in X : step[i][x] = next(i, x)
    OBVIOUS
  <2> HIDE DEF step, next, X
  <2> QED BY <1>3, <2>1, <2>2 DEF Taken
<1>5. Keeps(f)
  <2> HIDE DEF next, X
  <2> QED BY <1>0, <1>3, <1>4 DEF Taken
<1>6. Keeps(kept)
  BY <1>5
<1>7. Among(s, S) = kept[Len(s)]
  BY Zenon DEF Among, kept, Keeps, next, n
<1> HIDE DEF kept
<1>8. kept[0] = <<>> /\ \A i \in 1 .. n : kept[i] = next(i, kept[i - 1])
  <2> HIDE DEF next
  <2> QED BY <1>0, <1>6
<1> QED BY <1>7, <1>8

LEMMA AmongIsSome ==
  ASSUME NEW T, NEW s \in Seq(T), NEW S
  PROVE  Among(s, S) \in Seq(T \cap S)
<1> DEFINE n == Len(s)
           X == Seq(T \cap S)
<1>1. PICK kept :
         /\ kept[0] = <<>> /\ Among(s, S) = kept[n]
         /\ \A i \in 1 .. n :
               kept[i] = IF s[i] \in S THEN Append(kept[i - 1], s[i]) ELSE kept[i - 1]
  BY AmongUnfolds
<1>2. n \in Nat /\ <<>> \in X
  OBVIOUS
<1>3. \A i \in 1 .. n, x \in X : (IF s[i] \in S THEN Append(x, s[i]) ELSE x) \in X
  OBVIOUS
<1> DEFINE good == {i \in 0 .. n : kept[i] \in X}
<1>4. 0 \in good /\ \A i \in 1 .. n : i - 1 \in good => i \in good
  <2> HIDE DEF X, n
  <2> QED BY <1>1, <1>2, <1>3
<1>5. n \in good
  <2> HIDE DEF good
  <2>1. 0 .. n \subseteq good
    BY <1>2, <1>4, Climb
  <2> QED BY <1>2, <2>1
<1> QED BY <1>1, <1>5

\* Among keeps the order, and leaves nothing out that is in S.
LEMMA AmongInOrder ==
  ASSUME NEW T, NEW s \in Seq(T), NEW S
  PROVE  /\ Among(s, S) \in Seq(T)
         /\ \E place \in [1 .. Len(Among(s, S)) -> 1 .. Len(s)] :
              /\ \A k \in 1 .. Len(Among(s, S)) :
                    /\ Among(s, S)[k] = s[place[k]]
                    /\ \A j \in 1 .. k - 1 : place[j] < place[k]
              /\ \A i \in 1 .. Len(s) : s[i] \in S => \E k \in 1 .. Len(Among(s, S)) : place[k] = i
<1> DEFINE n == Len(s)
           Sifted(x, m) ==
             /\ x \in Seq(T)
             /\ \E place \in [1 .. Len(x) -> 1 .. m] :
                  /\ \A k \in 1 .. Len(x) :
                        x[k] = s[place[k]] /\ \A j \in 1 .. k - 1 : place[j] < place[k]
                  /\ \A i \in 1 .. m : s[i] \in S => \E k \in 1 .. Len(x) : place[k] = i
<1>1. PICK kept :
            /\ kept[0] = <<>> /\ Among(s, S) = kept[n]
            /\ \A i \in 1 .. n :
                  kept[i] = IF s[i] \in S THEN Append(kept[i - 1], s[i]) ELSE kept[i - 1]
  BY AmongUnfolds
<1>2. Sifted(<<>>, 0)
  <2> DEFINE nowhere == [k \in 1 .. 0 |-> 0]
  <2>1. <<>> \in Seq(T) /\ Len(<<>>) = 0
    OBVIOUS
  <2>2. nowhere \in [1 .. 0 -> 1 .. 0]
    OBVIOUS
  <2>3. \A k \in 1 .. 0 : FALSE
    OBVIOUS
  <2> HIDE DEF nowhere
  <2> QED BY <2>1, <2>2, <2>3
<1>3. ASSUME NEW i \in 1 .. n, NEW x, Sifted(x, i - 1)
      PROVE  Sifted(IF s[i] \in S THEN Append(x, s[i]) ELSE x, i)
  <2>0. i \in Nat \ {0} /\ x \in Seq(T) /\ Len(x) \in Nat
    BY <1>3
  <2>1. PICK place \in [1 .. Len(x) -> 1 .. i - 1] :
          /\ \A k \in 1 .. Len(x) :
                x[k] = s[place[k]] /\ \A j \in 1 .. k - 1 : place[j] < place[k]
          /\ \A m \in 1 .. i - 1 : s[m] \in S => \E k \in 1 .. Len(x) : place[k] = m
    BY <1>3
  <2>2. CASE s[i] \notin S
    <3>1. place \in [1 .. Len(x) -> 1 .. i]
      BY <2>0
    <3>2. \A m \in 1 .. i : s[m] \in S => m \in 1 .. i - 1
      BY <2>0, <2>2
    <3> QED BY <2>0, <2>1, <2>2, <3>1, <3>2
  <2>3. CASE s[i] \in S
    <3> DEFINE y == Append(x, s[i])
               there == [k \in 1 .. Len(x) + 1 |-> IF k = Len(x) + 1 THEN i ELSE place[k]]
    <3>1. /\ y \in Seq(T) /\ Len(y) = Len(x) + 1 /\ y[Len(x) + 1] = s[i]
          /\ \A k \in 1 .. Len(x) : y[k] = x[k]
      BY <2>0
    <3>2. there \in [1 .. Len(y) -> 1 .. i]
      <4>1. \A l \in Nat : \A k \in 1 .. l + 1 : k # l + 1 => k \in 1 .. l
        OBVIOUS
      <4>2. \A k \in 1 .. Len(x) : place[k] \in 1 .. i
        BY <2>0
      <4> HIDE DEF y
      <4> QED BY <2>0, <3>1, <4>1, <4>2
    <3>3. ASSUME NEW k \in 1 .. Len(y)
          PROVE  y[k] = s[there[k]] /\ \A j \in 1 .. k - 1 : there[j] < there[k]
      <4>1. CASE k = Len(x) + 1
        <5>1. \A j \in 1 .. k - 1 : j \in 1 .. Len(x) /\ there[j] = place[j] /\ place[j] \in 1 .. i - 1
          BY <2>0, <4>1
        <5>2. there[k] = i
          BY <2>0, <4>1
        <5> HIDE DEF y, there
        <5>3. y[k] = s[there[k]]
          BY <3>1, <4>1, <5>2
        <5>4. \A j \in 1 .. k - 1 : there[j] < there[k]
          BY <2>0, <5>1, <5>2
        <5> QED BY <5>3, <5>4
      <4>2. CASE k # Len(x) + 1
        <5>1. k \in 1 .. Len(x)
          BY <2>0, <3>1, <4>2
        <5>2. \A j \in 1 .. k : there[j] = place[j]
          BY <2>0, <5>1
        <5> HIDE DEF y, there
        <5> QED BY <2>0, <2>1, <3>1, <5>1, <5>2
      <4> QED BY <4>1, <4>2
    <3>4. ASSUME NEW m \in 1 .. i, s[m] \in S
          PROVE  \E k \in 1 .. Len(y) : there[k] = m
      <4>1. CASE m = i
        <5> WITNESS Len(x) + 1 \in 1 .. Len(y)
        <5> QED BY <2>0, <4>1
      <4>2. CASE m # i
        <5>1. PICK k \in 1 .. Len(x) : place[k] = m
          BY <2>0, <2>1, <3>4, <4>2
        <5>2. k \in 1 .. Len(y) /\ there[k] = m
          BY <2>0, <3>1, <5>1
        <5> QED BY <5>2
      <4> QED BY <4>1, <4>2
    <3> HIDE DEF y, there
    <3>5. Sifted(y, i)
      BY <3>1, <3>2, <3>3, <3>4
    <3> QED BY <2>3, <3>5 DEF y
  <2> QED BY <2>2, <2>3
<1> HIDE DEF Sifted
<1> DEFINE good == {i \in 0 .. n : Sifted(kept[i], i)}
<1>4. n \in Nat /\ 0 \in good /\ \A i \in 1 .. n : i - 1 \in good => i \in good
  <2>1. n \in Nat
    OBVIOUS
  <2>2. 0 \in good
    BY <1>1, <1>2, <2>1
  <2>3. ASSUME NEW i \in 1 .. n, i - 1 \in good
        PROVE  i \in good
    <3>1. Sifted(kept[i - 1], i - 1)
      BY <2>3
    <3>2. Sifted(kept[i], i)
      <4> HIDE DEF n
      <4> QED BY <1>1, <1>3, <3>1
    <3> QED BY <3>2
  <2> HIDE DEF good
  <2> QED BY <2>1, <2>2, <2>3
<1>5. n \in good
  <2> HIDE DEF good
  <2>1. 0 .. n \subseteq good
    BY <1>4, Climb
  <2> HIDE DEF n
  <2> QED BY <1>4, <2>1
<1>6. Sifted(Among(s, S), n)
  <2> HIDE DEF n
  <2> QED BY <1>1, <1>5
<1> HIDE DEF good
<1> QED BY <1>6 DEF Sifted

-----------------------------------------------------------------------------
(* The tab of a task (TaskTarget).                                         *)

\* A host that ends in another one has its labels, from the last one on.
LEMMA SuffixLabels ==
  ASSUME NEW s \in Host, NEW t \in Host, IsSuffix(s, t)
  PROVE  Len(s) <= Len(t) /\ \A i \in 1 .. Len(s) : s[i] = t[Len(t) - Len(s) + i]
<1> DEFINE rs == Reverse(s)
           rt == Reverse(t)
<1>1. /\ rs = [i \in 1 .. Len(s) |-> s[(Len(s) - i) + 1]] /\ Len(rs) = Len(s) /\ rs \in Seq(STRING)
      /\ rt = [i \in 1 .. Len(t) |-> t[(Len(t) - i) + 1]] /\ Len(rt) = Len(t) /\ rt \in Seq(STRING)
  BY DEF Reverse, Host
<1>2. Len(s) <= Len(t) /\ SubSeq(rs, 1, Len(s)) = SubSeq(rt, 1, Len(s))
  BY <1>1 DEF IsSuffix, IsPrefix
<1> HIDE DEF rs, rt
<1>3. ASSUME NEW i \in 1 .. Len(s)
      PROVE  s[i] = t[Len(t) - Len(s) + i]
  <2> DEFINE k == Len(s) - i + 1
  <2>1. k \in 1 .. Len(s) /\ k \in 1 .. Len(t)
    BY <1>2 DEF Host
  <2>2. SubSeq(rs, 1, Len(s))[k] = rs[k] /\ SubSeq(rt, 1, Len(s))[k] = rt[k]
    BY <1>1, <1>2, <2>1
  <2>3. rs[k] = s[i] /\ rt[k] = t[Len(t) - Len(s) + i]
    <3>1. (Len(s) - k) + 1 = i /\ (Len(t) - k) + 1 = Len(t) - Len(s) + i
      BY DEF Host
    <3> QED BY <1>1, <2>1, <3>1
  <2> QED BY <1>2, <2>2, <2>3
<1> QED BY <1>2, <1>3

LEMMA BeneathShares ==
  ASSUME NEW s \in Host, NEW t \in Host, Beneath(t, s)
  PROVE  Labels(s) \cap Labels(t) # {}
<1>1. s # <<>> /\ Len(s) <= Len(t) /\ \A i \in 1 .. Len(s) : s[i] = t[Len(t) - Len(s) + i]
  BY SuffixLabels DEF Beneath
<1>2. Len(s) \in 1 .. Len(s) /\ Len(t) \in 1 .. Len(t) /\ s[Len(s)] = t[Len(t)]
  BY <1>1 DEF Host
<1> QED BY <1>2 DEF Labels, Host

\* A page that suits what a message says of the site it wants has to do with it.
LEMMA SuitingIsRelated ==
  ASSUME NEW task \in Errands, NEW page \in Page,
         Mention(task) # None, Suits(page, Mention(task))
  PROVE  ~Unrelated(page, task)
<1> DEFINE ref == Mention(task)
<1>0. /\ task \in Errand /\ task.host \in Host /\ page.host \in Host
      /\ task.form # None => task.host # <<>>
      /\ task.form = "domain" => Len(task.host) >= 2
  BY TargetAssumption DEF Errand, Page
<1>a. None \notin {"url", "name", "on"}
  BY TargetAssumption DEF Forms
<1>1. \/ ref.host \in Host /\ Labels(ref.host) \subseteq Labels(task.host)
      \/ ref.host = <<>>
  <2>1. CASE task.form = "domain"
    <3>1. /\ Mention(task).host = SubSeq(task.host, 1, 2)
      BY <2>1 DEF Mention
    <3>2. /\ SubSeq(task.host, 1, 2) \in Host /\ Len(SubSeq(task.host, 1, 2)) = 2
          /\ SubSeq(task.host, 1, 2)[1] = task.host[1] /\ SubSeq(task.host, 1, 2)[2] = task.host[2]
      BY <1>0, <2>1 DEF Host
    <3>3. DOMAIN SubSeq(task.host, 1, 2) = {1, 2} /\ {1, 2} \subseteq DOMAIN task.host
      BY <1>0, <2>1, <3>2 DEF Host
    <3> QED BY <3>1, <3>2, <3>3 DEF Labels
  <2>2. CASE task.form \in {"url", "port"}
    <3>1. Mention(task).host = task.host
      BY <2>2 DEF Mention
    <3> QED BY <1>0, <3>1
  <2>3. CASE task.form \notin {"url", "port", "domain"}
    <3>1. Mention(task).host = <<>>
      BY <2>3 DEF Mention
    <3> QED BY <3>1
  <2> QED BY <2>1, <2>2, <2>3
<1>2. ref.site # None => ref.site \in Labels(task.host)
  <2>0. \A host \in Host : host # <<>> => SiteLabel(host) \in Labels(host)
    BY DEF SiteLabel, Labels, Host
  <2>1. CASE task.form = "domain"
    <3>1. Mention(task).site = SiteLabel(SubSeq(task.host, 1, 2)) /\ ref.host = SubSeq(task.host, 1, 2)
      BY <2>1 DEF Mention
    <3>2. SubSeq(task.host, 1, 2) \in Host /\ SubSeq(task.host, 1, 2) # <<>>
      BY <1>0, <2>1 DEF Host
    <3> QED BY <1>1, <2>0, <3>1, <3>2
  <2>2. CASE task.form = "url"
    <3>1. Mention(task).site = SiteLabel(task.host)
      BY <2>2 DEF Mention
    <3>2. task.host # <<>>
      BY <1>0, <1>a, <2>2
    <3> QED BY <1>0, <2>0, <3>1, <3>2
  <2>3. CASE task.form = "port"
    BY <2>3 DEF Mention
  <2>4. CASE task.form \in {"name", "on"}
    <3>1. Mention(task).site = task.host[1]
      BY <2>4 DEF Mention
    <3>2. task.host # <<>>
      BY <1>0, <1>a, <2>4
    <3> QED BY <1>0, <3>1, <3>2 DEF Labels, Host
  <2>5. task.form \in {"url", "domain", "port", "name", "on"}
    BY <1>0 DEF Errand, Forms, Mention
  <2> QED BY <2>1, <2>2, <2>3, <2>4, <2>5
<1> HIDE DEF ref
<1>3. \/ ref.host \in Host /\ (Beneath(page.host, ref.host) \/ Beneath(ref.host, page.host))
      \/ ref.site # None /\ ref.site \in Labels(page.host) \cup page.title
  BY <1>1 DEF ref, Suits, Beneath
<1>4. CASE ref.host \in Host /\ (Beneath(page.host, ref.host) \/ Beneath(ref.host, page.host))
  <2>1. Labels(ref.host) \cap Labels(page.host) # {}
    BY <1>0, <1>4, BeneathShares
  <2>2. Labels(ref.host) \subseteq Labels(task.host)
    BY <1>1, <2>1 DEF Labels
  <2> QED BY <2>1, <2>2 DEF Unrelated
<1>5. CASE ref.site # None /\ ref.site \in Labels(page.host) \cup page.title
  BY <1>2, <1>5 DEF Unrelated
<1> QED BY <1>3, <1>4, <1>5

-----------------------------------------------------------------------------
LEMMA ForemostIsOne ==
  ASSUME NEW ns, ns \subseteq Nat, ns # {}, NEW infront
  PROVE  Foremost(ns, infront) \in ns
<1>1. \E x \in ns : \A y \in ns : x <= y
  BY Smallest
<1> QED BY <1>1 DEF Foremost

LEMMA MentionTyped ==
  ASSUME NEW task \in Errands, Mention(task) # None
  PROVE  Mention(task).host \in Host /\ Mention(task).port \in Port
<1>0. task \in Errand /\ task.host \in Host /\ task.port \in Port
  BY TargetAssumption DEF Errand
<1>1. SubSeq(task.host, 1, 2) \in Host \/ task.form # "domain"
  BY <1>0, TargetAssumption DEF Host
<1>2. <<>> \in Host
  BY DEF Host
<1> QED BY <1>0, <1>1, <1>2 DEF Mention

LEMMA Resolution ==
  ASSUME NEW list \in Seq(Page), NEW infront, NEW task \in Errands
  PROVE  LET found == ResolveTarget(list, infront, task)
         IN  /\ found.tab # None =>
                  /\ found.tab \in 1 .. Len(list)
                  /\ Mention(task) # None => Suits(list[found.tab], Mention(task))
             /\ found.open # None => Landing(found.open) \in Page
<1> DEFINE ref == Mention(task)
           fitting == IF ref = None THEN Eligible(list) ELSE {n \in Eligible(list) : Suits(list[n], ref)}
           dest == IF ref = None THEN Extracted(task) ELSE IF MayOpen(ref, task) THEN Destination(ref) ELSE None
           found == ResolveTarget(list, infront, task)
<1>1. fitting \subseteq 1 .. Len(list) /\ fitting \subseteq Nat
  BY DEF Eligible
<1>2. ASSUME found.tab # None
      PROVE  found.tab \in fitting
  <2>1. fitting # {} /\ found.tab = Foremost(fitting, infront)
    BY <1>2 DEF ResolveTarget
  <2> HIDE DEF fitting, found
  <2> QED BY <1>1, <2>1, ForemostIsOne
<1>3. ASSUME found.open # None
      PROVE  Landing(found.open) \in Page
  <2>1. found.open = dest /\ dest # None
    BY <1>3 DEF ResolveTarget
  <2>2. ASSUME NEW name, Portal(name) # None
        PROVE  Portal(name) \in Host
    BY <2>2, TargetAssumption DEF Portal
  <2>3. None \in Port /\ ref # None => ref.host \in Host /\ ref.port \in Port
    BY MentionTyped DEF Port
  <2>4. CASE ref = None
    BY <2>1, <2>2, <2>3, <2>4 DEF Extracted, Landing, Page, Port
  <2>5. CASE ref # None
    <3> HIDE DEF ref
    <3>1. dest = Destination(ref)
      BY <2>1, <2>5
    <3>2. dest.host \in Host /\ dest.port \in Port
      <4>1. CASE ref.host # <<>>
        <5>1. Destination(ref) = [host |-> ref.host, port |-> ref.port]
          BY <4>1 DEF Destination
        <5>2. ref.host \in Host /\ ref.port \in Port
          BY <2>3, <2>5 DEF Port
        <5> HIDE DEF dest
        <5> QED BY <3>1, <5>1, <5>2
      <4>2. CASE ref.host = <<>>
        <5>1. Portal(ref.site) # None
          BY <2>1, <3>1, <4>2 DEF Destination
        <5>2. Destination(ref) = [host |-> Portal(ref.site), port |-> None]
          BY <4>2, <5>1 DEF Destination
        <5>3. Portal(ref.site) \in Host
          BY <2>2, <5>1
        <5> HIDE DEF dest
        <5> QED BY <3>1, <5>2, <5>3 DEF Port
      <4> QED BY <4>1, <4>2
    <3> HIDE DEF dest, found
    <3> QED BY <2>1, <3>2 DEF Landing, Page
  <2> QED BY <2>4, <2>5
<1> HIDE DEF found
<1>4. found.tab # None => found.tab \in fitting
  BY <1>2
<1> QED BY <1>1, <1>3, <1>4 DEF found

\* What the harness lets through is no strange page.
LEMMA WithinIsKnown ==
  ASSUME NEW page \in Page, NEW home \in Page, Scope(home) # None, WithinScope(page, home)
  PROVE  ~Strange(page, home)
<1>1. home.host \in Host /\ Scope(home) = RootHost(home.host) /\ home.host # <<>>
  BY DEF Scope, NoHost, Page
<1>2. RootHost(home.host) = SiteOf(home)
  <2> DEFINE h == home.host
  <2>0. Len(h) \in Nat
    BY <1>1 DEF Host
  <2>1. CASE Len(home.host) > 2
    <3>1. ~(Len(h) <= 2)
      BY <2>0, <2>1
    <3> HIDE DEF h
    <3>2. RootHost(h) = SubSeq(h, Len(h) - 1, Len(h))
      BY <3>1 DEF RootHost
    <3>3. (IF Len(h) > 2 THEN Len(h) - 1 ELSE 1) = Len(h) - 1
      BY <2>0, <3>1
    <3> QED BY <3>2, <3>3 DEF SiteOf, h
  <2>2. CASE Len(home.host) <= 2
    <3>1. SubSeq(home.host, 1, Len(home.host)) = home.host
      BY <1>1 DEF Host
    <3>2. (IF Len(h) > 2 THEN Len(h) - 1 ELSE 1) = 1
      BY <2>0, <2>2
    <3>3. RootHost(h) = h
      BY <2>2 DEF RootHost
    <3> QED BY <3>1, <3>2, <3>3 DEF SiteOf
  <2> QED BY <2>0, <2>1, <2>2
<1> QED BY <1>1, <1>2 DEF WithinScope, Strange, Beneath

-----------------------------------------------------------------------------
(* The invariant: what a body has at each place, n being the number of     *)
(* tabs.                                                                   *)

Looking == {"asked", "listed", "refused"}
Running == {"activating", "told", "between", "reading"}

Found(b, n) ==
    /\ b.at \in Looking => b.home = None
    /\ b.at \in Looking \cup {"loading"} => b.read = <<>>
    /\ b.at \in {"asked", "listed", "loading"} \cup Running => b.task \in Errands
    /\ b.at = "listed" => Len(b.list) <= n
    /\ b.at = "loading" => b.opened /\ b.home \in Page /\ b.tab \in 1 .. n
    /\ b.at \in Running =>
          /\ b.home \in Page /\ Scope(b.home) # None /\ b.tab \in 1 .. n
          /\ b.seen = IF b.read = <<>> THEN b.home ELSE b.read[Len(b.read)]

Suited(b) ==
    b.home # None /\ ~b.opened /\ b.task \in Errands /\ Mention(b.task) # None
        => Suits(b.home, Mention(b.task))

Known(b) ==
    /\ \A k \in 1 .. Len(b.read) - 1 : ~Strange(b.read[k], b.home)
    /\ b.at = "reading" => b.seen \in Page /\ ~Strange(b.seen, b.home)
    /\ b.home # None => b.task \in Errands

Holds(b, n) == Found(b, n) /\ Suited(b) /\ Known(b)

TargetInv ==
    /\ TargetTypeOK
    /\ Len(starts) <= owner
    /\ \A r \in 1 .. Len(starts) : Holds(starts[r], Len(tabs))

LEMMA TargetStarts == TargetInit => TargetInv
BY TargetAssumption DEF TargetInit, TargetInv, TargetTypeOK, Dashboard

\* More tabs disturb nothing.
LEMMA MoreTabs ==
  ASSUME NEW b \in StartBody, NEW m \in Nat, NEW n \in Nat, m <= n, Holds(b, m)
  PROVE  Holds(b, n)
<1>1. Len(b.list) \in Nat
  BY DEF StartBody
<1> QED BY <1>1 DEF Holds, Found

\* A step of one body.
LEMMA BodyStep ==
  ASSUME TargetInv, NEW r \in 1 .. Len(starts), NEW b \in StartBody,
         starts' = [starts EXCEPT ![r] = b],
         tabs' \in Seq(Page), Len(tabs) <= Len(tabs'),
         Holds(b, Len(tabs')),
         front' \in Nat, owner' = owner, looping' \in Nat \cup {None}, browsed' = browsed
  PROVE  TargetInv'
<1>1. starts' \in Seq(StartBody) /\ Len(starts') = Len(starts)
  BY DEF TargetInv, TargetTypeOK
<1>2. ASSUME NEW q \in 1 .. Len(starts)
      PROVE  Holds(starts'[q], Len(tabs'))
  <2>1. CASE q = r
    <3>1. starts'[q] = b
      BY <2>1 DEF TargetInv, TargetTypeOK
    <3> QED BY <3>1
  <2>2. CASE q # r
    <3>1. starts'[q] = starts[q] /\ starts[q] \in StartBody
      BY <2>2 DEF TargetInv, TargetTypeOK
    <3>2. Len(tabs) \in Nat /\ Len(tabs') \in Nat /\ Holds(starts[q], Len(tabs))
      BY DEF TargetInv, TargetTypeOK
    <3> QED BY <3>1, <3>2, MoreTabs
  <2> QED BY <2>1, <2>2
<1> QED BY <1>1, <1>2 DEF TargetInv, TargetTypeOK

\* The fields of a body that goes somewhere.
LEMMA TabGone ==
  ASSUME TargetInv, NEW r \in 1 .. Len(starts), NEW place \in StartPlaces
  PROVE  /\ starts[r] \in StartBody /\ To(r, place) \in StartBody
         /\ To(r, place).at = place /\ To(r, place).list = <<>>
         /\ To(r, place).task = starts[r].task /\ To(r, place).tab = starts[r].tab
         /\ To(r, place).opened = starts[r].opened /\ To(r, place).home = starts[r].home
         /\ To(r, place).seen = starts[r].seen /\ To(r, place).read = starts[r].read
<1>1. starts[r] \in StartBody
  BY DEF TargetInv, TargetTypeOK
<1> DEFINE b == starts[r]
<1>2. <<>> \in Seq(Page)
  OBVIOUS
<1>3. To(r, place) = [b EXCEPT !.at = place, !.list = <<>>, !.infront = None]
  BY DEF To
<1> HIDE DEF b
<1> QED BY <1>1, <1>2, <1>3 DEF StartBody, b

\* A body that gives up, or goes on as it is.
LEMMA GoneHolds ==
  ASSUME TargetInv, NEW r \in 1 .. Len(starts), NEW place \in StartPlaces,
         \/ place \in {"dropped", "failed", "stopped", "ended"}
         \/ starts[r].at \in Running /\ place \in Running \ {"reading"}
  PROVE  Holds(To(r, place), Len(tabs))
<1>1. Holds(starts[r], Len(tabs)) /\ starts[r] \in StartBody
  BY DEF TargetInv, TargetTypeOK
<1> DEFINE b == To(r, place)
<1>2. /\ b.at = place /\ b.task = starts[r].task /\ b.tab = starts[r].tab
      /\ b.opened = starts[r].opened /\ b.home = starts[r].home
      /\ b.seen = starts[r].seen /\ b.read = starts[r].read
  BY TabGone
<1> HIDE DEF b
<1>3. Found(b, Len(tabs))
  BY <1>1, <1>2 DEF Holds, Found, Running, Looking
<1>4. Suited(b)
  BY <1>1, <1>2 DEF Holds, Suited
<1>5. Known(b)
  BY <1>1, <1>2 DEF Holds, Known, Running
<1> QED BY <1>3, <1>4, <1>5 DEF Holds, b

LEMMA GoneStep ==
  ASSUME TargetInv, NEW r \in 1 .. Len(starts), NEW place \in StartPlaces,
         \/ place \in {"dropped", "failed", "stopped", "ended"}
         \/ starts[r].at \in Running /\ place \in Running \ {"reading"},
         Goes(r, To(r, place)), tabs' = tabs, front' \in Nat,
         owner' = owner, looping' \in Nat \cup {None}, browsed' = browsed
  PROVE  TargetInv'
<1>1. Holds(To(r, place), Len(tabs')) /\ To(r, place) \in StartBody
  BY GoneHolds, TabGone
<1>2. tabs' \in Seq(Page) /\ Len(tabs) <= Len(tabs')
  BY DEF TargetInv, TargetTypeOK
<1> QED BY <1>1, <1>2, BodyStep DEF Goes

\* A tab that bounds a loop: what it was found for still holds.
LEMMA ChosenStep ==
  ASSUME TargetInv, NEW r \in 1 .. Len(starts), NEW tab \in 1 .. Len(tabs), NEW page \in Page,
         Chosen(r, tab, page), UNCHANGED <<tabs, owner, looping, browsed>>,
         starts[r].task \in Errands, starts[r].read = <<>>,
         starts[r].opened \/ (Mention(starts[r].task) # None => Suits(page, Mention(starts[r].task)))
  PROVE  TargetInv'
<1>1. CASE Scope(page) = None
  <2>1. Goes(r, To(r, "failed")) /\ front' = front
    BY <1>1 DEF Chosen
  <2>2. front' \in Nat /\ looping' \in Nat \cup {None} /\ "failed" \in StartPlaces
    BY <2>1 DEF TargetInv, TargetTypeOK, StartPlaces
  <2> QED BY <2>1, <2>2, GoneStep
<1>2. CASE Scope(page) # None
  <2> DEFINE b == [To(r, "activating") EXCEPT !.tab = tab, !.home = page, !.seen = page]
  <2>1. starts' = [starts EXCEPT ![r] = b] /\ front' = tab
    BY <1>2 DEF Chosen, Goes
  <2> DEFINE t == To(r, "activating")
  <2>2. /\ t \in StartBody /\ t.at = "activating" /\ t.task = starts[r].task
        /\ t.opened = starts[r].opened /\ t.read = <<>>
    <3>1. "activating" \in StartPlaces
      BY DEF StartPlaces
    <3> QED BY <3>1, TabGone
  <2>3. b = [t EXCEPT !.tab = tab, !.home = page, !.seen = page]
    OBVIOUS
  <2> HIDE DEF t
  <2>4. /\ b \in StartBody /\ b.at = "activating" /\ b.task = starts[r].task /\ b.opened = starts[r].opened
        /\ b.read = <<>> /\ b.tab = tab /\ b.home = page /\ b.seen = page
    <3>1. tab \in Nat \cup {None} /\ page \in Page \cup {None}
      OBVIOUS
    <3> QED BY <2>2, <2>3, <3>1 DEF StartBody
  <2> HIDE DEF b
  <2>5. Holds(b, Len(tabs'))
    <3> QED BY <2>4, <1>2 DEF Holds, Found, Suited, Known, Looking, Running
  <2>6. tab \in Nat /\ tabs' \in Seq(Page) /\ Len(tabs) <= Len(tabs')
    BY DEF TargetInv, TargetTypeOK
  <2> QED BY <2>1, <2>4, <2>5, <2>6, BodyStep DEF TargetInv, TargetTypeOK
<1> QED BY <1>1, <1>2

LEMMA TargetStep == TargetInv /\ [TargetNext]_targetVars => TargetInv'
<1> SUFFICES ASSUME TargetInv, [TargetNext]_targetVars
             PROVE  TargetInv'
  OBVIOUS
<1> USE TargetAssumption
<1>0. /\ tabs \in Seq(Page) /\ front \in Nat /\ owner \in Nat /\ starts \in Seq(StartBody)
      /\ looping \in Nat \cup {None} /\ browsed \in Nat /\ Len(tabs) \in Nat
      /\ Len(starts) \in Nat /\ Len(starts) <= owner /\ DOMAIN starts = 1 .. Len(starts)
  BY DEF TargetInv, TargetTypeOK
<1>1. ASSUME NEW r \in 1 .. Len(starts)
      PROVE  starts[r] \in StartBody /\ Holds(starts[r], Len(tabs))
  BY <1>0, <1>1 DEF TargetInv
<1>2. ASSUME NEW task \in Errands, NEW settled \in BOOLEAN, MessageComes(task, settled)
      PROVE  TargetInv'
  <2>1. PICK b \in {Fresh(task), [Fresh(None) EXCEPT !.at = "refused"]} : starts' = Append(starts, b)
    BY <1>2 DEF MessageComes
  <2>2. <<>> \in Seq(Page)
    OBVIOUS
  <2>3. /\ b \in StartBody /\ b.at \in {"asked", "refused"} /\ b.home = None /\ b.read = <<>>
        /\ b.at = "asked" => b.task \in Errands
    <3>1. CASE b = Fresh(task)
      BY <2>2, <3>1 DEF Fresh, StartBody, StartPlaces
    <3>2. CASE b = [Fresh(None) EXCEPT !.at = "refused"]
      <4>1. b = [task |-> None, at |-> "refused", list |-> <<>>, infront |-> None, tab |-> None,
                 opened |-> FALSE, home |-> None, seen |-> None, read |-> <<>>]
        BY <3>2 DEF Fresh
      <4> QED BY <2>2, <4>1 DEF StartBody, StartPlaces
    <3> QED BY <2>1, <3>1, <3>2
  <2>4. Holds(b, Len(tabs))
    BY <2>3 DEF Holds, Found, Suited, Known, Looking, Running
  <2>5. /\ owner' = Len(starts) + 1 /\ UNCHANGED <<tabs, front, browsed>>
        /\ looping' \in {None, looping}
    BY <1>2 DEF MessageComes
  <2>6. /\ starts' \in Seq(StartBody) /\ Len(starts') = Len(starts) + 1
        /\ \A q \in 1 .. Len(starts) : starts'[q] = starts[q]
        /\ starts'[Len(starts) + 1] = b
    BY <1>0, <2>1, <2>3
  <2>7. ASSUME NEW q \in 1 .. Len(starts')
        PROVE  Holds(starts'[q], Len(tabs'))
    <3>1. CASE q \in 1 .. Len(starts)
      BY <1>1, <2>5, <2>6, <3>1
    <3>2. CASE q = Len(starts) + 1
      BY <2>4, <2>5, <2>6, <3>2
    <3> QED BY <1>0, <2>6, <3>1, <3>2
  <2> QED BY <1>0, <2>5, <2>6, <2>7 DEF TargetInv, TargetTypeOK
<1>3. CASE StopComes
  <2>1. owner' = owner + 1 /\ looping' = None /\ UNCHANGED <<tabs, front, starts, browsed>>
    BY <1>3 DEF StopComes
  <2> QED BY <1>0, <1>1, <2>1 DEF TargetInv, TargetTypeOK
<1>4. ASSUME NEW r \in Bodies, TabsListed(r)
      PROVE  TargetInv'
  <2> DEFINE t == To(r, "listed")
             b == [t EXCEPT !.list = tabs, !.infront = front]
  <2>1. /\ r \in 1 .. Len(starts) /\ starts[r].at = "asked" /\ starts' = [starts EXCEPT ![r] = b]
        /\ UNCHANGED <<tabs, front, owner, looping, browsed>>
    BY <1>0, <1>4 DEF TabsListed, Goes, AtPlace, Bodies
  <2>2. /\ t \in StartBody /\ t.at = "listed" /\ t.task = starts[r].task /\ t.home = starts[r].home
        /\ t.read = starts[r].read
    <3>1. "listed" \in StartPlaces
      BY DEF StartPlaces
    <3> QED BY <2>1, <3>1, TabGone
  <2> HIDE DEF t
  <2>3. /\ b \in StartBody /\ b.at = "listed" /\ b.task = starts[r].task /\ b.home = starts[r].home
        /\ b.read = starts[r].read /\ b.list = tabs
    BY <1>0, <2>2 DEF StartBody
  <2> HIDE DEF b
  <2>4. Holds(b, Len(tabs'))
    BY <1>0, <1>1, <2>1, <2>3 DEF Holds, Found, Suited, Known, Looking, Running
  <2>5. /\ tabs' \in Seq(Page) /\ Len(tabs) <= Len(tabs') /\ front' \in Nat
        /\ owner' = owner /\ looping' \in Nat \cup {None} /\ browsed' = browsed
    BY <1>0, <2>1
  <2> QED BY <2>1, <2>3, <2>4, <2>5, BodyStep
<1>5. ASSUME NEW r \in Bodies, Decides(r)
      PROVE  TargetInv'
  <2> DEFINE body == starts[r]
             found == ResolveTarget(body.list, body.infront, body.task)
  <2>1. /\ r \in 1 .. Len(starts) /\ body.at = "listed"
        /\ UNCHANGED <<owner, looping, browsed>>
    BY <1>0, <1>5 DEF Decides, AtPlace, Bodies
  <2>2. /\ body.task \in Errands /\ body.home = None /\ body.read = <<>>
        /\ body.list \in Seq(Page) /\ Len(body.list) <= Len(tabs)
    BY <1>1, <2>1 DEF Holds, Found, Looking, StartBody
  <2>3. /\ found.tab # None =>
              /\ found.tab \in 1 .. Len(body.list)
              /\ Mention(body.task) # None => Suits(body.list[found.tab], Mention(body.task))
        /\ found.open # None => Landing(found.open) \in Page
    BY <2>2, Resolution
  <2>4. CASE Goes(r, To(r, "dropped")) /\ UNCHANGED <<tabs, front>>
    BY <1>0, <2>1, <2>4, GoneStep DEF StartPlaces
  <2>5. CASE found.tab # None /\ Chosen(r, found.tab, body.list[found.tab]) /\ UNCHANGED tabs
    <3>1. found.tab \in 1 .. Len(tabs) /\ body.list[found.tab] \in Page
      BY <1>0, <2>2, <2>3, <2>5
    <3> HIDE DEF found
    <3> QED BY <2>1, <2>2, <2>3, <2>5, <3>1, ChosenStep
  <2>6. CASE /\ found.open # None
             /\ tabs' = Append(tabs, Landing(found.open)) /\ front' = Len(tabs')
             /\ Goes(r, [To(r, "loading") EXCEPT !.tab = Len(tabs'), !.opened = TRUE, !.home = tabs'[Len(tabs')]])
    <3> DEFINE t == To(r, "loading")
               b == [t EXCEPT !.tab = Len(tabs'), !.opened = TRUE, !.home = tabs'[Len(tabs')]]
    <3>1. /\ tabs' \in Seq(Page) /\ Len(tabs') = Len(tabs) + 1 /\ Len(tabs') \in Nat
          /\ tabs'[Len(tabs')] \in Page
      BY <1>0, <2>3, <2>6
    <3>2. /\ t \in StartBody /\ t.at = "loading" /\ t.task = body.task /\ t.read = <<>>
      <4>1. "loading" \in StartPlaces
        BY DEF StartPlaces
      <4> QED BY <2>1, <2>2, <4>1, TabGone
    <3> HIDE DEF t
    <3>3. /\ b \in StartBody /\ b.at = "loading" /\ b.task = body.task /\ b.read = <<>>
          /\ b.tab = Len(tabs') /\ b.opened /\ b.home = tabs'[Len(tabs')]
      BY <3>1, <3>2 DEF StartBody
    <3>4. starts' = [starts EXCEPT ![r] = b]
      BY <2>6 DEF Goes, t
    <3> HIDE DEF b
    <3>5. Holds(b, Len(tabs'))
      BY <1>0, <2>2, <3>1, <3>3 DEF Holds, Found, Suited, Known, Looking, Running
    <3>6. /\ tabs' \in Seq(Page) /\ Len(tabs) <= Len(tabs') /\ front' \in Nat
          /\ owner' = owner /\ looping' \in Nat \cup {None} /\ browsed' = browsed
      BY <1>0, <2>1, <2>6, <3>1
    <3> QED BY <2>1, <3>3, <3>4, <3>5, <3>6, BodyStep
  <2>7. CASE Goes(r, To(r, "failed")) /\ UNCHANGED <<tabs, front>>
    BY <1>0, <2>1, <2>7, GoneStep DEF StartPlaces
  <2> QED BY <1>5, <2>4, <2>5, <2>6, <2>7 DEF Decides
<1>6. ASSUME NEW r \in Bodies, NEW ready \in BOOLEAN, Provisioned(r, ready)
      PROVE  TargetInv'
  <2>1. /\ r \in 1 .. Len(starts) /\ starts[r].at = "loading"
        /\ UNCHANGED <<tabs, owner, looping, browsed>>
    BY <1>0, <1>6 DEF Provisioned, AtPlace, Bodies
  <2>2. /\ starts[r].opened /\ starts[r].home \in Page /\ starts[r].tab \in 1 .. Len(tabs)
        /\ starts[r].read = <<>>
    BY <1>1, <2>1 DEF Holds, Found, Looking
  <2>3. CASE \E place \in {"dropped", "failed"} : Goes(r, To(r, place)) /\ UNCHANGED front
    BY <1>0, <2>1, <2>3, GoneStep DEF StartPlaces
  <2>4. CASE Chosen(r, starts[r].tab, starts[r].home)
    <3>1. starts[r].task \in Errands
      BY <1>1, <2>1 DEF Holds, Found
    <3> QED BY <2>1, <2>2, <2>4, <3>1, ChosenStep
  <2> QED BY <1>6, <2>3, <2>4 DEF Provisioned
<1>7. ASSUME NEW r \in Bodies, NEW ready \in BOOLEAN, Acknowledges(r, ready)
      PROVE  TargetInv'
  <2>1. /\ r \in 1 .. Len(starts) /\ starts[r].at = "activating"
        /\ UNCHANGED <<tabs, front, owner, looping, browsed>>
        /\ \E place \in {"told", "failed"} : Goes(r, To(r, place))
    BY <1>0, <1>7 DEF Acknowledges, AtPlace, Bodies
  <2> QED BY <1>0, <2>1, GoneStep DEF StartPlaces, Running
<1>8. ASSUME NEW r \in Bodies, LoopStarts(r)
      PROVE  TargetInv'
  <2>1. /\ r \in 1 .. Len(starts) /\ starts[r].at = "told"
        /\ UNCHANGED <<tabs, front, owner, browsed>> /\ looping' \in {r, looping}
        /\ \E place \in {"between", "dropped"} : Goes(r, To(r, place))
    BY <1>0, <1>8 DEF LoopStarts, AtPlace, Bodies
  <2> QED BY <1>0, <2>1, GoneStep DEF StartPlaces, Running
<1>9. ASSUME NEW r \in Bodies, NEW spent \in BOOLEAN, CycleBegins(r, spent)
      PROVE  TargetInv'
  <2> DEFINE verdict == HarnessVerdict(starts[r], looping # r, spent)
  <2>1. /\ r \in 1 .. Len(starts) /\ starts[r].at = "between"
        /\ UNCHANGED <<tabs, front, owner, browsed>> /\ looping' \in {None, looping}
    BY <1>0, <1>9 DEF CycleBegins, AtPlace, Bodies
  <2>2. CASE verdict # "CONTINUE"
    <3>1. \E place \in {"stopped", "failed"} : Goes(r, To(r, place))
      BY <1>9, <2>2 DEF CycleBegins
    <3> QED BY <1>0, <2>1, <3>1, GoneStep DEF StartPlaces
  <2>3. CASE verdict = "CONTINUE"
    <3> DEFINE b == To(r, "reading")
    <3>1. starts' = [starts EXCEPT ![r] = b]
      BY <1>9, <2>3 DEF CycleBegins, Goes
    <3>2. /\ b \in StartBody /\ b.at = "reading" /\ b.task = starts[r].task /\ b.tab = starts[r].tab
          /\ b.opened = starts[r].opened /\ b.home = starts[r].home
          /\ b.seen = starts[r].seen /\ b.read = starts[r].read
      <4>1. "reading" \in StartPlaces
        BY DEF StartPlaces
      <4> QED BY <2>1, <4>1, TabGone
    <3> HIDE DEF b
    <3>3. /\ starts[r].home \in Page /\ Scope(starts[r].home) # None
          /\ starts[r].seen = IF starts[r].read = <<>> THEN starts[r].home
                              ELSE starts[r].read[Len(starts[r].read)]
      BY <1>1, <2>1 DEF Holds, Found, Running
    <3>4. starts[r].seen \in Page
      <4>1. starts[r].read \in Seq(Page)
        BY <1>1, <2>1 DEF StartBody
      <4> QED BY <3>3, <4>1
    <3>5. ~Strange(starts[r].seen, starts[r].home)
      <4>1. WithinScope(starts[r].seen, starts[r].home)
        BY <2>3 DEF HarnessVerdict
      <4> QED BY <3>3, <3>4, <4>1, WithinIsKnown
    <3>6. Holds(b, Len(tabs'))
      <4>1. Holds(starts[r], Len(tabs))
        BY <1>1, <2>1
      <4>2. Found(b, Len(tabs'))
        BY <2>1, <3>2, <4>1 DEF Holds, Found, Looking, Running
      <4>3. Suited(b)
        BY <3>2, <4>1 DEF Holds, Suited
      <4>4. Known(b)
        BY <3>2, <3>4, <3>5, <4>1 DEF Holds, Known
      <4> QED BY <4>2, <4>3, <4>4 DEF Holds
    <3>7. /\ tabs' \in Seq(Page) /\ Len(tabs) <= Len(tabs') /\ front' \in Nat
          /\ owner' = owner /\ looping' \in Nat \cup {None} /\ browsed' = browsed
      BY <1>0, <2>1
    <3> QED BY <2>1, <3>7, <3>1, <3>2, <3>6, BodyStep
  <2> QED BY <2>2, <2>3
<1>10. ASSUME NEW r \in Bodies, NEW ends \in BOOLEAN, CycleReads(r, ends)
       PROVE  TargetInv'
  <2>1. /\ r \in 1 .. Len(starts) /\ starts[r].at = "reading"
        /\ UNCHANGED <<tabs, front, owner, browsed>> /\ looping' \in {None, looping}
    BY <1>0, <1>10 DEF CycleReads, AtPlace, Bodies
  <2>2. CASE looping # r
    BY <1>0, <1>10, <2>1, <2>2, GoneStep DEF CycleReads, StartPlaces
  <2>3. CASE looping = r
    <3> DEFINE place == IF ends THEN "ended" ELSE "between"
               page == tabs[starts[r].tab]
               t == To(r, place)
               more == Append(t.read, page)
               b == [t EXCEPT !.seen = page, !.read = more]
    <3>1. starts' = [starts EXCEPT ![r] = b]
      BY <1>10, <2>3 DEF CycleReads, Goes
    <3>2. /\ t \in StartBody /\ t.at = place /\ t.task = starts[r].task /\ t.tab = starts[r].tab
          /\ t.opened = starts[r].opened /\ t.home = starts[r].home /\ t.read = starts[r].read
      <4>1. place \in StartPlaces
        BY DEF StartPlaces
      <4> HIDE DEF place
      <4> QED BY <2>1, <4>1, TabGone
    <3>a. Holds(starts[r], Len(tabs)) /\ starts[r] \in StartBody
      BY <1>1, <2>1
    <3>3. /\ starts[r].home \in Page /\ Scope(starts[r].home) # None
          /\ starts[r].tab \in 1 .. Len(tabs)
          /\ starts[r].seen = IF starts[r].read = <<>> THEN starts[r].home
                              ELSE starts[r].read[Len(starts[r].read)]
          /\ ~Strange(starts[r].seen, starts[r].home)
          /\ starts[r].read \in Seq(Page)
      BY <2>1, <3>a DEF Holds, Found, Known, Running, StartBody
    <3>4. page \in Page
      BY <1>0, <3>3
    <3> HIDE DEF page, t, place
    <3>b. /\ more \in Seq(Page) /\ more # <<>> /\ more[Len(more)] = page
          /\ Len(more) = Len(starts[r].read) + 1
          /\ \A k \in 1 .. Len(starts[r].read) : more[k] = starts[r].read[k]
      <4> DEFINE rd == starts[r].read
      <4>1. rd \in Seq(Page) /\ more = Append(rd, page)
        BY <3>2, <3>3
      <4> HIDE DEF rd, more
      <4>2. /\ more \in Seq(Page) /\ more # <<>> /\ more[Len(more)] = page
            /\ Len(more) = Len(rd) + 1 /\ \A k \in 1 .. Len(rd) : more[k] = rd[k]
        BY <3>4, <4>1
      <4> QED BY <4>2 DEF rd
    <3> HIDE DEF more
    <3>5. /\ b \in StartBody /\ b.at = place /\ b.task = starts[r].task /\ b.tab = starts[r].tab
          /\ b.opened = starts[r].opened /\ b.home = starts[r].home /\ b.seen = page
          /\ b.read = more
      BY <3>2, <3>4, <3>b DEF StartBody
    <3> HIDE DEF b
    <3>6. /\ b.read # <<>> /\ b.read[Len(b.read)] = page
          /\ Len(b.read) = Len(starts[r].read) + 1
          /\ \A k \in 1 .. Len(starts[r].read) : b.read[k] = starts[r].read[k]
      BY <3>5, <3>b
    <3>7. Found(b, Len(tabs'))
      BY <2>1, <3>3, <3>5, <3>6, <3>a DEF Holds, Found, Looking, Running, place
    <3>8. Suited(b)
      BY <3>5, <3>a DEF Holds, Suited
    <3>9. Known(b)
      <4>1. \A k \in 1 .. Len(starts[r].read) : ~Strange(starts[r].read[k], starts[r].home)
        <5>1. Len(starts[r].read) \in Nat
          BY <3>3
        <5>2. \A k \in 1 .. Len(starts[r].read) - 1 : ~Strange(starts[r].read[k], starts[r].home)
          BY <3>a DEF Holds, Known
        <5>3. Len(starts[r].read) # 0 => ~Strange(starts[r].read[Len(starts[r].read)], starts[r].home)
          BY <3>3
        <5> QED BY <5>1, <5>2, <5>3
      <4>2. Len(b.read) - 1 = Len(starts[r].read)
        BY <3>3, <3>6
      <4>3. starts[r].task \in Errands
        BY <2>1, <3>a DEF Holds, Found, Running
      <4> QED BY <3>5, <3>6, <4>1, <4>2, <4>3 DEF Known, place
    <3>10. Holds(b, Len(tabs'))
      BY <3>7, <3>8, <3>9 DEF Holds
    <3>11. /\ tabs' \in Seq(Page) /\ Len(tabs) <= Len(tabs') /\ front' \in Nat
          /\ owner' = owner /\ looping' \in Nat \cup {None} /\ browsed' = browsed
      BY <1>0, <2>1
    <3> QED BY <2>1, <3>11, <3>1, <3>5, <3>10, BodyStep
  <2> QED BY <2>2, <2>3
<1>11. ASSUME NEW tab \in DOMAIN tabs, NEW page \in Browsed, PageChanges(tab, page)
       PROVE  TargetInv'
  <2>1. /\ tabs' = [tabs EXCEPT ![tab] = page] /\ browsed' = browsed + 1
        /\ UNCHANGED <<front, owner, starts, looping>>
    BY <1>11 DEF PageChanges
  <2>2. tabs' \in Seq(Page) /\ Len(tabs') = Len(tabs)
    BY <1>0, <2>1
  <2> QED BY <1>0, <1>1, <2>1, <2>2 DEF TargetInv, TargetTypeOK
<1>12. ASSUME NEW tab \in DOMAIN tabs, UserPicks(tab)
       PROVE  TargetInv'
  BY <1>0, <1>1, <1>12 DEF UserPicks, TargetInv, TargetTypeOK
<1>13. CASE UNCHANGED targetVars
  BY <1>0, <1>1, <1>13 DEF targetVars, TargetInv, TargetTypeOK
<1> QED
  BY <1>2, <1>3, <1>4, <1>5, <1>6, <1>7, <1>8, <1>9, <1>10, <1>11, <1>12, <1>13 DEF TargetNext

-----------------------------------------------------------------------------
LEMMA TargetInvariant == TargetSpec => []TargetInv
BY TargetStarts, TargetStep, PTL DEF TargetSpec

\* Every variable keeps its kind, for any window and any messages.
THEOREM TargetTypeCorrect == TargetSpec => []TargetTypeOK
<1>1. TargetInv => TargetTypeOK
  BY DEF TargetInv
<1> QED BY <1>1, TargetInvariant, PTL

\* A task that names a site is never started on a page that has nothing to do
\* with what it names, whatever tabs there are and however they were found.
THEOREM NoHijack == TargetSpec => []NeverHijacks
<1>1. TargetInv => NeverHijacks
  <2> SUFFICES ASSUME TargetInv, NEW r \in Bodies,
                      starts[r].home # None, ~starts[r].opened, Mention(starts[r].task) # None
               PROVE  ~Unrelated(starts[r].home, starts[r].task)
    BY DEF NeverHijacks
  <2>1. starts[r] \in StartBody /\ Suited(starts[r]) /\ Known(starts[r])
    BY DEF TargetInv, TargetTypeOK, Holds, Bodies
  <2>2. starts[r].home \in Page /\ starts[r].task \in Errands
    BY <2>1 DEF StartBody, Known
  <2> QED BY <2>1, <2>2, SuitingIsRelated DEF Suited
<1> QED BY <1>1, TargetInvariant, PTL

\* A run that is led away from its site reads at most one page there.
THEOREM OneStrange == TargetSpec => []OneStrangePage
<1>1. TargetInv => OneStrangePage
  BY DEF TargetInv, TargetTypeOK, Holds, Known, OneStrangePage, Bodies
<1> QED BY <1>1, TargetInvariant, PTL

\* Tabs are opened and brought to the front for the latest message alone.
THEOREM TouchedAsLatest == TargetSpec => TouchesAsLatest
<1>1. TargetInv /\ [TargetNext]_targetVars => [\A r \in Bodies : Moves(r) => r = Len(starts) /\ owner = r]_targetVars
  <2> SUFFICES ASSUME TargetInv, [TargetNext]_targetVars, NEW r \in 1 .. Len(starts), Moves(r)
               PROVE  r = Len(starts) /\ owner = r
    BY DEF Bodies, TargetInv, TargetTypeOK
  <2>0. /\ starts \in Seq(StartBody) /\ Len(starts) \in Nat /\ Len(starts) <= owner /\ owner \in Nat
        /\ DOMAIN starts = 1 .. Len(starts)
    BY DEF TargetInv, TargetTypeOK
  <2>2. ASSUME NEW q \in 1 .. Len(starts), NEW b, Goes(q, b),
               b.at \notin {"activating", "loading"} \/ b.at = starts[q].at \/ owner = q
        PROVE  owner = r
    <3>1. starts' = [starts EXCEPT ![q] = b]
      BY <2>2 DEF Goes
    <3>2. CASE q = r
      <4>1. starts'[r] = b
        BY <2>0, <3>1, <3>2
      <4> QED BY <2>2, <3>2, <4>1 DEF Moves
    <3>3. CASE q # r
      <4>1. starts'[r] = starts[r]
        BY <2>0, <3>1, <3>3
      <4> QED BY <4>1 DEF Moves
    <3> QED BY <3>2, <3>3
  <2>3. ASSUME NEW q \in 1 .. Len(starts), NEW place \in StartPlaces \ {"activating", "loading"},
               Goes(q, To(q, place))
        PROVE  owner = r
    <3>1. To(q, place).at = place
      BY <2>3, TabGone
    <3> QED BY <2>2, <2>3, <3>1
  <2>4. ASSUME NEW q \in 1 .. Len(starts), NEW tab, NEW home, Chosen(q, tab, home), Latest(q)
        PROVE  owner = r
    BY <2>2, <2>3, <2>4 DEF Chosen, Latest, StartPlaces
  <2>5. CASE UNCHANGED starts
    BY <2>5 DEF Moves
  <2>6. ASSUME NEW task \in Errands, NEW settled \in BOOLEAN, MessageComes(task, settled)
        PROVE  owner = r
    <3>1. PICK b \in {Fresh(task), [Fresh(None) EXCEPT !.at = "refused"]} : starts' = Append(starts, b)
      BY <2>6 DEF MessageComes
    <3>2. starts'[r] = starts[r]
      BY <2>0, <3>1
    <3> QED BY <3>2 DEF Moves
  <2>7. ASSUME NEW q \in Bodies, TabsListed(q)
        PROVE  owner = r
    <3> DEFINE t == To(q, "listed")
               b == [t EXCEPT !.list = tabs, !.infront = front]
    <3>1. q \in 1 .. Len(starts) /\ Goes(q, b)
      BY <2>0, <2>7 DEF TabsListed, Bodies
    <3>2. t \in StartBody /\ t.at = "listed"
      <4>1. "listed" \in StartPlaces
        BY DEF StartPlaces
      <4> QED BY <3>1, <4>1, TabGone
    <3> HIDE DEF t
    <3>3. b.at = "listed"
      BY <3>2 DEF StartBody
    <3> HIDE DEF b
    <3> QED BY <2>2, <3>1, <3>3
  <2>8. ASSUME NEW q \in Bodies, Decides(q)
        PROVE  owner = r
    <3>1. q \in 1 .. Len(starts)
      BY <2>0, <2>8 DEF Bodies
    <3>2. \/ \E place \in {"dropped", "failed"} : Goes(q, To(q, place))
          \/ Latest(q) /\ \E b : Goes(q, b)
          \/ Latest(q) /\ \E tab, home : Chosen(q, tab, home)
      BY <2>8 DEF Decides
    <3> QED BY <2>2, <2>3, <2>4, <3>1, <3>2 DEF StartPlaces, Latest
  <2>9. ASSUME NEW q \in Bodies, NEW ready \in BOOLEAN, Provisioned(q, ready)
        PROVE  owner = r
    <3>1. q \in 1 .. Len(starts)
      BY <2>0, <2>9 DEF Bodies
    <3>2. \/ \E place \in {"dropped", "failed"} : Goes(q, To(q, place))
          \/ Latest(q) /\ Chosen(q, starts[q].tab, starts[q].home)
      BY <2>9 DEF Provisioned
    <3> QED BY <2>3, <2>4, <3>1, <3>2 DEF StartPlaces
  <2>10. ASSUME NEW q \in Bodies,
                \/ \E yes \in BOOLEAN : Acknowledges(q, yes) \/ CycleBegins(q, yes)
                \/ LoopStarts(q)
         PROVE  owner = r
    <3>1. q \in 1 .. Len(starts)
      BY <2>0, <2>10 DEF Bodies
    <3>2. \E place \in {"told", "failed", "between", "dropped", "reading", "stopped"} : Goes(q, To(q, place))
      BY <2>10 DEF Acknowledges, CycleBegins, LoopStarts
    <3> QED BY <2>3, <3>1, <3>2 DEF StartPlaces
  <2>11. ASSUME NEW q \in Bodies, NEW ends \in BOOLEAN, CycleReads(q, ends)
         PROVE  owner = r
    <3>1. q \in 1 .. Len(starts)
      BY <2>0, <2>11 DEF Bodies
    <3>2. CASE looping # q
      BY <2>3, <2>11, <3>1, <3>2 DEF CycleReads, StartPlaces
    <3>3. CASE looping = q
      <4> DEFINE place == IF ends THEN "ended" ELSE "between"
                 t == To(q, place)
                 page == tabs[starts[q].tab]
                 more == Append(t.read, page)
                 b == [t EXCEPT !.seen = page, !.read = more]
      <4>1. Goes(q, b)
        BY <2>11, <3>3 DEF CycleReads
      <4>2. t \in StartBody /\ t.at = place
        <5>1. place \in StartPlaces
          BY DEF StartPlaces
        <5> HIDE DEF place
        <5> QED BY <3>1, <5>1, TabGone
      <4> HIDE DEF t, page, more
      <4>3. b.at = place
        BY <4>2 DEF StartBody
      <4> HIDE DEF b
      <4> QED BY <2>2, <3>1, <4>1, <4>3
    <3> QED BY <3>2, <3>3
  <2>12. CASE UNCHANGED targetVars
    BY <2>5, <2>12 DEF targetVars
  <2>13. CASE \/ StopComes
              \/ \E tab \in DOMAIN tabs, page \in Browsed : PageChanges(tab, page)
              \/ \E tab \in DOMAIN tabs : UserPicks(tab)
    BY <2>5, <2>13 DEF StopComes, PageChanges, UserPicks
  <2>14. owner = r
    BY <2>6, <2>7, <2>8, <2>9, <2>10, <2>11, <2>12, <2>13 DEF TargetNext
  <2>15. ASSUME NEW n \in Nat, n <= owner, owner \in Nat, r \in 1 .. n
         PROVE  r = n
    BY <2>14, <2>15
  <2> QED BY <2>0, <2>14, <2>15
<1> QED BY <1>1, TargetInvariant, PTL DEF TargetSpec, TouchesAsLatest

-----------------------------------------------------------------------------
(* The conversation (Conversation).                                        *)

\* A run's record.
Run(l) ==
    /\ DOMAIN l = {"task", "ctx", "at", "index", "told", "readings"}
    /\ l = [field \in DOMAIN l |-> l[field]]

\* What a conversation is about: nothing yet, or one thing.
Picked(s) == s = None \/ DOMAIN s = {"identity", "thing", "ordinal", "state"}

\* A conversation.
Talk(ctx) ==
    /\ DOMAIN ctx = {"id", "candidates", "everSaw", "selection", "turns", "clarification"}
    /\ ctx = [field \in DOMAIN ctx |-> ctx[field]]
    /\ Picked(ctx.selection)

\* The runs are numbered in the order of the messages, none is ahead of the
\* worker, and the one that owns the task agrees with it.
TalkInv ==
    /\ cActive \in 0 .. MaxMessages
    /\ cLoops = [r \in 1 .. MaxMessages |-> cLoops[r]]
    /\ \A r \in 1 .. MaxMessages : r > cActive => cLoops[r] = None
    /\ \A r \in 1 .. MaxMessages : cLoops[r] # None => Run(cLoops[r])
    /\ cCurrent # None => Talk(cCurrent)
    /\ \A r \in 1 .. MaxMessages : cLoops[r] # None => Talk(cLoops[r].ctx)
    /\ ConversationIsLatest

LEMMA TalkStarts == ConversationInit => TalkInv
BY ConversationAssumption DEF ConversationInit, TalkInv, ConversationIsLatest

LEMMA FreshTalk ==
  ASSUME NEW id
  PROVE  Talk(NewContext(id))
BY DEF Talk, Picked, NewContext

LEMMA PlannedTalk ==
  ASSUME cCurrent # None => Talk(cCurrent), NEW task, NEW old, NEW id
  PROVE  Talk(Plan(task, old, id))
BY FreshTalk DEF Plan

LEMMA OpenedTalk ==
  ASSUME NEW ctx, Talk(ctx)
  PROVE  Talk(OpenTurn(ctx))
BY DEF Talk, OpenTurn

LEMMA ClosedTalk ==
  ASSUME NEW ctx, Talk(ctx), NEW index
  PROVE  Talk(CloseTurn(ctx, index))
BY DEF Talk, CloseTurn

\* What a selection may become on a page with these candidates: the only one of
\* its name and kind, or what it was.
Alike(seen, t) == {j \in DOMAIN seen : /\ seen[j].identity.title = t.title
                                       /\ seen[j].identity.kind = t.kind}
Sure(s, t, seen) ==
    /\ DOMAIN t = {"identity", "thing", "ordinal", "state"}
    /\ \/ t.thing = s.thing
       \/ t.identity = s.identity
       \/ t.state = "UNCONFIRMED"
       \/ Cardinality(Alike(seen, t.identity)) = 1

LEMMA RevalidatedIsSure ==
  ASSUME NEW s, s # None, Picked(s), NEW seen, NEW page
  PROVE  Sure(s, Revalidated(s, seen, page), seen)
<1> DEFINE Same(c) == c.identity = s.identity
           first == SelectInSeq(seen, Same)
           i == CHOOSE j \in Alike(seen, s.identity) : TRUE
           t == Revalidated(s, seen, page)
           recorded == AgainstRecorded(s, seen, page)
<1>0. DOMAIN s = {"identity", "thing", "ordinal", "state"}
  BY DEF Picked
<1>1. CASE first # 0
  <2>1. t = Selected(s.identity, seen[first].thing, first, "REVALIDATED")
    BY <1>1, Zenon DEF Revalidated
  <2> HIDE DEF t, first
  <2>2. Sure(s, t, seen)
    BY <2>1 DEF Selected, Sure
  <2> QED BY <2>2 DEF t
<1>2. CASE first = 0
  <2>1. t = recorded
    BY <1>2, Zenon DEF Revalidated
  <2>2. \/ recorded = [s EXCEPT !.state = "UNCONFIRMED"]
        \/ /\ Cardinality(Alike(seen, s.identity)) = 1
           /\ recorded = Selected(seen[i].identity, seen[i].thing, i, "REVALIDATED")
        \/ recorded = [s EXCEPT !.identity.url = page.url, !.state = "REVALIDATED"]
        \/ \E at : recorded = [s EXCEPT !.state = at]
    BY Zenon DEF AgainstRecorded, Alike
  <2>a. Alike(seen, s.identity) # {} => i \in Alike(seen, s.identity)
    OBVIOUS
  <2> HIDE DEF t, recorded, i
  <2>3. ASSUME Cardinality(Alike(seen, s.identity)) = 1,
               recorded = Selected(seen[i].identity, seen[i].thing, i, "REVALIDATED")
        PROVE  Sure(s, t, seen)
    <3>1. i \in Alike(seen, s.identity)
      BY <2>3, <2>a, FS_EmptySet
    <3>2. t.identity = seen[i].identity /\ DOMAIN t = {"identity", "thing", "ordinal", "state"}
      BY <2>1, <2>3 DEF Selected
    <3>3. t.identity.title = s.identity.title /\ t.identity.kind = s.identity.kind
      BY <3>1, <3>2 DEF Alike
    <3>4. Alike(seen, t.identity) = Alike(seen, s.identity)
      BY <3>3 DEF Alike
    <3> QED BY <2>3, <3>2, <3>4 DEF Sure
  <2>4. ASSUME recorded = [s EXCEPT !.state = "UNCONFIRMED"]
        PROVE  Sure(s, t, seen)
    BY <1>0, <2>1, <2>4 DEF Sure
  <2>5. ASSUME recorded = [s EXCEPT !.identity.url = page.url, !.state = "REVALIDATED"]
        PROVE  Sure(s, t, seen)
    BY <1>0, <2>1, <2>5 DEF Sure
  <2>6. ASSUME NEW at, recorded = [s EXCEPT !.state = at]
        PROVE  Sure(s, t, seen)
    BY <1>0, <2>1, <2>6 DEF Sure
  <2>7. Sure(s, t, seen)
    BY <2>2, <2>3, <2>4, <2>5, <2>6
  <2> QED BY <2>7 DEF t
<1> QED BY <1>1, <1>2

LEMMA ObservedTalk ==
  ASSUME NEW ctx, Talk(ctx), NEW page
  PROVE  Talk(Observed(ctx, page))
<1> DEFINE seen == CandidatesOn(page)
           s == ctx.selection
           next == IF s = None THEN None ELSE Revalidated(s, seen, page)
           saw == ctx.everSaw \/ seen # <<>>
<1>1. Observed(ctx, page) = [ctx EXCEPT !.candidates = seen, !.everSaw = saw, !.selection = next]
  BY Zenon DEF Observed
<1>2. Picked(s)
  BY DEF Talk
<1>3. s # None => DOMAIN Revalidated(s, seen, page) = {"identity", "thing", "ordinal", "state"}
  BY <1>2, RevalidatedIsSure DEF Sure
<1>4. Picked(next)
  BY <1>3 DEF Picked
<1> HIDE DEF next, saw, seen
<1> QED BY <1>1, <1>4 DEF Talk

\* What a reference resolves to is one thing.
LEMMA ResolvedIsPicked ==
  ASSUME NEW ref, NEW ctx
  PROVE  Picked(Resolve(ref, ctx).to)
<1>1. /\ \A identity, thing, ordinal : Picked(Resolved(identity, thing, ordinal).to)
      /\ \A code : Picked(Unclear(code).to)
  BY DEF Picked, Resolved, Selected, Unclear
<1>2. Picked(NothingSeen(ctx).to)
  BY <1>1 DEF NothingSeen
<1> QED BY <1>1, <1>2, Zenon DEF Resolve

\* A step that changes one run, and publishes what it leaves of it.
LEMMA RunStep ==
  ASSUME TalkInv, NEW r \in 1 .. MaxMessages, NEW l, NEW ctx,
         cLoops[r] # None,
         cLoops' = [cLoops EXCEPT ![r] = l],
         l # None => Run(l) /\ l.ctx = ctx, Talk(ctx),
         Publish(r, ctx), cActive' = cActive
  PROVE  TalkInv'
<1>1. cLoops' = [q \in 1 .. MaxMessages |-> IF q = r THEN l ELSE cLoops[q]]
  BY DEF TalkInv
<1>2. r <= cActive
  BY ConversationAssumption DEF TalkInv
<1>3. /\ cActive' \in 0 .. MaxMessages
      /\ cLoops' = [q \in 1 .. MaxMessages |-> cLoops'[q]]
  BY <1>1 DEF TalkInv
<1>4. \A q \in 1 .. MaxMessages : q > cActive' => cLoops'[q] = None
  BY <1>1, <1>2, ConversationAssumption DEF TalkInv
<1>5. \A q \in 1 .. MaxMessages : cLoops'[q] # None => Run(cLoops'[q])
  BY <1>1 DEF TalkInv
<1>6. ConversationIsLatest'
  <2> SUFFICES ASSUME cActive # 0, cLoops'[cActive] # None
               PROVE  cCurrent' = cLoops'[cActive].ctx
    BY DEF ConversationIsLatest
  <2>1. cActive \in 1 .. MaxMessages
    BY ConversationAssumption DEF TalkInv
  <2>2. CASE r = cActive
    BY <1>1, <2>1, <2>2 DEF Publish
  <2>3. CASE r # cActive
    BY <1>1, <2>1, <2>3 DEF Publish, TalkInv, ConversationIsLatest
  <2> QED BY <2>2, <2>3
<1>7. cCurrent' # None => Talk(cCurrent')
  BY DEF Publish, TalkInv
<1>8. \A q \in 1 .. MaxMessages : cLoops'[q] # None => Talk(cLoops'[q].ctx)
  BY <1>1 DEF TalkInv
<1> QED BY <1>3, <1>4, <1>5, <1>6, <1>7, <1>8 DEF TalkInv

LEMMA TalkStep == TalkInv /\ [ConversationNext]_conversationVars => TalkInv'
<1> SUFFICES ASSUME TalkInv, [ConversationNext]_conversationVars
             PROVE  TalkInv'
  OBVIOUS
<1> USE ConversationAssumption
<1>1. ASSUME NEW task \in TurnTasks, NEW old \in BOOLEAN, MessageArrives(task, old)
      PROVE  TalkInv'
  <2> DEFINE planned == Plan(task, old, cActive')
             new == [task |-> task, ctx |-> planned, at |-> "waiting", index |-> 0,
                     told |-> None, readings |-> 0]
  <2> HIDE DEF planned
  <2>1. cActive' = cActive + 1 /\ cActive' \in 1 .. MaxMessages
    BY <1>1 DEF MessageArrives, TalkInv
  <2>2. cLoops[cActive'] = None
    BY <2>1 DEF TalkInv
  <2>3. CASE task.intent # "inspection" /\ Admits(task, old)
    <3>1. cCurrent' = planned /\ cLoops' = [cLoops EXCEPT ![cActive'] = new]
      BY <1>1, <2>3 DEF MessageArrives, planned
    <3>2. cLoops' = [q \in 1 .. MaxMessages |-> IF q = cActive + 1 THEN new ELSE cLoops[q]]
      BY <2>1, <3>1 DEF TalkInv
    <3>3. Run(new) /\ new.ctx = planned
      BY DEF Run
    <3> HIDE DEF new
    <3>4. \A q \in 1 .. MaxMessages : cLoops'[q] # None => Run(cLoops'[q])
      BY <3>2, <3>3 DEF TalkInv
    <3>5. \A q \in 1 .. MaxMessages : q > cActive' => cLoops'[q] = None
      BY <2>1, <3>2 DEF TalkInv
    <3>6. cLoops'[cActive'].ctx = cCurrent'
      BY <2>1, <3>1, <3>2, <3>3
    <3>7. Talk(planned)
      BY PlannedTalk DEF TalkInv, planned
    <3>8. cCurrent' # None => Talk(cCurrent')
      BY <3>1, <3>7
    <3>9. \A q \in 1 .. MaxMessages : cLoops'[q] # None => Talk(cLoops'[q].ctx)
      BY <3>2, <3>3, <3>7 DEF TalkInv
    <3> QED BY <2>1, <3>2, <3>4, <3>5, <3>6, <3>8, <3>9 DEF TalkInv, ConversationIsLatest
  <2>4. CASE ~(task.intent # "inspection" /\ Admits(task, old))
    <3>1. UNCHANGED <<cCurrent, cLoops>>
      BY <1>1, <2>4 DEF MessageArrives
    <3> QED BY <2>1, <2>2, <3>1 DEF TalkInv, ConversationIsLatest
  <2> QED BY <2>3, <2>4
<1>2. ASSUME NEW r \in DOMAIN cLoops, RunStarts(r)
      PROVE  TalkInv'
  <2>1. /\ r \in 1 .. MaxMessages /\ cLoops[r] # None /\ Run(cLoops[r])
        /\ Talk(cLoops[r].ctx) /\ cActive' = cActive
    BY <1>2 DEF TalkInv, RunStarts
  <2>2. CASE r # cActive
    <3>1. cLoops' = [cLoops EXCEPT ![r] = None] /\ Publish(r, cLoops[r].ctx)
      BY <1>2, <2>2 DEF RunStarts, Publish
    <3> QED BY <2>1, <3>1, RunStep
  <2>3. CASE r = cActive
    <3> DEFINE ctx == OpenTurn(cLoops[r].ctx)
               n == Len(cLoops[r].ctx.turns) + 1
               l == [cLoops[r] EXCEPT !.ctx = ctx, !.at = "reading", !.index = n]
    <3>1. cLoops' = [cLoops EXCEPT ![r].ctx = ctx, ![r].at = "reading", ![r].index = n] /\ Publish(r, ctx)
      BY <1>2, <2>3 DEF RunStarts
    <3>a. Talk(ctx)
      BY <2>1, OpenedTalk
    <3> HIDE DEF ctx, n
    <3>2. cLoops' = [cLoops EXCEPT ![r] = l]
      BY <2>1, <3>1 DEF TalkInv
    <3>3. Run(l) /\ l.ctx = ctx
      BY <2>1 DEF Run
    <3> HIDE DEF l
    <3> QED BY <2>1, <3>a, <3>1, <3>2, <3>3, RunStep
  <2> QED BY <2>2, <2>3
<1>3. ASSUME NEW r \in DOMAIN cLoops, NEW page \in SeenPages, Reads(r, page)
      PROVE  TalkInv'
  <2> DEFINE ctx == Observed(cLoops[r].ctx, page)
             l == [cLoops[r] EXCEPT !.ctx = ctx, !.at = "resolving", !.told = None,
                                    !.readings = cLoops[r].readings + 1]
  <2>1. /\ r \in 1 .. MaxMessages /\ cLoops[r] # None /\ Run(cLoops[r])
        /\ cActive' = cActive /\ Publish(r, ctx)
    BY <1>3 DEF TalkInv, Reads
  <2>2. cLoops' = [cLoops EXCEPT ![r].ctx = ctx, ![r].at = "resolving", ![r].told = None,
                                 ![r].readings = @ + 1]
    BY <1>3 DEF Reads
  <2>a. Talk(ctx)
    BY <2>1, ObservedTalk DEF TalkInv
  <2> HIDE DEF ctx
  <2>3. cLoops' = [cLoops EXCEPT ![r] = l]
    BY <2>1, <2>2 DEF TalkInv
  <2>4. Run(l) /\ l.ctx = ctx
    BY <2>1 DEF Run
  <2> HIDE DEF l
  <2> QED BY <2>1, <2>a, <2>3, <2>4, RunStep
<1>4. ASSUME NEW r \in DOMAIN cLoops, Resolves(r)
      PROVE  TalkInv'
  <2> DEFINE ref == Reference(cLoops[r].task)
             result == Resolve(ref, cLoops[r].ctx)
             ctx == IF result.to # None THEN [cLoops[r].ctx EXCEPT !.selection = result.to]
                    ELSE [cLoops[r].ctx EXCEPT !.clarification = result.code]
             closed == CloseTurn(ctx, cLoops[r].index)
             asking(c) == [cLoops[r] EXCEPT !.ctx = c, !.at = "asking"]
  <2>1. /\ r \in 1 .. MaxMessages /\ cLoops[r] # None /\ Run(cLoops[r])
        /\ Talk(cLoops[r].ctx) /\ cActive' = cActive
    BY <1>4 DEF TalkInv, Resolves
  <2>2. \/ cLoops' = [cLoops EXCEPT ![r].at = "asking"] /\ Publish(r, cLoops[r].ctx)
        \/ cLoops' = [cLoops EXCEPT ![r].ctx = ctx, ![r].at = "asking"] /\ Publish(r, ctx)
        \/ cLoops' = [cLoops EXCEPT ![r] = None] /\ Publish(r, closed)
    BY <1>4 DEF Resolves
  <2>a. Talk(ctx)
    <3>1. Picked(result.to)
      BY ResolvedIsPicked
    <3> HIDE DEF result
    <3> QED BY <2>1, <3>1 DEF Talk
  <2>b. Talk(closed)
    BY <2>a, ClosedTalk
  <2> HIDE DEF ctx, closed
  <2>3. CASE cLoops' = [cLoops EXCEPT ![r].at = "asking"] /\ Publish(r, cLoops[r].ctx)
    <3>1. cLoops' = [cLoops EXCEPT ![r] = asking(cLoops[r].ctx)]
      BY <2>1, <2>3 DEF TalkInv, Run
    <3>2. Run(asking(cLoops[r].ctx)) /\ asking(cLoops[r].ctx).ctx = cLoops[r].ctx
      BY <2>1 DEF Run
    <3> HIDE DEF asking
    <3> QED BY <2>1, <2>3, <3>1, <3>2, RunStep
  <2>4. CASE cLoops' = [cLoops EXCEPT ![r].ctx = ctx, ![r].at = "asking"] /\ Publish(r, ctx)
    <3>1. cLoops' = [cLoops EXCEPT ![r] = asking(ctx)]
      BY <2>1, <2>4 DEF TalkInv
    <3>2. Run(asking(ctx)) /\ asking(ctx).ctx = ctx
      BY <2>1 DEF Run
    <3> HIDE DEF asking
    <3> QED BY <2>1, <2>a, <2>4, <3>1, <3>2, RunStep
  <2>5. CASE cLoops' = [cLoops EXCEPT ![r] = None] /\ Publish(r, closed)
    BY <2>1, <2>b, <2>5, RunStep
  <2> QED BY <2>2, <2>3, <2>4, <2>5
<1>5. ASSUME NEW r \in DOMAIN cLoops, Asks(r)
      PROVE  TalkInv'
  <2> DEFINE t == TaskLine(cLoops[r].ctx)
             l == [cLoops[r] EXCEPT !.told = t, !.at = "reading"]
  <2>1. /\ r \in 1 .. MaxMessages /\ cLoops[r] # None /\ Run(cLoops[r])
        /\ cActive' = cActive /\ cCurrent' = cCurrent
        /\ cLoops' = [cLoops EXCEPT ![r].told = t, ![r].at = "reading"]
    BY <1>5 DEF TalkInv, Asks
  <2> HIDE DEF t
  <2>2. cLoops' = [cLoops EXCEPT ![r] = l]
    BY <2>1 DEF TalkInv
  <2>3. Run(l) /\ l.ctx = cLoops[r].ctx
    BY <2>1 DEF Run
  <2>4. Publish(r, cLoops[r].ctx)
    BY <2>1 DEF Publish, TalkInv, ConversationIsLatest
  <2>5. Talk(cLoops[r].ctx)
    BY <2>1 DEF TalkInv
  <2> HIDE DEF l
  <2> QED BY <2>1, <2>2, <2>3, <2>4, <2>5, RunStep
<1>6. ASSUME NEW r \in DOMAIN cLoops, RunEnds(r)
      PROVE  TalkInv'
  <2>1. /\ r \in 1 .. MaxMessages /\ cLoops[r] # None
        /\ cActive' = cActive
        /\ cLoops' = [cLoops EXCEPT ![r] = None]
        /\ Publish(r, CloseTurn(cLoops[r].ctx, cLoops[r].index))
    BY <1>6 DEF TalkInv, RunEnds, Closes
  <2>2. Talk(CloseTurn(cLoops[r].ctx, cLoops[r].index))
    BY <2>1, ClosedTalk DEF TalkInv
  <2> QED BY <2>1, <2>2, RunStep
<1>7. CASE WorkerRestarts
  BY <1>7 DEF WorkerRestarts, TalkInv, ConversationIsLatest
<1>8. CASE UNCHANGED conversationVars
  BY <1>8 DEF conversationVars, TalkInv, ConversationIsLatest
<1> QED BY <1>1, <1>2, <1>3, <1>4, <1>5, <1>6, <1>7, <1>8 DEF ConversationNext

\* Whatever the messages and the pages, and however late a superseded run gets
\* to its next checkpoint, the worker never holds another conversation than the
\* one of the run that owns the task.
THEOREM ConversationLatest == ConversationSpec => []ConversationIsLatest
<1>1. TalkInv => ConversationIsLatest
  BY DEF TalkInv
<1> QED BY TalkStarts, TalkStep, <1>1, PTL DEF ConversationSpec

\* What NeverGuessed says of one run.
Guesses(r) ==
    LET old == cLoops[r].ctx.selection
        new == cLoops'[r].ctx.selection
    IN  /\ new.state = "REVALIDATED" /\ new.thing # old.thing /\ new.identity # old.identity
        /\ Cardinality(Alike(cLoops'[r].ctx.candidates, new.identity)) # 1
Reading(r) ==
    /\ cLoops[r] # None /\ cLoops[r].at = "reading" /\ cLoops[r].ctx.selection # None
    /\ cLoops'[r] # None /\ cLoops'[r].at = "resolving"

\* Only a reading of the page takes a run from reading to resolving.
LEMMA OnlyReads ==
  ASSUME TalkInv, [ConversationNext]_conversationVars, NEW r \in DOMAIN cLoops, Reading(r)
  PROVE  \E page \in SeenPages : Reads(r, page)
<1>0. r \in 1 .. MaxMessages /\ Run(cLoops[r]) /\ cLoops[r].at = "reading" /\ cLoops'[r].at = "resolving"
  BY DEF TalkInv, Reading
<1>1. ASSUME NEW task \in TurnTasks, NEW old \in BOOLEAN, MessageArrives(task, old)
      PROVE  FALSE
  <2>1. \/ cLoops' = cLoops
        \/ \E l : l.at = "waiting" /\ cLoops' = [cLoops EXCEPT ![cActive'] = l]
    BY <1>1, Zenon DEF MessageArrives
  <2> QED BY <1>0, <2>1
<1>2. ASSUME NEW q \in DOMAIN cLoops, RunStarts(q) \/ Resolves(q) \/ Asks(q) \/ RunEnds(q)
      PROVE  FALSE
  <2>0. q \in 1 .. MaxMessages /\ cLoops[q] # None /\ Run(cLoops[q])
    BY <1>2 DEF RunStarts, Resolves, Asks, RunEnds, TalkInv
  <2>1. CASE q = r
    <3>1. CASE RunStarts(q)
      BY <1>0, <2>1, <3>1 DEF RunStarts
    <3>2. CASE Resolves(q)
      BY <1>0, <2>1, <3>2 DEF Resolves
    <3>3. CASE Asks(q)
      BY <1>0, <2>1, <3>3 DEF Asks
    <3>4. CASE RunEnds(q)
      BY <2>0, <2>1, <3>4 DEF RunEnds, Closes, Reading
    <3> QED BY <1>2, <3>1, <3>2, <3>3, <3>4
  <2>2. CASE q # r
    <3>1. cLoops'[r] = cLoops[r]
      <4>1. CASE RunStarts(q)
        BY <1>0, <2>2, <4>1 DEF RunStarts, TalkInv
      <4>2. CASE Resolves(q)
        BY <1>0, <2>2, <4>2 DEF Resolves, TalkInv
      <4>3. CASE Asks(q)
        BY <1>0, <2>2, <4>3 DEF Asks, TalkInv
      <4>4. CASE RunEnds(q)
        BY <1>0, <2>2, <4>4 DEF RunEnds, Closes, TalkInv
      <4> QED BY <1>2, <4>1, <4>2, <4>3, <4>4
    <3> QED BY <1>0, <3>1
  <2> QED BY <2>1, <2>2
<1>3. ASSUME NEW q \in DOMAIN cLoops, NEW page \in SeenPages, Reads(q, page)
      PROVE  Reads(r, page)
  <2>1. q # r => cLoops'[r] = cLoops[r]
    BY <1>0, <1>3 DEF Reads, TalkInv
  <2> QED BY <1>0, <1>3, <2>1
<1>4. CASE WorkerRestarts
  BY <1>4 DEF WorkerRestarts, Reading
<1>5. CASE UNCHANGED conversationVars
  BY <1>0, <1>5 DEF conversationVars
<1> QED BY <1>1, <1>2, <1>3, <1>4, <1>5 DEF ConversationNext

LEMMA NoStepGuesses ==
  ASSUME TalkInv, [ConversationNext]_conversationVars, NEW r \in DOMAIN cLoops, Reading(r)
  PROVE  ~Guesses(r)
<1>1. PICK page \in SeenPages : Reads(r, page)
  BY OnlyReads
<1> DEFINE seen == CandidatesOn(page)
           s == cLoops[r].ctx.selection
           t == Revalidated(s, seen, page)
           ctx == Observed(cLoops[r].ctx, page)
<1>2. /\ r \in 1 .. MaxMessages /\ Run(cLoops[r]) /\ Talk(cLoops[r].ctx)
      /\ cLoops[r] # None /\ s # None /\ Picked(s)
  BY DEF TalkInv, Reading, Talk
<1>3. cLoops'[r].ctx = ctx
  <2>1. cLoops' = [cLoops EXCEPT ![r].ctx = ctx, ![r].at = "resolving", ![r].told = None,
                                 ![r].readings = @ + 1]
    BY <1>1, Zenon DEF Reads
  <2> HIDE DEF ctx
  <2> QED BY <1>2, <2>1 DEF Run, TalkInv
<1>4. ctx.selection = t /\ ctx.candidates = seen
  <2>1. ctx = [cLoops[r].ctx EXCEPT !.candidates = seen, !.everSaw = @ \/ seen # <<>>,
                                    !.selection = IF @ = None THEN None ELSE t]
    BY Zenon DEF Observed
  <2> HIDE DEF seen, t, ctx
  <2> QED BY <1>2, <2>1 DEF Talk
<1>5. Sure(s, t, seen)
  BY <1>2, RevalidatedIsSure
<1> HIDE DEF t, ctx, seen
<1> QED BY <1>3, <1>4, <1>5 DEF Guesses, Sure

\* Whatever the pages, the messages and the bounds, a selection is passed on to
\* another item only where that one alone bears its name and kind: the program
\* asks rather than guesses (revalidateSelection).
THEOREM GuessesNothing == ConversationSpec => NeverGuessed
<1>1. TalkInv /\ [ConversationNext]_conversationVars =>
         \A r \in DOMAIN cLoops : Reading(r) => ~Guesses(r)
  BY NoStepGuesses
<1> DEFINE Fair(r) == Reading(r) => ~Guesses(r)
<1>2. (\A r \in DOMAIN cLoops : Fair(r)) =>
          \A r \in DOMAIN cLoops :
          /\ cLoops[r] # None /\ cLoops[r].at = "reading" /\ cLoops[r].ctx.selection # None
          /\ cLoops'[r] # None /\ cLoops'[r].at = "resolving"
          => LET old == cLoops[r].ctx.selection
                 new == cLoops'[r].ctx.selection
                 seen == cLoops'[r].ctx.candidates
                 Namesakes == {i \in DOMAIN seen : /\ seen[i].identity.title = new.identity.title
                                                   /\ seen[i].identity.kind = new.identity.kind}
             IN new.state = "REVALIDATED" /\ new.thing # old.thing /\ new.identity # old.identity
                   => Cardinality(Namesakes) = 1
  BY Zenon DEF Guesses, Reading, Alike
<1> QED BY TalkStarts, TalkStep, <1>1, <1>2, PTL DEF ConversationSpec, NeverGuessed

-----------------------------------------------------------------------------
(* The page (PagePerception).                                              *)

\* Of the members of a set those whose key is smallest.
Lowest(S, key) == {x \in S : \A y \in S : key[x] <= key[y]}

LEMMA LowestThere ==
  ASSUME NEW S, S # {}, NEW key, \A x \in S : key[x] \in Nat
  PROVE  Lowest(S, key) # {} /\ Lowest(S, key) \subseteq S
<1> DEFINE T == {key[x] : x \in S}
<1>1. T \subseteq Nat /\ T # {}
  OBVIOUS
<1>2. PICK n \in T : \A m \in T : n <= m
  <2> HIDE DEF T
  <2> QED BY <1>1, Smallest
<1>3. PICK x \in S : key[x] = n
  OBVIOUS
<1>4. x \in Lowest(S, key)
  BY <1>2, <1>3 DEF Lowest
<1> QED BY <1>4 DEF Lowest

LEMMA Ranks ==
  ASSUME NEW category
  PROVE  Rank(category) \in 0 .. 4
BY DEF Rank, Policy, UnknownRank

\* Of the members of a set of numbers the one with the smallest keys, the first
\* of them that differs deciding, and of two alike the smaller one.
Ahead(i, j, a, b, c, d) ==
    /\ a[i] <= a[j]
    /\ a[i] = a[j] => b[i] <= b[j]
    /\ a[i] = a[j] /\ b[i] = b[j] => c[i] <= c[j]
    /\ a[i] = a[j] /\ b[i] = b[j] /\ c[i] = c[j] => d[i] <= d[j]
    /\ a[i] = a[j] /\ b[i] = b[j] /\ c[i] = c[j] /\ d[i] = d[j] => i <= j

LEMMA OneIsAhead ==
  ASSUME NEW D, D \subseteq Nat, D # {}, NEW a, NEW b, NEW c, NEW d,
         \A i \in D : a[i] \in Nat /\ b[i] \in Nat /\ c[i] \in Nat /\ d[i] \in Nat
  PROVE  \E i \in D : \A j \in D : Ahead(i, j, a, b, c, d)
<1> DEFINE A == Lowest(D, a)
           B == Lowest(A, b)
           C == Lowest(B, c)
           E == Lowest(C, d)
<1>1. A # {} /\ A \subseteq D
  BY LowestThere
<1>2. B # {} /\ B \subseteq A
  <2> HIDE DEF A
  <2> QED BY <1>1, LowestThere
<1>3. C # {} /\ C \subseteq B
  <2> HIDE DEF A, B
  <2> QED BY <1>1, <1>2, LowestThere
<1>4. E # {} /\ E \subseteq C
  <2> HIDE DEF A, B, C
  <2> QED BY <1>1, <1>2, <1>3, LowestThere
<1>5. PICK i \in E : \A j \in E : i <= j
  <2>1. E \subseteq Nat
    BY <1>1, <1>2, <1>3, <1>4
  <2> HIDE DEF E
  <2> QED BY <1>4, <2>1, Smallest
<1>6. i \in D /\ i \in A /\ i \in B /\ i \in C /\ i \in E
  BY <1>1, <1>2, <1>3, <1>4, <1>5
<1>7. ASSUME NEW j \in D
      PROVE  Ahead(i, j, a, b, c, d)
  <2>1. a[i] <= a[j] /\ (a[i] = a[j] => j \in A)
    BY <1>6 DEF Lowest
  <2>2. j \in A => b[i] <= b[j] /\ (b[i] = b[j] => j \in B)
    <3> HIDE DEF A
    <3> QED BY <1>6 DEF Lowest
  <2>3. j \in B => c[i] <= c[j] /\ (c[i] = c[j] => j \in C)
    <3> HIDE DEF A, B
    <3> QED BY <1>6 DEF Lowest
  <2>4. j \in C => d[i] <= d[j] /\ (d[i] = d[j] => j \in E)
    <3> HIDE DEF A, B, C
    <3> QED BY <1>6 DEF Lowest
  <2>5. j \in E => i <= j
    BY <1>5
  <2> HIDE DEF A, B, C, E
  <2> QED BY <2>1, <2>2, <2>3, <2>4, <2>5 DEF Ahead
<1> QED BY <1>6, <1>7

\* The strongest signal of a group is there, and no other is more severe.
LEMMA StrongestIsStrongest ==
  ASSUME NEW group, DOMAIN group \subseteq Nat, DOMAIN group # {},
         \A i \in DOMAIN group : IsCandidate(group[i])
  PROVE  \A i \in DOMAIN group : Rank(group[i].category) <= Rank(Strongest(group))
<1> DEFINE D == DOMAIN group
           rank(k) == Rank(group[k].category)
           mild == [k \in D |-> 4 - rank(k)]
           vague == [k \in D |-> 100 - group[k].sure]
           same == [k \in D |-> 0]
           Best(k) == \A j \in DOMAIN group : /\ ~Stronger(group[j], group[k])
                                              /\ j < k => Stronger(group[k], group[j])
<1>0. \A k \in D : rank(k) \in 0 .. 4 /\ group[k].sure \in 0 .. 100
  BY Ranks DEF IsCandidate
<1>1. \A k \in D : mild[k] \in Nat /\ vague[k] \in Nat /\ same[k] \in Nat
  BY <1>0
<1>2. PICK i \in D : \A j \in D : Ahead(i, j, mild, vague, same, same)
  <2>1. D \subseteq Nat /\ D # {}
    OBVIOUS
  <2> HIDE DEF mild, vague, same, D
  <2> QED BY <1>1, <2>1, OneIsAhead
<1>3. ASSUME NEW j \in D
      PROVE  ~Stronger(group[j], group[i]) /\ (j < i => Stronger(group[i], group[j]))
  <2>1. /\ mild[i] = 4 - rank(i) /\ mild[j] = 4 - rank(j)
        /\ vague[i] = 100 - group[i].sure /\ vague[j] = 100 - group[j].sure
        /\ same[i] = same[j]
    OBVIOUS
  <2>2. /\ mild[i] <= mild[j]
        /\ mild[i] = mild[j] => vague[i] <= vague[j]
        /\ mild[i] = mild[j] /\ vague[i] = vague[j] => i <= j
    <3>1. same[i] <= same[j]
      OBVIOUS
    <3> HIDE DEF mild, vague, same, D
    <3> QED BY <1>2, <2>1, <3>1 DEF Ahead
  <2>3. /\ rank(i) \in 0 .. 4 /\ rank(j) \in 0 .. 4
        /\ group[i].sure \in 0 .. 100 /\ group[j].sure \in 0 .. 100 /\ i \in Nat /\ j \in Nat
    BY <1>0
  <2> DEFINE si == group[i].sure  sj == group[j].sure  ri == rank(i)  rj == rank(j)
  <2>4. /\ rj <= ri
        /\ ri = rj => sj <= si
        /\ ri = rj /\ si = sj => i <= j
    <3>1. mild[i] = 4 - ri /\ mild[j] = 4 - rj /\ vague[i] = 100 - si /\ vague[j] = 100 - sj
      BY <2>1
    <3>2. ri \in 0 .. 4 /\ rj \in 0 .. 4 /\ si \in 0 .. 100 /\ sj \in 0 .. 100
      BY <2>3
    <3> HIDE DEF mild, vague, si, sj, ri, rj
    <3> QED BY <2>2, <3>1, <3>2
  <2>5. /\ Stronger(group[j], group[i]) <=> rj > ri \/ (rj = ri /\ sj > si)
        /\ Stronger(group[i], group[j]) <=> ri > rj \/ (ri = rj /\ si > sj)
    BY DEF Stronger
  <2>6. ri \in 0 .. 4 /\ rj \in 0 .. 4 /\ si \in 0 .. 100 /\ sj \in 0 .. 100 /\ i \in Nat /\ j \in Nat
    BY <2>3
  <2> HIDE DEF si, sj, ri, rj
  <2> QED BY <2>4, <2>5, <2>6
<1>4. Best(i)
  BY <1>3
<1> DEFINE b == CHOOSE k \in DOMAIN group : Best(k)
<1>5. b \in DOMAIN group /\ Best(b)
  <2> HIDE DEF Best
  <2> QED BY <1>2, <1>4
<1>6. Strongest(group) = group[b].category
  BY Zenon DEF Strongest
<1> HIDE DEF b
<1>7. ASSUME NEW k \in DOMAIN group
      PROVE  Rank(group[k].category) <= Rank(group[b].category)
  <2>1. ~Stronger(group[k], group[b])
    BY <1>5
  <2>2. rank(k) \in 0 .. 4 /\ rank(b) \in 0 .. 4
    BY <1>0, <1>5
  <2>3. ~(rank(k) > rank(b))
    BY <2>1 DEF Stronger
  <2> HIDE DEF rank
  <2>4. rank(k) <= rank(b)
    BY <2>2, <2>3
  <2> QED BY <2>4 DEF rank
<1> QED BY <1>6, <1>7

\* Groups of signals out of C; none is empty.
Groups(C) == Seq(Seq(C) \ {<<>>})

LEMMA JoinGroups ==
  ASSUME NEW C, NEW groups \in Groups(C), NEW c \in C
  PROVE  Join(groups, c) \in Groups(C)
<1> DEFINE fit == {g \in DOMAIN groups : \E i \in DOMAIN groups[g] : Merges(groups[g][i], c)}
           first == CHOOSE g \in fit : \A h \in fit : g <= h
<1>1. <<c>> \in Seq(C) \ {<<>>}
  OBVIOUS
<1>2. CASE fit = {}
  <2>1. Join(groups, c) = Append(groups, <<c>>)
    BY <1>2, Zenon DEF Join
  <2> QED BY <1>1, <2>1 DEF Groups
<1>3. CASE fit # {}
  <2>1. Join(groups, c) = [groups EXCEPT ![first] = Append(@, c)]
    BY <1>3, Zenon DEF Join
  <2>2. fit \subseteq DOMAIN groups /\ DOMAIN groups \subseteq Nat
    BY DEF Groups
  <2>3. first \in fit
    <3>1. fit \subseteq Nat
      BY <2>2
    <3> HIDE DEF fit
    <3> QED BY <1>3, <3>1, Smallest
  <2> HIDE DEF fit, first
  <2>4. first \in DOMAIN groups
    BY <2>2, <2>3
  <2>5. groups[first] \in Seq(C) \ {<<>>}
    BY <2>4 DEF Groups
  <2>6. Append(groups[first], c) \in Seq(C) \ {<<>>}
    BY <2>5
  <2> QED BY <2>1, <2>4, <2>6 DEF Groups
<1> QED BY <1>2, <1>3

\* Whoever is in a group, or joins one, is in one afterwards.
Grouped(groups, c) == \E g \in DOMAIN groups : c \in Range(groups[g])

LEMMA RangeGrows ==
  ASSUME NEW C, NEW group \in Seq(C), NEW c
  PROVE  Range(Append(group, c)) = Range(group) \cup {c}
<1> DEFINE a == Append(group, c)
<1>1. /\ Len(group) \in Nat /\ DOMAIN a = 1 .. Len(group) + 1 /\ DOMAIN group = 1 .. Len(group)
      /\ a[Len(group) + 1] = c /\ \A i \in 1 .. Len(group) : a[i] = group[i]
  OBVIOUS
<1> HIDE DEF a
<1>2. \A i \in DOMAIN a : i \in DOMAIN group \/ i = Len(group) + 1
  BY <1>1
<1>3. \A i \in DOMAIN group : i \in DOMAIN a
  BY <1>1
<1>4. Len(group) + 1 \in DOMAIN a
  BY <1>1
<1>5. Range(a) = Range(group) \cup {c}
  BY <1>1, <1>2, <1>3, <1>4 DEF Range
<1> QED BY <1>5 DEF a

LEMMA JoinKeeps ==
  ASSUME NEW C, NEW groups \in Groups(C), NEW c \in C
  PROVE  /\ Grouped(Join(groups, c), c)
         /\ \A d : Grouped(groups, d) => Grouped(Join(groups, c), d)
<1> DEFINE fit == {g \in DOMAIN groups : \E i \in DOMAIN groups[g] : Merges(groups[g][i], c)}
           first == CHOOSE g \in fit : \A h \in fit : g <= h
           joined == Join(groups, c)
<1>1. CASE fit = {}
  <2>1. joined = Append(groups, <<c>>)
    BY <1>1, Zenon DEF Join
  <2>2. /\ Len(groups) \in Nat /\ Len(groups) + 1 \in DOMAIN joined
        /\ joined[Len(groups) + 1] = <<c>>
        /\ \A g \in DOMAIN groups : g \in DOMAIN joined /\ joined[g] = groups[g]
    BY <2>1 DEF Groups
  <2>3. c \in Range(<<c>>)
    BY DEF Range
  <2> HIDE DEF joined
  <2>4. Grouped(joined, c) /\ \A d : Grouped(groups, d) => Grouped(joined, d)
    BY <2>2, <2>3 DEF Grouped
  <2> QED BY <2>4 DEF joined
<1>2. CASE fit # {}
  <2>1. joined = [groups EXCEPT ![first] = Append(@, c)]
    BY <1>2, Zenon DEF Join
  <2>2. fit \subseteq DOMAIN groups /\ DOMAIN groups \subseteq Nat
    BY DEF Groups
  <2>3. first \in fit
    <3>1. fit \subseteq Nat
      BY <2>2
    <3> HIDE DEF fit
    <3> QED BY <1>2, <3>1, Smallest
  <2> HIDE DEF fit, first, joined
  <2>4. first \in DOMAIN groups
    BY <2>2, <2>3
  <2>5. groups[first] \in Seq(C)
    BY <2>4 DEF Groups
  <2>6. Range(Append(groups[first], c)) = Range(groups[first]) \cup {c}
    BY <2>5, RangeGrows
  <2>7. /\ DOMAIN joined = DOMAIN groups /\ joined[first] = Append(groups[first], c)
        /\ \A g \in DOMAIN groups : g # first => joined[g] = groups[g]
    BY <2>1, <2>4
  <2>8. \A g \in DOMAIN groups : Range(groups[g]) \subseteq Range(joined[g])
    BY <2>6, <2>7
  <2>9. Grouped(joined, c) /\ \A d : Grouped(groups, d) => Grouped(joined, d)
    BY <2>4, <2>6, <2>7, <2>8 DEF Grouped
  <2> QED BY <2>9 DEF joined
<1> QED BY <1>1, <1>2

\* A finding for each of some groups, and every signal in one of them: that is
\* what is fused.
LEMMA FusedIsOfGroups ==
  ASSUME NEW C, NEW cs \in Seq(C)
  PROVE  \E groups \in Groups(C) :
            /\ Fused(cs) = [g \in DOMAIN groups |-> Finding(groups[g])]
            /\ \A k \in DOMAIN cs : Grouped(groups, cs[k])
<1> DEFINE n == Len(cs)
           X == Groups(C)
           next(i, x) == Join(x, cs[i])
           step == [i \in 1 .. n |-> [x \in X |-> next(i, x)]]
           Joins(f) == f = [i \in 0 .. n |-> IF i = 0 THEN <<>> ELSE next(i, f[i - 1])]
           joined == CHOOSE f : Joins(f)
<1>0. n \in Nat /\ <<>> \in X
  BY DEF Groups
<1>1. ASSUME NEW i \in 1 .. n, NEW x \in X
      PROVE  next(i, x) \in X
  <2>1. cs[i] \in C
    OBVIOUS
  <2> QED BY <2>1, JoinGroups
<1>2. step \in Steps(n, X)
  <2> HIDE DEF next, X, n
  <2> QED BY <1>1 DEF Steps
<1>3. PICK f : Taken(f, n, X, <<>>, step)
  <2> HIDE DEF step, X, n
  <2> QED BY <1>0, <1>2, Recursed
<1>4. ASSUME NEW i \in 1 .. n
      PROVE  f[i] = next(i, f[i - 1])
  <2>1. f[i - 1] \in X
    <3>1. i - 1 \in 0 .. n
      BY <1>0
    <3> HIDE DEF X, step
    <3> QED BY <1>3, <3>1 DEF Taken
  <2>2. \A x \in X : step[i][x] = next(i, x)
    <3> HIDE DEF next, X
    <3> QED OBVIOUS
  <2> HIDE DEF step, next, X
  <2> QED BY <1>3, <2>1, <2>2 DEF Taken
<1>5. Joins(f)
  <2> HIDE DEF next, X
  <2> QED BY <1>0, <1>3, <1>4 DEF Taken
<1>6. Joins(joined)
  <2> HIDE DEF Joins
  <2> QED BY <1>5
<1> HIDE DEF joined
<1>7. joined[0] = <<>> /\ \A i \in 1 .. n : joined[i] = next(i, joined[i - 1])
  <2> HIDE DEF next
  <2> QED BY <1>0, <1>6
<1> DEFINE good == {i \in 0 .. n : joined[i] \in X /\ \A k \in 1 .. i : Grouped(joined[i], cs[k])}
<1>8. ASSUME NEW i \in 1 .. n, i - 1 \in good
      PROVE  i \in good
  <2>1. /\ joined[i - 1] \in X /\ cs[i] \in C /\ joined[i] = Join(joined[i - 1], cs[i])
        /\ \A k \in 1 .. i - 1 : Grouped(joined[i - 1], cs[k])
    BY <1>7, <1>8
  <2>2. Grouped(joined[i], cs[i]) /\ \A d : Grouped(joined[i - 1], d) => Grouped(joined[i], d)
    BY <2>1, JoinKeeps
  <2>3. \A k \in 1 .. i : k \in 1 .. i - 1 \/ k = i
    BY <1>0
  <2>4. joined[i] \in X
    BY <1>1, <1>7, <2>1
  <2> HIDE DEF X
  <2> QED BY <1>0, <2>1, <2>2, <2>3, <2>4
<1>81. 0 \in good
  <2> HIDE DEF X
  <2> QED BY <1>0, <1>7
<1>9. n \in good
  <2> HIDE DEF good
  <2>1. 0 .. n \subseteq good
    BY <1>0, <1>8, <1>81, Climb
  <2> QED BY <1>0, <2>1
<1>10. Fused(cs) = [g \in DOMAIN joined[n] |-> Finding(joined[n][g])]
  BY Zenon DEF Fused, joined
<1>11. DOMAIN cs = 1 .. n
  OBVIOUS
<1> QED BY <1>9, <1>10, <1>11

Candidates(C) == \A c \in C : IsCandidate(c)

\* What is known of a finding: its category is at least as severe as each of its
\* signals', it is ranked as severe or higher, and it is named for one of them.
FindingIs(f, C) ==
    /\ f.group \in Seq(C) \ {<<>>}
    /\ f.sure \in 0 .. 100 /\ f.named \in BOOLEAN
    /\ f.rank \in 0 .. 4 /\ Rank(f.category) <= f.rank
    /\ \A i \in DOMAIN f.group : Rank(f.group[i].category) <= Rank(f.category)
    /\ Named(f) \in Nat /\ \E i \in DOMAIN f.group : Named(f) = f.group[i].id

LEMMA Findings ==
  ASSUME NEW C, Candidates(C), NEW group \in Seq(C) \ {<<>>}
  PROVE  FindingIs(Finding(group), C)
<1> DEFINE f == Finding(group)
           sures == {group[i].sure : i \in DOMAIN group}
           sure == CHOOSE n \in sures : \A i \in DOMAIN group : group[i].sure <= n
           decision == Decide(Strongest(group), sure)
<1>0. /\ DOMAIN group \subseteq Nat /\ DOMAIN group # {} /\ 1 \in DOMAIN group
      /\ \A i \in DOMAIN group : group[i] \in C /\ IsCandidate(group[i])
  BY DEF Candidates
<1>1. /\ f.group = group /\ f.category = Strongest(group) /\ f.sure = sure
      /\ f.rank = decision.rank /\ f.named = \E i \in DOMAIN group : group[i].named
  BY DEF Finding
<1>2. sure \in 0 .. 100
  <2> DEFINE vague == [i \in DOMAIN group |-> 100 - group[i].sure]
  <2>1. \A i \in DOMAIN group : vague[i] \in Nat /\ vague[i] = 100 - group[i].sure /\ group[i].sure \in 0 .. 100
    <3>1. \A i \in DOMAIN group : group[i].sure \in 0 .. 100
      BY <1>0 DEF IsCandidate
    <3>2. \A i \in DOMAIN group : vague[i] = 100 - group[i].sure
      OBVIOUS
    <3>3. \A n \in 0 .. 100 : 100 - n \in Nat
      OBVIOUS
    <3> HIDE DEF vague
    <3> QED BY <3>1, <3>2, <3>3
  <2>2. PICK i \in DOMAIN group : \A j \in DOMAIN group : vague[i] <= vague[j]
    <3>1. Lowest(DOMAIN group, vague) # {}
      <4> HIDE DEF vague
      <4> QED BY <1>0, <2>1, LowestThere
    <3> QED BY <3>1 DEF Lowest
  <2> HIDE DEF vague
  <2>3. ASSUME NEW j \in DOMAIN group
        PROVE  group[j].sure <= group[i].sure
    <3>1. \A m, n \in 0 .. 100 : 100 - m <= 100 - n => n <= m
      OBVIOUS
    <3>2. vague[i] <= vague[j] /\ vague[i] = 100 - group[i].sure /\ vague[j] = 100 - group[j].sure
      BY <2>1, <2>2
    <3>3. group[i].sure \in 0 .. 100 /\ group[j].sure \in 0 .. 100
      BY <2>1
    <3> QED BY <3>1, <3>2, <3>3
  <2>4. sure \in sures
    BY <2>3
  <2> QED BY <2>1, <2>4
<1>3. decision.rank \in 0 .. 4 /\ Rank(Strongest(group)) <= decision.rank
  <2>1. Rank(Strongest(group)) \in 0 .. 4
    BY Ranks
  <2>2. decision.rank \in {4, Rank(Strongest(group))}
    BY DEF Decide, UnknownRank
  <2> HIDE DEF decision
  <2> QED BY <2>1, <2>2
<1>4. \A i \in DOMAIN group : Rank(group[i].category) <= Rank(Strongest(group))
  BY <1>0, StrongestIsStrongest
<1>5. Named(f) \in Nat /\ \E i \in DOMAIN group : Named(f) = group[i].id
  BY <1>0, <1>1 DEF Named, IsCandidate
<1> HIDE DEF f, sure, decision
<1>6. f.named \in BOOLEAN
  BY <1>1
<1>7. FindingIs(f, C)
  BY <1>1, <1>2, <1>3, <1>4, <1>5, <1>6 DEF FindingIs
<1> QED BY <1>7 DEF f

LEMMA FirstIsLeft ==
  ASSUME NEW findings, NEW left, left \subseteq Nat, left # {}, NEW C,
         \A i \in left : FindingIs(findings[i], C)
  PROVE  FirstOffered(findings, left) \in left
<1> DEFINE mild == [i \in left |-> 4 - findings[i].rank]
           other == [i \in left |-> IF findings[i].named THEN 0 ELSE 1]
           vague == [i \in left |-> 100 - findings[i].sure]
           id == [i \in left |-> Named(findings[i])]
           Best(i) == \A j \in left : /\ ~Before(findings[j], findings[i])
                                      /\ j < i => Before(findings[i], findings[j])
<1>0. ASSUME NEW i \in left
      PROVE  /\ findings[i].rank \in 0 .. 4 /\ findings[i].named \in BOOLEAN
             /\ findings[i].sure \in 0 .. 100 /\ Named(findings[i]) \in Nat /\ i \in Nat
  BY DEF FindingIs
<1>1. ASSUME NEW i \in left
      PROVE  mild[i] \in Nat /\ other[i] \in Nat /\ vague[i] \in Nat /\ id[i] \in Nat
  <2>1. /\ mild[i] = 4 - findings[i].rank /\ vague[i] = 100 - findings[i].sure
        /\ id[i] = Named(findings[i]) /\ other[i] \in {0, 1}
    OBVIOUS
  <2>2. \A n \in 0 .. 100 : 100 - n \in Nat
    OBVIOUS
  <2>3. \A n \in 0 .. 4 : 4 - n \in Nat
    OBVIOUS
  <2> HIDE DEF mild, other, vague, id
  <2> QED BY <1>0, <2>1, <2>2, <2>3
<1>2. PICK i \in left : \A j \in left : Ahead(i, j, mild, other, vague, id)
  <2> HIDE DEF mild, other, vague, id
  <2> QED BY <1>1, OneIsAhead
<1>3. ASSUME NEW j \in left
      PROVE  ~Before(findings[j], findings[i]) /\ (j < i => Before(findings[i], findings[j]))
  <2> DEFINE f == findings[i]  g == findings[j]
             rf == f.rank  rg == g.rank  nf == f.named  ng == g.named
             sf == f.sure  sg == g.sure  df == Named(f)  dg == Named(g)
  <2>1. /\ mild[i] = 4 - rf /\ mild[j] = 4 - rg /\ vague[i] = 100 - sf /\ vague[j] = 100 - sg
        /\ other[i] = (IF nf THEN 0 ELSE 1) /\ other[j] = (IF ng THEN 0 ELSE 1)
        /\ id[i] = df /\ id[j] = dg
    OBVIOUS
  <2>2. /\ rf \in 0 .. 4 /\ rg \in 0 .. 4 /\ nf \in BOOLEAN /\ ng \in BOOLEAN
        /\ sf \in 0 .. 100 /\ sg \in 0 .. 100 /\ df \in Nat /\ dg \in Nat /\ i \in Nat /\ j \in Nat
    BY <1>0
  <2>3. Ahead(i, j, mild, other, vague, id)
    BY <1>2
  <2>4. Before(g, f) <=> \/ rg > rf
                         \/ rg = rf /\ ng /\ ~nf
                         \/ rg = rf /\ ng = nf /\ sg > sf
                         \/ rg = rf /\ ng = nf /\ sg = sf /\ dg < df
    BY DEF Before
  <2>5. Before(f, g) <=> \/ rf > rg
                         \/ rf = rg /\ nf /\ ~ng
                         \/ rf = rg /\ nf = ng /\ sf > sg
                         \/ rf = rg /\ nf = ng /\ sf = sg /\ df < dg
    BY DEF Before
  <2> HIDE DEF mild, other, vague, id, rf, rg, nf, ng, sf, sg, df, dg, f, g
  <2>6. (other[i] = other[j] <=> nf = ng) /\ (other[i] <= other[j] <=> nf \/ ~ng)
    BY <2>1, <2>2
  <2>7. /\ rg <= rf
        /\ rf = rg => nf \/ ~ng
        /\ rf = rg /\ nf = ng => sg <= sf
        /\ rf = rg /\ nf = ng /\ sf = sg => df <= dg
        /\ rf = rg /\ nf = ng /\ sf = sg /\ df = dg => i <= j
    <3>1. (mild[i] <= mild[j] <=> rg <= rf) /\ (mild[i] = mild[j] <=> rf = rg)
      BY <2>1, <2>2
    <3>2. (vague[i] <= vague[j] <=> sg <= sf) /\ (vague[i] = vague[j] <=> sf = sg)
      BY <2>1, <2>2
    <3> QED BY <2>1, <2>3, <2>6, <3>1, <3>2 DEF Ahead
  <2>8. ~Before(g, f)
    <3> SUFFICES ASSUME Before(g, f) PROVE FALSE
      OBVIOUS
    <3>1. CASE rg > rf
      BY <2>2, <2>7, <3>1
    <3>2. CASE rg = rf /\ ng /\ ~nf
      BY <2>7, <3>2
    <3>3. CASE rg = rf /\ ng = nf /\ sg > sf
      BY <2>2, <2>7, <3>3
    <3>4. CASE rg = rf /\ ng = nf /\ sg = sf /\ dg < df
      BY <2>2, <2>7, <3>4
    <3> QED BY <2>4, <3>1, <3>2, <3>3, <3>4
  <2>9. j < i => Before(f, g)
    <3> SUFFICES ASSUME j < i PROVE Before(f, g)
      OBVIOUS
    <3>1. ~(i <= j)
      BY <2>2
    <3>2. CASE rf # rg
      BY <2>2, <2>5, <2>7, <3>2
    <3>3. CASE rf = rg /\ nf # ng
      BY <2>2, <2>5, <2>7, <3>3
    <3>4. CASE rf = rg /\ nf = ng /\ sf # sg
      BY <2>2, <2>5, <2>7, <3>4
    <3>5. CASE rf = rg /\ nf = ng /\ sf = sg
      BY <2>2, <2>5, <2>7, <3>1, <3>5
    <3> QED BY <3>2, <3>3, <3>4, <3>5
  <2> QED BY <2>8, <2>9 DEF f, g
<1>4. Best(i)
  BY <1>3
<1> DEFINE first == CHOOSE k \in left : Best(k)
<1>5. first \in left
  <2> HIDE DEF Best
  <2> QED BY <1>2, <1>4
<1>6. FirstOffered(findings, left) = first
  BY Zenon DEF FirstOffered, first, Best
<1> HIDE DEF first
<1> QED BY <1>5, <1>6

\* Whatever is offered is a finding of the payload's signals, under its name.
LEMMA OfferedIsFound ==
  ASSUME NEW C, Candidates(C), NEW payload \in Seq(C), NEW o \in DOMAIN Minimized(payload)
  PROVE  \E f : /\ FindingIs(f, C)
                /\ Minimized(payload)[o].id = Named(f) /\ Minimized(payload)[o].category = f.category
                /\ Minimized(payload)[o].of = f.group
<1> DEFINE all == Fused(payload)
           exported == Among(all, {f \in Range(all) : f.export})
           n == Len(exported)
           X == SUBSET DOMAIN exported
           next(i, x) == x \ {FirstOffered(exported, x)}
           step == [i \in 1 .. n |-> [x \in X |-> next(i, x)]]
           Leaves(h) == h = [i \in 0 .. n |-> IF i = 0 THEN DOMAIN exported ELSE next(i, h[i - 1])]
           left == CHOOSE h : Leaves(h)
           Next(i) == exported[FirstOffered(exported, left[i - 1])]
<1>1. \A g \in DOMAIN all : FindingIs(all[g], C)
  <2>1. PICK groups \in Groups(C) : all = [g \in DOMAIN groups |-> Finding(groups[g])]
    BY FusedIsOfGroups
  <2>2. \A g \in DOMAIN groups : groups[g] \in Seq(C) \ {<<>>}
    BY DEF Groups
  <2> HIDE DEF all
  <2> QED BY <2>1, <2>2, Findings
<1>2. all \in Seq(Range(all))
  <2>1. PICK groups \in Groups(C) : all = [g \in DOMAIN groups |-> Finding(groups[g])]
    BY FusedIsOfGroups
  <2>2. DOMAIN groups = 1 .. Len(groups) /\ Len(groups) \in Nat
    BY DEF Groups
  <2>3. \A g \in DOMAIN groups : all[g] \in Range(all)
    BY <2>1 DEF Range
  <2> HIDE DEF all
  <2> QED BY <2>1, <2>2, <2>3
<1>3. exported \in Seq(Range(all))
  <2>1. exported \in Seq(Range(all) \cap {f \in Range(all) : f.export})
    BY <1>2, AmongIsSome
  <2> HIDE DEF exported
  <2> QED BY <2>1
<1> HIDE DEF exported
<1>4. /\ n \in Nat /\ DOMAIN exported = 1 .. n /\ DOMAIN exported \subseteq Nat
      /\ \A i \in DOMAIN exported : FindingIs(exported[i], C)
  <2>1. \A i \in DOMAIN exported : exported[i] \in Range(all)
    BY <1>3
  <2>2. n \in Nat /\ DOMAIN exported = 1 .. n
    BY <1>3
  <2> HIDE DEF all, n
  <2> QED BY <1>1, <2>1, <2>2 DEF Range
<1> HIDE DEF all, n
<1>5. PICK h : Taken(h, n, X, DOMAIN exported, step)
  <2>1. step \in Steps(n, X)
    BY DEF Steps
  <2>2. DOMAIN exported \in X
    OBVIOUS
  <2> HIDE DEF step, X
  <2> QED BY <1>4, <2>1, <2>2, Recursed
<1>6. ASSUME NEW i \in 1 .. n
      PROVE  h[i] = next(i, h[i - 1])
  <2>1. h[i - 1] \in X
    <3>1. i - 1 \in 0 .. n
      BY <1>4
    <3> HIDE DEF X, step
    <3> QED BY <1>5, <3>1 DEF Taken
  <2>2. \A x \in X : step[i][x] = next(i, x)
    <3> HIDE DEF next, X
    <3> QED OBVIOUS
  <2> HIDE DEF step, next, X
  <2> QED BY <1>5, <2>1, <2>2 DEF Taken
<1>7. Leaves(h)
  <2> HIDE DEF next, X, step
  <2> QED BY <1>4, <1>5, <1>6 DEF Taken
<1>8. Leaves(left)
  <2> HIDE DEF Leaves
  <2> QED BY <1>7
<1> HIDE DEF left
<1>9. left[0] = DOMAIN exported /\ \A i \in 1 .. n : left[i] = next(i, left[i - 1])
  <2> HIDE DEF next
  <2> QED BY <1>4, <1>8
<1> DEFINE good == {i \in 0 .. n : /\ left[i] \subseteq DOMAIN exported /\ IsFiniteSet(left[i])
                                   /\ Cardinality(left[i]) = n - i}
<1>10. 0 \in good
  <2>1. IsFiniteSet(1 .. n) /\ Cardinality(1 .. n) = n
    BY <1>4, FS_Interval
  <2> QED BY <1>4, <1>9, <2>1
<1>11. ASSUME NEW i \in 1 .. n, i - 1 \in good
       PROVE  i \in good
  <2>1. /\ left[i - 1] \subseteq DOMAIN exported /\ IsFiniteSet(left[i - 1])
        /\ Cardinality(left[i - 1]) = n - (i - 1)
    BY <1>11
  <2>2. left[i - 1] # {}
    BY <1>4, <2>1, FS_EmptySet
  <2>3. FirstOffered(exported, left[i - 1]) \in left[i - 1]
    BY <1>4, <2>1, <2>2, FirstIsLeft
  <2>4. left[i] = left[i - 1] \ {FirstOffered(exported, left[i - 1])}
    BY <1>9
  <2>5. IsFiniteSet(left[i]) /\ Cardinality(left[i]) = Cardinality(left[i - 1]) - 1
    BY <2>1, <2>3, <2>4, FS_RemoveElement
  <2>6. Cardinality(left[i]) = n - i /\ i \in 0 .. n
    BY <1>4, <2>1, <2>5
  <2> QED BY <2>1, <2>4, <2>5, <2>6
<1>12. 0 .. n \subseteq good
  <2> HIDE DEF good
  <2> QED BY <1>4, <1>10, <1>11, Climb
<1>13. Minimized(payload) = [i \in 1 .. Least(MaxOffered, n) |->
                                [id |-> Named(Next(i)), category |-> Next(i).category,
                                 of |-> Next(i).group]]
  BY Zenon DEF Minimized, all, exported, n, left
<1>14. o \in 1 .. n /\ o \in 1 .. Least(MaxOffered, n)
  <2>1. o \in 1 .. Least(MaxOffered, n)
    <3> HIDE DEF Next
    <3> QED BY <1>13
  <2>2. MaxOffered \in Nat
    BY PagesAssumption
  <2> QED BY <1>4, <2>1, <2>2 DEF Least
<1>15. /\ Minimized(payload)[o].id = Named(Next(o)) /\ Minimized(payload)[o].category = Next(o).category
       /\ Minimized(payload)[o].of = Next(o).group
  <2> HIDE DEF Next
  <2> QED BY <1>13, <1>14
<1>16. FirstOffered(exported, left[o - 1]) \in DOMAIN exported
  <2>1. o - 1 \in 0 .. n
    BY <1>4, <1>14
  <2>2. o - 1 \in good
    BY <1>12, <2>1
  <2>3. left[o - 1] \subseteq DOMAIN exported /\ IsFiniteSet(left[o - 1]) /\ Cardinality(left[o - 1]) = n - (o - 1)
    BY <2>2
  <2>4. left[o - 1] # {}
    BY <1>4, <1>14, <2>3, FS_EmptySet
  <2> QED BY <1>4, <2>3, <2>4, FirstIsLeft
<1>17. FindingIs(Next(o), C)
  BY <1>4, <1>16
<1> HIDE DEF Next
<1> QED BY <1>15, <1>17

\* A sequence of candidates.
Candid(s) == s \in Seq(Range(s)) /\ Candidates(Range(s))

\* Each element is in a finding.
Covers(findings, payload) ==
    \A c \in Range(payload) : \E i \in DOMAIN findings : c \in Range(findings[i].group)

\* No finding is ranked below one of its signals.
Weighed(findings) ==
    \A i \in DOMAIN findings : \A j \in DOMAIN findings[i].group :
       Rank(findings[i].group[j].category) <= findings[i].rank

LEMMA RangeOf ==
  ASSUME NEW T, NEW s \in Seq(T)
  PROVE  /\ s \in Seq(Range(s)) /\ Range(s) \subseteq T
         /\ Range(s) = {s[i] : i \in DOMAIN s}
BY DEF Range

LEMMA CandidJoined ==
  ASSUME NEW s, NEW t, Candid(s), Candid(t)
  PROVE  Candid(s \o t) /\ Range(s \o t) = Range(s) \cup Range(t)
<1>1. s \in Seq(Range(s)) /\ t \in Seq(Range(t))
  BY DEF Candid
<1>2. Range(s \o t) = Range(s) \cup Range(t)
  <2>1. /\ DOMAIN (s \o t) = 1 .. Len(s) + Len(t) /\ DOMAIN s = 1 .. Len(s) /\ DOMAIN t = 1 .. Len(t)
        /\ Len(s) \in Nat /\ Len(t) \in Nat
    BY <1>1
  <2>2. /\ \A i \in 1 .. Len(s) : (s \o t)[i] = s[i]
        /\ \A i \in 1 .. Len(t) : (s \o t)[Len(s) + i] = t[i]
        /\ \A i \in 1 .. Len(s) + Len(t) : i \in 1 .. Len(s) \/ i - Len(s) \in 1 .. Len(t)
    BY <1>1, <2>1
  <2>3. \A x \in Range(s \o t) : x \in Range(s) \cup Range(t)
    <3> SUFFICES ASSUME NEW i \in 1 .. Len(s) + Len(t)
                 PROVE  (s \o t)[i] \in Range(s) \cup Range(t)
      BY <2>1 DEF Range
    <3>1. CASE i \in 1 .. Len(s)
      BY <2>1, <2>2, <3>1 DEF Range
    <3>2. CASE i - Len(s) \in 1 .. Len(t)
      <4>1. (s \o t)[Len(s) + (i - Len(s))] = t[i - Len(s)]
        BY <2>2, <3>2
      <4>2. Len(s) + (i - Len(s)) = i
        BY <2>1
      <4> QED BY <2>1, <3>2, <4>1, <4>2 DEF Range
    <3> QED BY <2>2, <3>1, <3>2
  <2>4. \A i \in 1 .. Len(s) : s[i] \in Range(s \o t)
    <3>1. \A i \in 1 .. Len(s) : i \in 1 .. Len(s) + Len(t)
      BY <2>1
    <3> QED BY <2>1, <2>2, <3>1 DEF Range
  <2>5. \A i \in 1 .. Len(t) : t[i] \in Range(s \o t)
    <3>1. \A i \in 1 .. Len(t) : Len(s) + i \in 1 .. Len(s) + Len(t)
      BY <2>1
    <3> QED BY <2>1, <2>2, <3>1 DEF Range
  <2> QED BY <2>1, <2>3, <2>4, <2>5 DEF Range
<1>3. s \o t \in Seq(Range(s) \cup Range(t))
  <2>1. s \in Seq(Range(s) \cup Range(t)) /\ t \in Seq(Range(s) \cup Range(t))
    BY <1>1
  <2> QED BY <2>1
<1> QED BY <1>2, <1>3 DEF Candid, Candidates

LEMMA FusedIsWeighed ==
  ASSUME NEW s, Candid(s)
  PROVE  Weighed(Fused(s)) /\ Covers(Fused(s), s)
<1>1. s \in Seq(Range(s)) /\ Candidates(Range(s))
  BY DEF Candid
<1>2. PICK groups \in Groups(Range(s)) :
         /\ Fused(s) = [g \in DOMAIN groups |-> Finding(groups[g])]
         /\ \A k \in DOMAIN s : Grouped(groups, s[k])
  BY <1>1, FusedIsOfGroups
<1>3. ASSUME NEW g \in DOMAIN groups
      PROVE  FindingIs(Finding(groups[g]), Range(s))
  <2>1. groups[g] \in Seq(Range(s)) \ {<<>>}
    BY DEF Groups
  <2> QED BY <1>1, <2>1, Findings
<1>4. ASSUME NEW f, FindingIs(f, Range(s)), NEW j \in DOMAIN f.group
      PROVE  Rank(f.group[j].category) <= f.rank
  <2>1. /\ Rank(f.group[j].category) <= Rank(f.category) /\ Rank(f.category) <= f.rank /\ f.rank \in 0 .. 4
    BY <1>4 DEF FindingIs
  <2>2. Rank(f.group[j].category) \in 0 .. 4 /\ Rank(f.category) \in 0 .. 4
    BY Ranks
  <2> QED BY <2>1, <2>2
<1>5. Weighed(Fused(s))
  BY <1>2, <1>3, <1>4 DEF Weighed
<1>6. \A g \in DOMAIN groups : Fused(s)[g].group = groups[g]
  BY <1>2 DEF Finding
<1>7. \A c \in Range(s) : Grouped(groups, c)
  BY <1>2 DEF Range
<1>8. Covers(Fused(s), s)
  BY <1>2, <1>6, <1>7 DEF Covers, Grouped
<1> QED BY <1>5, <1>8

\* The report of a page is candidates.
LEMMA ReportIs ==
  ASSUME NEW page, IsPage(page)
  PROVE  Candid(Report(page)) /\ Candid(page.hints)
<1> DEFINE rest == {c \in Range(page.controls) : \A i \in DOMAIN page.signals :
                      page.signals[i].selector # c.selector /\ page.signals[i].id # c.id}
           quiet == Among(page.controls, rest)
<1>1. /\ page.signals \in Seq(Range(page.signals)) /\ page.controls \in Seq(Range(page.controls))
      /\ page.hints \in Seq(Range(page.hints))
      /\ \A c \in Range(page.signals) \cup Range(page.controls) \cup Range(page.hints) : IsCandidate(c)
  BY DEF IsPage
<1>2. quiet \in Seq(Range(page.controls) \cap rest)
  BY <1>1, AmongIsSome
<1>3. Report(page) = page.signals \o quiet
  BY DEF Report
<1> HIDE DEF rest, quiet
<1>4. quiet \in Seq(Range(quiet)) /\ Range(quiet) \subseteq Range(page.controls)
  BY <1>2, RangeOf
<1>5. Candid(quiet) /\ Candid(page.signals) /\ Candid(page.hints)
  BY <1>1, <1>4 DEF Candid, Candidates
<1> QED BY <1>3, <1>5, CandidJoined

LEMMA PresentIs ==
  ASSUME NEW n \in Nat, NEW all, DOMAIN all = 1 .. n, all = [i \in 1 .. n |-> all[i]]
  PROVE  /\ Present(all) \in Seq(Range(Present(all)))
         /\ \A x \in Range(Present(all)) : x # None /\ \E i \in DOMAIN all : x = all[i]
<1> DEFINE S == Range(all) \ {None}
<1>1. all \in Seq(Range(all))
  <2>1. \A i \in 1 .. n : all[i] \in Range(all)
    BY DEF Range
  <2> QED BY <2>1
<1>2. Present(all) \in Seq(Range(all) \cap S)
  BY <1>1, AmongIsSome DEF Present
<1>3. \A x \in Range(all) \cap S : x # None /\ \E i \in DOMAIN all : x = all[i]
  BY DEF Range
<1> HIDE DEF S
<1>4. Present(all) \in Seq(Range(Present(all))) /\ Range(Present(all)) \subseteq Range(all) \cap S
  BY <1>2, RangeOf
<1> QED BY <1>3, <1>4

\* The lines of a picture.
Lines(lines) == lines \in Seq(Range(lines)) /\ \A line \in Range(lines) : line.sure \in 0 .. 100

LEMMA TwinsAre ==
  ASSUME NEW report, Candid(report), NEW scroll, NEW scale
  PROVE  /\ Candid(Twins(report, scroll, scale))
         /\ \A x \in Range(Twins(report, scroll, scale)) : \E c \in Range(report) : x.id = c.id
<1> DEFINE twin(c) == [c EXCEPT !.box = Mapped(@, scroll, scale)]
           all == [i \in DOMAIN report |->
                     IF Sensitive(report[i].category) /\ Mapped(report[i].box, scroll, scale) # None
                       THEN twin(report[i]) ELSE None]
<1>1. /\ Len(report) \in Nat /\ DOMAIN report = 1 .. Len(report)
      /\ \A i \in DOMAIN report : report[i] \in Range(report) /\ IsCandidate(report[i])
  BY DEF Candid, Candidates, Range
<1>2. \A i \in DOMAIN report : IsCandidate(twin(report[i])) /\ twin(report[i]).id = report[i].id
  BY <1>1 DEF IsCandidate
<1>3. Twins(report, scroll, scale) = Present(all)
  BY DEF Twins
<1>4. \A i \in DOMAIN all : all[i] = None \/ all[i] = twin(report[i])
  OBVIOUS
<1>5. DOMAIN all = DOMAIN report /\ all = [i \in DOMAIN report |-> all[i]]
  OBVIOUS
<1> HIDE DEF twin, all
<1>6. /\ Present(all) \in Seq(Range(Present(all)))
      /\ \A x \in Range(Present(all)) : x # None /\ \E i \in DOMAIN all : x = all[i]
  BY <1>1, <1>5, PresentIs
<1>7. \A x \in Range(Present(all)) : IsCandidate(x) /\ \E c \in Range(report) : x.id = c.id
  <2> TAKE x \in Range(Present(all))
  <2>1. PICK i \in DOMAIN all : x = all[i] /\ x # None
    BY <1>6
  <2>2. i \in DOMAIN report /\ x = twin(report[i])
    BY <1>4, <1>5, <2>1
  <2>3. IsCandidate(twin(report[i])) /\ twin(report[i]).id = report[i].id
    BY <1>2, <2>2
  <2>4. report[i] \in Range(report)
    BY <1>1, <2>2
  <2> QED BY <2>2, <2>3, <2>4
<1> QED BY <1>3, <1>6, <1>7 DEF Candid, Candidates

LEMMA CandidatesMade ==
  ASSUME NEW id \in Nat, NEW category, NEW sure \in 0 .. 100, NEW box, NEW selector
  PROVE  IsCandidate(Candidate(id, category, sure, box, selector))
BY DEF IsCandidate, Candidate

\* What is read off a picture are candidates; what may be shown of it is plain
\* text.
LEMMA PictureIs ==
  ASSUME NEW lines, Lines(lines)
  PROVE  /\ Candid(Shown(Regions(lines))) /\ Candid(Hidden(Regions(lines)))
         /\ Candid(Contextual(lines))
         /\ \A x \in Range(Shown(Regions(lines))) : Rank(x.category) = 0
<1> DEFINE legible == {line \in Range(lines) : Legible(line)}
           kept == Among(lines, legible)
           regions == Regions(lines)
           plain == [i \in DOMAIN regions |->
                       IF regions[i].is = "safe"
                         THEN Candidate(Drawn + i, "text", regions[i].line.sure, regions[i].line.box,
                                        "canvas:visual-text")
                         ELSE None]
           hidden == [i \in DOMAIN regions |->
                       IF Sensitive(regions[i].is)
                         THEN Candidate(Drawn + i, regions[i].is, regions[i].line.sure,
                                        regions[i].line.box, None)
                         ELSE None]
           cued == [i \in DOMAIN lines |->
                       IF lines[i].sort = "cued"
                         THEN Candidate(2 * Drawn + i, "name", 80,
                                        IF lines[i].words THEN lines[i].box ELSE None, None)
                         ELSE None]
<1>0. Drawn \in Nat
  BY PagesAssumption
<1>1. /\ Len(lines) \in Nat /\ DOMAIN lines = 1 .. Len(lines)
      /\ lines \in Seq(Range(lines)) /\ \A line \in Range(lines) : line.sure \in 0 .. 100
  BY DEF Lines
<1>2. kept \in Seq(Range(lines))
  <2>1. kept \in Seq(Range(lines) \cap legible)
    BY <1>1, AmongIsSome
  <2> HIDE DEF kept, legible
  <2> QED BY <2>1
<1>3. /\ DOMAIN regions = DOMAIN kept
      /\ \A i \in DOMAIN kept : regions[i].line = kept[i]
  BY DEF Regions
<1> HIDE DEF kept, legible
<1>4. /\ Len(kept) \in Nat /\ DOMAIN regions = 1 .. Len(kept)
      /\ \A i \in DOMAIN regions : regions[i].line.sure \in 0 .. 100
  <2>1. Len(kept) \in Nat /\ DOMAIN kept = 1 .. Len(kept)
    BY <1>2
  <2>2. \A i \in DOMAIN kept : kept[i] \in Range(lines)
    BY <1>2
  <2>3. \A i \in DOMAIN kept : regions[i].line.sure \in 0 .. 100
    BY <1>1, <1>3, <2>2
  <2> HIDE DEF regions
  <2> QED BY <1>3, <2>1, <2>3
<1> DEFINE n == Len(kept)  m == Len(lines)
<1>5. /\ Shown(regions) = Present(plain) /\ Hidden(regions) = Present(hidden)
      /\ Contextual(lines) = Present(cued)
  BY DEF Shown, Hidden, Contextual
<1> HIDE DEF regions
<1>6. /\ DOMAIN plain = 1 .. n /\ plain = [i \in 1 .. n |-> plain[i]]
      /\ DOMAIN hidden = 1 .. n /\ hidden = [i \in 1 .. n |-> hidden[i]]
      /\ DOMAIN cued = 1 .. m /\ cued = [i \in 1 .. m |-> cued[i]]
  BY <1>1, <1>4
<1>7. ASSUME NEW i \in DOMAIN plain, plain[i] # None
      PROVE  IsCandidate(plain[i]) /\ Rank(plain[i].category) = 0
  <2> DEFINE id == Drawn + i  sure == regions[i].line.sure  box == regions[i].line.box
  <2>1. plain[i] = Candidate(id, "text", sure, box, "canvas:visual-text")
    BY <1>7
  <2>2. id \in Nat /\ sure \in 0 .. 100
    BY <1>0, <1>4, <1>6
  <2>3. IsCandidate(plain[i]) /\ plain[i].category = "text"
    <3> HIDE DEF plain, id, sure, box
    <3>1. IsCandidate(Candidate(id, "text", sure, box, "canvas:visual-text"))
      BY <2>2, CandidatesMade
    <3>2. Candidate(id, "text", sure, box, "canvas:visual-text").category = "text"
      BY DEF Candidate
    <3> QED BY <2>1, <3>1, <3>2, Zenon
  <2>4. Rank("text") = 0
    BY DEF Rank, Policy
  <2> HIDE DEF plain
  <2> QED BY <2>3, <2>4
<1>8. ASSUME NEW i \in DOMAIN hidden, hidden[i] # None
      PROVE  IsCandidate(hidden[i])
  <2> DEFINE id == Drawn + i  sure == regions[i].line.sure  box == regions[i].line.box  is == regions[i].is
  <2>1. hidden[i] = Candidate(id, is, sure, box, None)
    BY <1>8
  <2>2. id \in Nat /\ sure \in 0 .. 100
    BY <1>0, <1>4, <1>6
  <2> HIDE DEF hidden, id, sure, box, is
  <2>3. IsCandidate(Candidate(id, is, sure, box, None))
    BY <2>2, CandidatesMade
  <2> QED BY <2>1, <2>3, Zenon
<1>9. ASSUME NEW i \in DOMAIN cued, cued[i] # None
      PROVE  IsCandidate(cued[i])
  <2> DEFINE id == 2 * Drawn + i  sure == 80
             box == IF lines[i].words THEN lines[i].box ELSE None
  <2>1. cued[i] = Candidate(id, "name", sure, box, None)
    BY <1>9
  <2>2. id \in Nat /\ sure \in 0 .. 100
    BY <1>0, <1>1, <1>6
  <2> HIDE DEF cued, id, sure, box
  <2>3. IsCandidate(Candidate(id, "name", sure, box, None))
    BY <2>2, CandidatesMade
  <2> QED BY <2>1, <2>3, Zenon
<1> HIDE DEF plain, hidden, cued
<1>10. n \in Nat /\ m \in Nat
  BY <1>1, <1>4
<1> HIDE DEF n, m
<1>11. /\ Present(plain) \in Seq(Range(Present(plain)))
       /\ \A x \in Range(Present(plain)) : x # None /\ \E i \in DOMAIN plain : x = plain[i]
  BY <1>6, <1>10, PresentIs
<1>12. /\ Present(hidden) \in Seq(Range(Present(hidden)))
       /\ \A x \in Range(Present(hidden)) : x # None /\ \E i \in DOMAIN hidden : x = hidden[i]
  BY <1>6, <1>10, PresentIs
<1>13. /\ Present(cued) \in Seq(Range(Present(cued)))
       /\ \A x \in Range(Present(cued)) : x # None /\ \E i \in DOMAIN cued : x = cued[i]
  BY <1>6, <1>10, PresentIs
<1>14. /\ Candid(Present(plain)) /\ Candid(Present(hidden)) /\ Candid(Present(cued))
       /\ \A x \in Range(Present(plain)) : Rank(x.category) = 0
  BY <1>7, <1>8, <1>9, <1>11, <1>12, <1>13 DEF Candid, Candidates
<1> QED BY <1>5, <1>14 DEF regions

\* What the model may see is the page's report and more of the picture; all of it
\* is in the findings of the world model.
LEMMA PayloadIs ==
  ASSUME NEW report, Candid(report), NEW scroll, NEW scale, NEW lines, Lines(lines)
  PROVE  LET payload == Payload(report, Twins(report, scroll, scale) \o Shown(Regions(lines)))
             findings == Seen(report, scroll, scale, lines)
         IN Candid(payload) /\ Weighed(findings) /\ Covers(findings, payload)
<1> DEFINE twins == Twins(report, scroll, scale)
           plain == Shown(Regions(lines))
           hidden == Hidden(Regions(lines))
           cued == Contextual(lines)
           visual == twins \o plain
           own == {v \in Range(visual) : \A i \in DOMAIN report : report[i].id # v.id}
           more == Among(visual, own)
           payload == report \o more
           all == (((report \o twins) \o plain) \o hidden) \o cued
<1>1. Candid(twins) /\ Candid(plain) /\ Candid(hidden) /\ Candid(cued)
  BY TwinsAre, PictureIs
<1>2. Payload(report, visual) = payload /\ Seen(report, scroll, scale, lines) = Fused(all)
  BY DEF Payload, Seen
<1> HIDE DEF twins, plain, hidden, cued
<1>3. Candid(report \o twins) /\ Range(report \o twins) = Range(report) \cup Range(twins)
  BY <1>1, CandidJoined
<1>4. /\ Candid((report \o twins) \o plain)
      /\ Range((report \o twins) \o plain) = Range(report \o twins) \cup Range(plain)
  BY <1>1, <1>3, CandidJoined
<1>5. /\ Candid(((report \o twins) \o plain) \o hidden)
      /\ Range((report \o twins) \o plain) \subseteq Range(((report \o twins) \o plain) \o hidden)
  BY <1>1, <1>4, CandidJoined
<1>6. Candid(all) /\ Range(((report \o twins) \o plain) \o hidden) \subseteq Range(all)
  BY <1>1, <1>5, CandidJoined
<1>7. Candid(visual) /\ Range(visual) = Range(twins) \cup Range(plain)
  BY <1>1, CandidJoined
<1> HIDE DEF visual, all
<1>8. Candid(more) /\ Range(more) \subseteq Range(visual)
  <2>1. visual \in Seq(Range(visual)) /\ Candidates(Range(visual))
    BY <1>7 DEF Candid
  <2>2. more \in Seq(Range(visual) \cap own)
    BY <2>1, AmongIsSome
  <2> HIDE DEF more, own
  <2>3. more \in Seq(Range(more)) /\ Range(more) \subseteq Range(visual) \cap own
    BY <2>2, RangeOf
  <2> QED BY <2>1, <2>3 DEF Candid, Candidates
<1> HIDE DEF own, more
<1>9. Candid(payload) /\ Range(payload) = Range(report) \cup Range(more)
  BY <1>8, CandidJoined
<1> HIDE DEF payload
<1>10. Range(payload) \subseteq Range(all)
  BY <1>3, <1>4, <1>5, <1>6, <1>7, <1>8, <1>9
<1>11. Weighed(Fused(all)) /\ Covers(Fused(all), all)
  BY <1>6, FusedIsWeighed
<1>12. Covers(Fused(all), payload)
  BY <1>10, <1>11 DEF Covers
<1> QED BY <1>2, <1>9, <1>11, <1>12 DEF visual, twins, plain

\* What is offered stands for elements of the payload, none of them more severe,
\* and has the id of one of them.
Stands(offer, payload) ==
    /\ \A c \in Range(offer.of) : c \in Range(payload) /\ Rank(c.category) <= Rank(offer.category)
    /\ \E c \in Range(offer.of) : c.id = offer.id

LEMMA OfferedIsKept ==
  ASSUME NEW payload, Candid(payload), NEW i \in DOMAIN Minimized(payload)
  PROVE  Stands(Minimized(payload)[i], payload)
<1>1. payload \in Seq(Range(payload)) /\ Candidates(Range(payload))
  BY DEF Candid
<1>2. PICK f : /\ FindingIs(f, Range(payload))
               /\ Minimized(payload)[i].id = Named(f) /\ Minimized(payload)[i].category = f.category
               /\ Minimized(payload)[i].of = f.group
  BY <1>1, OfferedIsFound
<1>3. \E c \in Range(f.group) : Named(f) = c.id
  BY <1>2 DEF FindingIs, Range
<1>4. \A c \in Range(f.group) : c \in Range(payload) /\ Rank(c.category) <= Rank(f.category)
  BY <1>2 DEF FindingIs, Range
<1> QED BY <1>2, <1>3, <1>4 DEF Stands

Learnable == {"at", "page", "url", "scroll", "shot", "lines", "state", "findings", "payload",
           "offered", "affordances"}

\* A picture: of what a tab showed, or the provider's.
Shots == [tab : Tabs, page : Pages] \cup [tab : {None}, page : {None}]

\* What a reading holds of the two properties.
KeepsSensitive(read) ==
    /\ Weighed(read.findings) /\ Covers(read.findings, read.payload)
    /\ \A i \in DOMAIN read.offered : Stands(read.offered[i], read.payload)
HasNoDecoy(read) ==
    \A a \in read.affordances \ {None} : \E i \in DOMAIN read.offered : read.offered[i].id = a

\* What a reading holds on its way: its report is candidates, its lines are lines,
\* and its findings weigh and cover the report.
Faithful(read) ==
    /\ DOMAIN read = Learnable
    /\ Candid(read.payload) /\ Lines(read.lines)
    /\ Weighed(read.findings) /\ Covers(read.findings, read.payload)
    /\ read.at = "pictured" => read.shot \in Shots
    /\ read.at = "done" => KeepsSensitive(read) /\ HasNoDecoy(read)

PerceptionInv ==
    /\ vPage \in [Tabs -> Pages] /\ vActive \in Tabs
    /\ vJobs \in Seq([of : Readers, shot : Shots])
    /\ DOMAIN vRead = Readers
    /\ \A r \in Readers : Faithful(vRead[r])

LEMMA NothingHolds == Candid(<<>>) /\ Weighed(<<>>) /\ Covers(<<>>, <<>>) /\ Lines(<<>>)
<1>1. Range(<<>>) = {}
  BY DEF Range
<1> QED BY <1>1 DEF Candid, Candidates, Weighed, Covers, Lines

LEMMA PerceptionStarts ==
  ASSUME PerceptionInit
  PROVE  PerceptionInv
<1>1. DOMAIN Unread = Learnable /\ Unread.at = "start"
  BY DEF Unread, Learnable
<1>2. /\ Unread.payload = <<>> /\ Unread.lines = <<>> /\ Unread.findings = <<>>
  BY DEF Unread
<1>3. Faithful(Unread)
  BY <1>1, <1>2, NothingHolds DEF Faithful
<1>4. DOMAIN vRead = Readers /\ \A r \in Readers : vRead[r] = Unread
  BY DEF PerceptionInit
<1>5. vJobs \in Seq([of : Readers, shot : Shots])
  BY DEF PerceptionInit
<1> QED BY <1>3, <1>4, <1>5 DEF PerceptionInit, PerceptionInv

LEMMA LearntIs ==
  ASSUME NEW read, DOMAIN read = Learnable, NEW facts
  PROVE  /\ DOMAIN Learnt(read, facts) = Learnable
         /\ \A of \in Learnable : Learnt(read, facts)[of] = IF of \in DOMAIN facts THEN facts[of] ELSE read[of]
BY DEF Learnt

\* A reading learns where it is and nothing of the report, the lines or the
\* findings.
LEMMA MovesOn ==
  ASSUME NEW read, Faithful(read), NEW facts,
         "at" \in DOMAIN facts, facts.at # "done",
         DOMAIN facts \subseteq {"at", "url", "scroll", "state", "shot"},
         facts.at = "pictured" => "shot" \in DOMAIN facts /\ facts.shot \in Shots
  PROVE  Faithful(Learnt(read, facts))
<1> DEFINE now == Learnt(read, facts)
<1>1. /\ DOMAIN now = Learnable
      /\ \A of \in Learnable : now[of] = IF of \in DOMAIN facts THEN facts[of] ELSE read[of]
  BY LearntIs DEF Faithful
<1>2. {"at", "payload", "lines", "findings", "shot"} \subseteq Learnable
  BY DEF Learnable
<1>3. /\ "payload" \notin DOMAIN facts /\ "lines" \notin DOMAIN facts
      /\ "findings" \notin DOMAIN facts
  OBVIOUS
<1> HIDE DEF now
<1>4. /\ now.at = facts.at /\ now.payload = read.payload /\ now.lines = read.lines
      /\ now.findings = read.findings
      /\ "shot" \in DOMAIN facts => now.shot = facts.shot
  BY <1>1, <1>2, <1>3
<1>5. Faithful(now)
  BY <1>1, <1>4 DEF Faithful
<1> QED BY <1>5 DEF now

\* A step in which one reader learns something keeps what every reading holds.
LEMMA OneLearns ==
  ASSUME PerceptionInv, NEW r \in Readers, NEW facts, Learn(r, facts),
         Faithful(Learnt(vRead[r], facts))
  PROVE  DOMAIN vRead' = Readers /\ \A q \in Readers : Faithful(vRead'[q])
<1>1. DOMAIN vRead = Readers /\ \A q \in Readers : Faithful(vRead[q])
  BY DEF PerceptionInv
<1>2. vRead' = [vRead EXCEPT ![r] = Learnt(vRead[r], facts)]
  BY DEF Learn
<1> QED BY <1>1, <1>2

LEMMA PageReport ==
  ASSUME NEW page \in Pages, NEW report, report = IF page.excluded THEN <<>> ELSE Report(page)
  PROVE  LET findings == Fused(report \o page.hints)
         IN Candid(report) /\ Weighed(findings) /\ Covers(findings, report)
<1>1. IsPage(page)
  BY PagesAssumption
<1>2. Candid(Report(page)) /\ Candid(page.hints)
  BY <1>1, ReportIs
<1>3. Candid(report)
  BY <1>2, NothingHolds
<1>4. Candid(report \o page.hints) /\ Range(report) \subseteq Range(report \o page.hints)
  BY <1>2, <1>3, CandidJoined
<1> QED BY <1>3, <1>4, FusedIsWeighed DEF Covers

LEMMA ScanHolds ==
  ASSUME PerceptionInv, NEW r \in Readers, Scan(r)
  PROVE  PerceptionInv'
<1> DEFINE page == vPage[r]
           report == IF page.excluded THEN <<>> ELSE Report(page)
           findings == Fused(report \o page.hints)
           facts == [at |-> "scanned", page |-> page, payload |-> report, findings |-> findings]
           now == Learnt(vRead[r], facts)
<1>1. Learn(r, facts) /\ UNCHANGED <<vPage, vActive, vJobs>>
  BY DEF Scan
<1>2. page \in Pages
  BY DEF PerceptionInv, Tabs
<1>3. Candid(report) /\ Weighed(findings) /\ Covers(findings, report)
  <2> HIDE DEF page
  <2> QED BY <1>2, PageReport
<1> HIDE DEF page, report, findings
<1>4. /\ DOMAIN facts = {"at", "page", "payload", "findings"}
      /\ facts.at = "scanned" /\ facts.payload = report /\ facts.findings = findings
  OBVIOUS
<1> HIDE DEF facts
<1>5. Faithful(vRead[r])
  BY DEF PerceptionInv
<1>6. /\ DOMAIN now = Learnable
      /\ \A of \in Learnable : now[of] = IF of \in DOMAIN facts THEN facts[of] ELSE vRead[r][of]
  BY <1>5, LearntIs DEF Faithful
<1>7. {"at", "payload", "lines", "findings", "shot"} \subseteq Learnable
  BY DEF Learnable
<1> HIDE DEF now
<1>8. /\ now.at = "scanned" /\ now.payload = report /\ now.findings = findings
      /\ now.lines = vRead[r].lines
  BY <1>4, <1>6, <1>7
<1>9. Faithful(now)
  BY <1>3, <1>5, <1>6, <1>8 DEF Faithful
<1>10. DOMAIN vRead' = Readers /\ \A q \in Readers : Faithful(vRead'[q])
  BY <1>1, <1>9, OneLearns DEF now
<1> QED BY <1>1, <1>10 DEF PerceptionInv

\* The steps that find the tab, measure it and take its picture.
LEMMA MovesHold ==
  ASSUME PerceptionInv, NEW r \in Readers,
         Locate(r) \/ Measure(r) \/ Capture(r) \/ GivesUp(r)
  PROVE  PerceptionInv'
<1>1. PICK facts : /\ Learn(r, facts)
                   /\ "at" \in DOMAIN facts /\ facts.at # "done"
                   /\ DOMAIN facts \subseteq {"at", "url", "scroll", "state", "shot"}
                   /\ facts.at = "pictured" => "shot" \in DOMAIN facts /\ facts.shot \in Shots
  <2>1. CASE Locate(r)
    <3> DEFINE facts == [at |-> "located", url |-> vPage[r].id]
    <3>1. Learn(r, facts)
      BY <2>1 DEF Locate
    <3>2. DOMAIN facts = {"at", "url"} /\ facts.at = "located"
      OBVIOUS
    <3> HIDE DEF facts
    <3> QED BY <3>1, <3>2
  <2>2. CASE Measure(r)
    <3>1. PICK scroll : Learn(r, [at |-> "measured", scroll |-> scroll])
      BY <2>2 DEF Measure
    <3> DEFINE facts == [at |-> "measured", scroll |-> scroll]
    <3>2. DOMAIN facts = {"at", "scroll"} /\ facts.at = "measured"
      OBVIOUS
    <3> HIDE DEF facts
    <3>3. Learn(r, facts)
      BY <3>1 DEF facts
    <3> QED BY <3>2, <3>3
  <2>3. CASE Capture(r)
    <3>1. CASE NeedsPicture(vRead[r].page)
      <4>1. PICK shot \in {[tab |-> vActive, page |-> vPage[vActive]], [tab |-> None, page |-> None]} :
               Learn(r, [at |-> "pictured", shot |-> shot])
        BY <2>3, <3>1 DEF Capture
      <4>2. shot \in Shots
        <5>1. vActive \in Tabs /\ vPage[vActive] \in Pages
          BY DEF PerceptionInv
        <5> QED BY <4>1, <5>1 DEF Shots
      <4> DEFINE facts == [at |-> "pictured", shot |-> shot]
      <4>3. DOMAIN facts = {"at", "shot"} /\ facts.at = "pictured" /\ facts.shot = shot
        OBVIOUS
      <4> HIDE DEF facts
      <4>4. Learn(r, facts)
        BY <4>1 DEF facts
      <4> QED BY <4>2, <4>3, <4>4
    <3>2. CASE ~NeedsPicture(vRead[r].page)
      <4> DEFINE facts == [at |-> "coordinated", state |-> "NOT_APPLICABLE"]
      <4>1. Learn(r, facts)
        BY <2>3, <3>2 DEF Capture
      <4>2. DOMAIN facts = {"at", "state"} /\ facts.at = "coordinated"
        OBVIOUS
      <4> HIDE DEF facts
      <4> QED BY <4>1, <4>2
    <3> QED BY <3>1, <3>2
  <2>4. CASE GivesUp(r)
    <3> DEFINE facts == [at |-> "coordinated", state |-> "UNAVAILABLE"]
    <3>1. Learn(r, facts)
      BY <2>4 DEF GivesUp
    <3>2. DOMAIN facts = {"at", "state"} /\ facts.at = "coordinated"
      OBVIOUS
    <3> HIDE DEF facts
    <3> QED BY <3>1, <3>2
  <2> QED BY <2>1, <2>2, <2>3, <2>4
<1>2. Faithful(Learnt(vRead[r], facts))
  <2>1. Faithful(vRead[r])
    BY DEF PerceptionInv
  <2> QED BY <1>1, <2>1, MovesOn
<1>3. DOMAIN vRead' = Readers /\ \A q \in Readers : Faithful(vRead'[q])
  BY <1>1, <1>2, OneLearns
<1>4. vPage' = vPage /\ vActive' \in Tabs /\ vJobs' = vJobs
  BY DEF PerceptionInv, Locate, Measure, Capture, GivesUp, Tabs
<1> QED BY <1>3, <1>4 DEF PerceptionInv

LEMMA SendHolds ==
  ASSUME PerceptionInv, NEW r \in Readers, Send(r)
  PROVE  PerceptionInv'
<1> DEFINE sent == [at |-> "reading"]
           failed == [at |-> "coordinated", state |-> "UNAVAILABLE"]
<1>1. /\ DOMAIN sent = {"at"} /\ sent.at = "reading"
      /\ DOMAIN failed = {"at", "state"} /\ failed.at = "coordinated"
  OBVIOUS
<1>2. Faithful(vRead[r])
  BY DEF PerceptionInv
<1>3. vRead[r].at = "pictured" /\ vRead[r].shot \in Shots
  BY <1>2 DEF Send, At, Faithful
<1>4. \/ Learn(r, sent) /\ vJobs' = Append(vJobs, [of |-> r, shot |-> vRead[r].shot])
      \/ Learn(r, failed) /\ vJobs' = vJobs
  BY DEF Send
<1> HIDE DEF sent, failed
<1>5. Faithful(Learnt(vRead[r], sent)) /\ Faithful(Learnt(vRead[r], failed))
  BY <1>1, <1>2, MovesOn
<1>6. DOMAIN vRead' = Readers /\ \A q \in Readers : Faithful(vRead'[q])
  BY <1>4, <1>5, OneLearns
<1>7. vJobs' \in Seq([of : Readers, shot : Shots])
  <2> DEFINE T == [of : Readers, shot : Shots]
             job == [of |-> r, shot |-> vRead[r].shot]
  <2>1. job \in T /\ vJobs \in Seq(T)
    BY <1>3 DEF PerceptionInv
  <2>2. vJobs' = vJobs \/ vJobs' = Append(vJobs, job)
    BY <1>4
  <2> HIDE DEF T, job
  <2>3. vJobs' \in Seq(T)
    BY <2>1, <2>2
  <2> QED BY <2>3 DEF T
<1> QED BY <1>6, <1>7 DEF PerceptionInv, Send

LEMMA ShotLines ==
  ASSUME NEW shot \in Shots
  PROVE  Lines(LinesOf(shot))
<1>1. CASE shot.tab = None
  BY <1>1, NothingHolds DEF LinesOf
<1>2. CASE shot.tab # None
  <2>1. shot.page \in Pages
    BY <1>2 DEF Shots
  <2>2. IsPage(shot.page)
    BY <2>1, PagesAssumption
  <2> QED BY <1>2, <2>2 DEF LinesOf, Lines, IsPage
<1> QED BY <1>1, <1>2

LEMMA RecognisedHolds ==
  ASSUME PerceptionInv, Recognised
  PROVE  PerceptionInv'
<1> DEFINE job == Head(vJobs)
           r == job.of
           lines == LinesOf(job.shot)
           observed == [at |-> "coordinated", state |-> "OBSERVED", lines |-> lines]
           failed == [at |-> "coordinated", state |-> "UNAVAILABLE"]
           now == Learnt(vRead[r], observed)
<1>1. vJobs \in Seq([of : Readers, shot : Shots]) /\ vJobs # <<>> /\ vJobs' = Tail(vJobs)
  BY DEF PerceptionInv, Recognised
<1>2. job \in [of : Readers, shot : Shots] /\ vJobs' \in Seq([of : Readers, shot : Shots])
  <2> DEFINE T == [of : Readers, shot : Shots]
  <2>1. vJobs \in Seq(T) /\ vJobs # <<>>
    BY <1>1
  <2> HIDE DEF T
  <2>2. Head(vJobs) \in T /\ Tail(vJobs) \in Seq(T)
    BY <2>1
  <2> QED BY <1>1, <2>2 DEF T
<1>3. r \in Readers /\ Lines(lines)
  <2>1. job.of \in Readers /\ job.shot \in Shots
    <3> HIDE DEF job
    <3> QED BY <1>2
  <2> QED BY <2>1, ShotLines
<1>4. /\ DOMAIN observed = {"at", "state", "lines"} /\ observed.at = "coordinated" /\ observed.lines = lines
      /\ DOMAIN failed = {"at", "state"} /\ failed.at = "coordinated"
  OBVIOUS
<1>5. UNCHANGED vRead \/ Learn(r, observed) \/ Learn(r, failed)
  BY DEF Recognised
<1> HIDE DEF job, r, lines, observed, failed
<1>6. Faithful(vRead[r])
  BY <1>3 DEF PerceptionInv
<1>7. Faithful(Learnt(vRead[r], failed))
  BY <1>4, <1>6, MovesOn
<1>8. Faithful(now)
  <2>1. /\ DOMAIN now = Learnable
        /\ \A of \in Learnable : now[of] = IF of \in DOMAIN observed THEN observed[of] ELSE vRead[r][of]
    BY <1>6, LearntIs DEF Faithful
  <2>2. {"at", "payload", "lines", "findings", "shot"} \subseteq Learnable
    BY DEF Learnable
  <2> HIDE DEF now
  <2>3. /\ now.at = "coordinated" /\ now.lines = lines
        /\ now.findings = vRead[r].findings /\ now.payload = vRead[r].payload
    BY <1>4, <2>1, <2>2
  <2> QED BY <1>3, <1>6, <2>1, <2>3 DEF Faithful
<1>9. DOMAIN vRead' = Readers /\ \A q \in Readers : Faithful(vRead'[q])
  <2>1. CASE UNCHANGED vRead
    BY <2>1 DEF PerceptionInv
  <2>2. CASE Learn(r, observed)
    BY <1>3, <1>8, <2>2, OneLearns DEF now
  <2>3. CASE Learn(r, failed)
    BY <1>3, <1>7, <2>3, OneLearns
  <2> QED BY <1>5, <2>1, <2>2, <2>3
<1> QED BY <1>2, <1>9 DEF PerceptionInv, Recognised

LEMMA KeptIsOffered ==
  ASSUME NEW affordances, NEW offered, NEW a \in Kept(affordances, offered) \ {None}
  PROVE  \E i \in DOMAIN offered : offered[i].id = a
BY DEF Kept

LEMMA ConcludeHolds ==
  ASSUME PerceptionInv, NEW r \in Readers, Conclude(r)
  PROVE  PerceptionInv'
<1> DEFINE read == vRead[r]
           scale == CASE read.shot = None -> 1 [] read.shot # None /\ read.shot.tab = None -> 0
                      [] OTHER -> Scale
           report == read.payload
           visual == Twins(report, read.scroll, scale) \o Shown(Regions(read.lines))
           payload == Payload(report, visual)
           offered == IF read.page.excluded THEN <<>> ELSE Minimized(payload)
           findings == Seen(report, read.scroll, scale, read.lines)
           affordances == Kept(read.page.affordances, offered)
           facts == [at |-> "done", payload |-> payload, offered |-> offered,
                     findings |-> findings, affordances |-> affordances]
           now == Learnt(read, facts)
<1>1. Learn(r, facts) /\ UNCHANGED <<vPage, vActive, vJobs>>
  BY DEF Conclude
<1>2. Faithful(read)
  BY DEF PerceptionInv
<1>3. Candid(report) /\ Lines(read.lines)
  BY <1>2 DEF Faithful
<1> HIDE DEF read, scale, report
<1>4. Candid(payload) /\ Weighed(findings) /\ Covers(findings, payload)
  BY <1>3, PayloadIs
<1> HIDE DEF visual, payload, findings
<1>6. \A i \in DOMAIN offered : Stands(offered[i], payload)
  <2>1. CASE read.page.excluded
    BY <2>1
  <2>2. CASE ~read.page.excluded
    BY <1>4, <2>2, OfferedIsKept
  <2> QED BY <2>1, <2>2
<1> HIDE DEF offered
<1>7. \A a \in affordances \ {None} : \E i \in DOMAIN offered : offered[i].id = a
  BY KeptIsOffered
<1> HIDE DEF affordances
<1>8. /\ DOMAIN facts = {"at", "payload", "offered", "findings", "affordances"}
      /\ facts.at = "done" /\ facts.payload = payload /\ facts.offered = offered
      /\ facts.findings = findings /\ facts.affordances = affordances
  OBVIOUS
<1> HIDE DEF facts
<1>9. /\ DOMAIN now = Learnable
      /\ \A of \in Learnable : now[of] = IF of \in DOMAIN facts THEN facts[of] ELSE read[of]
  BY <1>2, LearntIs DEF Faithful
<1>10. {"at", "payload", "offered", "lines", "findings", "affordances"} \subseteq Learnable
  BY DEF Learnable
<1> HIDE DEF now
<1>11. /\ now.at = "done" /\ now.payload = payload /\ now.offered = offered
       /\ now.findings = findings /\ now.affordances = affordances /\ now.lines = read.lines
  BY <1>8, <1>9, <1>10
<1>12. KeepsSensitive(now) /\ HasNoDecoy(now)
  BY <1>4, <1>6, <1>7, <1>11 DEF KeepsSensitive, HasNoDecoy
<1>13. Faithful(now)
  BY <1>3, <1>4, <1>9, <1>11, <1>12 DEF Faithful
<1>14. DOMAIN vRead' = Readers /\ \A q \in Readers : Faithful(vRead'[q])
  BY <1>1, <1>13, OneLearns DEF now, read
<1> QED BY <1>1, <1>14 DEF PerceptionInv

LEMMA SkipHolds ==
  ASSUME PerceptionInv, NEW r \in Readers, Skip(r)
  PROVE  PerceptionInv'
<1> DEFINE read == vRead[r]
           payload == read.payload
           offered == IF read.page.excluded THEN <<>> ELSE Minimized(payload)
           affordances == Kept(read.page.affordances, offered)
           facts == [at |-> "done", offered |-> offered, affordances |-> affordances]
           now == Learnt(read, facts)
<1>1. Learn(r, facts) /\ UNCHANGED <<vPage, vActive, vJobs>>
  BY DEF Skip
<1>2. Faithful(read)
  BY DEF PerceptionInv
<1>3. /\ Candid(payload) /\ Lines(read.lines)
      /\ Weighed(read.findings) /\ Covers(read.findings, payload)
  BY <1>2 DEF Faithful
<1> HIDE DEF read, payload
<1>6. \A i \in DOMAIN offered : Stands(offered[i], payload)
  <2>1. CASE read.page.excluded
    BY <2>1
  <2>2. CASE ~read.page.excluded
    BY <1>3, <2>2, OfferedIsKept
  <2> QED BY <2>1, <2>2
<1> HIDE DEF offered
<1>7. \A a \in affordances \ {None} : \E i \in DOMAIN offered : offered[i].id = a
  BY KeptIsOffered
<1> HIDE DEF affordances
<1>8. /\ DOMAIN facts = {"at", "offered", "affordances"}
      /\ facts.at = "done" /\ facts.offered = offered /\ facts.affordances = affordances
  OBVIOUS
<1> HIDE DEF facts
<1>9. /\ DOMAIN now = Learnable
      /\ \A of \in Learnable : now[of] = IF of \in DOMAIN facts THEN facts[of] ELSE read[of]
  BY <1>2, LearntIs DEF Faithful
<1>10. {"at", "payload", "offered", "lines", "findings", "affordances"} \subseteq Learnable
  BY DEF Learnable
<1> HIDE DEF now
<1>11. /\ now.at = "done" /\ now.payload = payload /\ now.offered = offered
       /\ now.findings = read.findings /\ now.affordances = affordances /\ now.lines = read.lines
  BY <1>8, <1>9, <1>10 DEF payload
<1>12. KeepsSensitive(now) /\ HasNoDecoy(now)
  BY <1>3, <1>6, <1>7, <1>11 DEF KeepsSensitive, HasNoDecoy
<1>13. Faithful(now)
  BY <1>3, <1>9, <1>11, <1>12 DEF Faithful
<1>14. DOMAIN vRead' = Readers /\ \A q \in Readers : Faithful(vRead'[q])
  BY <1>1, <1>13, OneLearns DEF now, read
<1> QED BY <1>1, <1>14 DEF PerceptionInv

LEMMA DocumentGoneHolds ==
  ASSUME PerceptionInv, DocumentGone
  PROVE  PerceptionInv'
<1> DEFINE failed == [at |-> "coordinated", state |-> "UNAVAILABLE"]
<1>1. /\ vRead' = [r \in Readers |-> IF At(r, "reading") THEN Learnt(vRead[r], failed) ELSE vRead[r]]
      /\ vJobs' = <<>> /\ UNCHANGED <<vPage, vActive>>
  BY DEF DocumentGone
<1>2. DOMAIN failed = {"at", "state"} /\ failed.at = "coordinated"
  OBVIOUS
<1> HIDE DEF failed
<1>3. \A r \in Readers : Faithful(vRead[r]) /\ Faithful(Learnt(vRead[r], failed))
  BY <1>2, MovesOn DEF PerceptionInv
<1>4. DOMAIN vRead' = Readers /\ \A r \in Readers : Faithful(vRead'[r])
  BY <1>1, <1>3
<1>5. vJobs' \in Seq([of : Readers, shot : Shots])
  BY <1>1
<1> QED BY <1>1, <1>4, <1>5 DEF PerceptionInv

LEMMA PerceptionStep ==
  ASSUME PerceptionInv, [PerceptionNext]_perceptionVars
  PROVE  PerceptionInv'
<1>1. ASSUME NEW r \in Readers, NEW page \in Pages, Leave(r, page)
      PROVE  PerceptionInv'
  <2>1. vPage' \in [Tabs -> Pages]
    BY <1>1 DEF PerceptionInv, Leave
  <2> QED BY <1>1, <2>1 DEF PerceptionInv, Leave
<1>2. ASSUME NEW t \in Tabs, Switch(t)
      PROVE  PerceptionInv'
  BY <1>2 DEF PerceptionInv, Switch
<1>3. CASE UNCHANGED perceptionVars
  BY <1>3 DEF PerceptionInv, perceptionVars
<1> QED
  BY <1>1, <1>2, <1>3, ScanHolds, MovesHold, SendHolds, RecognisedHolds, ConcludeHolds, SkipHolds,
     DocumentGoneHolds DEF PerceptionNext

\* For every page, also one that gives an id to several elements: no element is
\* lost, in the world model and in what the model is offered none is taken for
\* anything milder, however signals overlap and whatever the picture adds.
THEOREM NothingSoftened == PerceptionSpec => []SensitiveKept
<1>1. PerceptionInit => PerceptionInv
  BY PerceptionStarts
<1>2. PerceptionInv /\ [PerceptionNext]_perceptionVars => PerceptionInv'
  BY PerceptionStep
<1>3. PerceptionInv => SensitiveKept
  <2> SUFFICES ASSUME PerceptionInv, NEW r \in Readers, At(r, "done")
               PROVE  LET read == vRead[r]
                      IN /\ Covers(read.findings, read.payload)
                         /\ \A i \in DOMAIN read.findings : \A c \in Range(read.findings[i].group) :
                               Rank(c.category) <= read.findings[i].rank
                         /\ \A i \in DOMAIN read.offered : Stands(read.offered[i], read.payload)
    BY DEF SensitiveKept, Covers, Stands
  <2>1. KeepsSensitive(vRead[r])
    BY DEF PerceptionInv, Faithful, At
  <2> QED BY <2>1 DEF KeepsSensitive, Weighed, Range
<1> QED BY <1>1, <1>2, <1>3, PTL DEF PerceptionSpec

\* An affordance the model is shown is of an element it may name.
THEOREM OffersAreNameable == PerceptionSpec => []NoDecoys
<1>1. PerceptionInit => PerceptionInv
  BY PerceptionStarts
<1>2. PerceptionInv /\ [PerceptionNext]_perceptionVars => PerceptionInv'
  BY PerceptionStep
<1>3. PerceptionInv => NoDecoys
  BY DEF PerceptionInv, Faithful, HasNoDecoy, NoDecoys, At
<1> QED BY <1>1, <1>2, <1>3, PTL DEF PerceptionSpec

-----------------------------------------------------------------------------
(* The wire (WireContract).                                                *)

LEMMA ParsedAction ==
  ASSUME NEW a \in Actions \cup {None}, ParseAction(a).error = None
  PROVE  /\ a \in Actions /\ ~Unsafe(a.reason)
         /\ ParseAction(a).action \in Actions /\ ParseAction(a).proposal = None
<1>1. a # None /\ ~Unsafe(a.reason) /\ ParseAction(a).error = None
  BY WireAssumption DEF ParseAction, Failure, Failures
<1>2. ParseAction(a).action = [a EXCEPT !.reason = Clamped(@)] /\ ParseAction(a).proposal = None
  BY <1>1, WireAssumption DEF ParseAction, Failure, Failures
<1> QED BY <1>1, <1>2 DEF Actions, Clamped, Texts

\* What the model said was safe as it said it, when the backend found nothing wrong.
Scanned(c) ==
    /\ c.envelope # None => ~Unsafe(c.envelope.reason)
    /\ c.action # None => ~Unsafe(c.action.reason)
    /\ c.envelope # None /\ c.envelope.action # None => ~Unsafe(c.envelope.action.reason)

LEMMA ParsedIsScanned ==
  ASSUME NEW c \in Completions, ParseProposal(c).error = None
  PROVE  /\ Scanned(c)
         /\ ParseProposal(c).action \in Actions \cup {None}
<1> DEFINE e == c.envelope
           p == ParseProposal(c)
           inner == [e.action EXCEPT !.reason = IF @ = "none" THEN e.reason ELSE @]
<1>0. /\ c.action \in Actions \cup {None}
      /\ e # None => e.reason \in Texts /\ e.action \in Actions \cup {None}
  BY WireAssumption
<1>f. \A kind \in Failures : Failure(kind).error # None
  BY WireAssumption DEF Failure
<1>1. CASE e = None
  <2>1. p = ParseAction(c.action)
    BY <1>1, Zenon DEF ParseProposal
  <2>2. ParseAction(c.action).error = None
    BY <2>1
  <2> QED BY <1>0, <1>1, <2>1, <2>2, ParsedAction DEF Scanned
<1>2. CASE e # None
  <2>1. /\ c.action = None /\ ~Unsafe(e.reason)
        /\ \/ /\ e.kind = "ACTION" /\ e.action # None
              /\ p = ParseAction(inner)
           \/ /\ e.action = None
              /\ p = [error |-> None, action |-> None, proposal |-> e]
    BY <1>2, <1>f, Zenon DEF ParseProposal, Failures
  <2>2. CASE e.action # None /\ p = ParseAction(inner)
    <3>1. inner \in Actions
      BY <1>0, <1>2, <2>2 DEF Actions
    <3>2. ParseAction(inner).error = None
      BY <2>2
    <3>3. ~Unsafe(inner.reason) /\ ParseAction(inner).action \in Actions
      BY <3>1, <3>2, ParsedAction
    <3>4. ~Unsafe(e.action.reason)
      BY <1>0, <1>2, <2>2, <3>3 DEF Unsafe, Actions
    <3> QED BY <2>1, <2>2, <3>3, <3>4 DEF Scanned
  <2>3. CASE e.action = None /\ p = [error |-> None, action |-> None, proposal |-> e]
    BY <1>2, <2>1, <2>3 DEF Scanned
  <2> QED BY <2>1, <2>2, <2>3
<1> QED BY <1>1, <1>2

LEMMA TakenIsScanned ==
  ASSUME NEW c \in Completions, Takes(Reply(c))
  PROVE  /\ Scanned(c)
         /\ Reply(c).action # None => Reply(c).action \in Actions
<1>f. \A kind \in Failures : Failure(kind).error # None
  BY WireAssumption DEF Failure
<1>1. Reply(c).error = None
  BY DEF Takes
<1>2. Reply(c) = ParseProposal(c)
  BY <1>1, <1>f, Zenon DEF Reply, Failures
<1>3. Scanned(c)
  BY <1>1, <1>2, ParsedIsScanned
<1> QED BY <1>1, <1>2, <1>3, ParsedIsScanned

-----------------------------------------------------------------------------
\* A recorded step.
Recorded == {[allowed |-> Places[p].allowed, ran |-> Places[p].ran, effect |-> Places[p].effect,
              words |-> Places[p].words, action |-> a] : p \in DOMAIN Places, a \in Actions}

\* What is told is told of the step it names.
ToldOf(w, steps) ==
    /\ w.of \in DOMAIN steps
    /\ w.action.kind = steps[w.of].action.kind
    /\ w.action.reason # "verdict" \/ w.effect = "EFFECT_VERIFIED" => steps[w.of].ran

\* The later entries are of later steps.
InOrder(told) == \A i \in DOMAIN told : \A j \in 1 .. i - 1 : told[j].of < told[i].of

WireInv ==
    /\ wSteps \in Seq(Recorded)
    /\ wAt = "judge" => wProposed \in Actions
    /\ wAt \in {"judge", "ask"} /\ wHeard # None => Scanned(wHeard)
    /\ wPrompt # None => /\ \A i \in DOMAIN wPrompt.history : ToldOf(wPrompt.history[i], wSteps)
                         /\ InOrder(wPrompt.history)

\* What is kept of entries numbered in their order is in that order.
LEMMA NumberedInOrder ==
  ASSUME NEW T, NEW s \in Seq(T), NEW S, \A i \in DOMAIN s : s[i].of = i
  PROVE  InOrder(Among(s, S))
<1> DEFINE told == Among(s, S)
<1>1. PICK place \in [1 .. Len(told) -> 1 .. Len(s)] :
         \A k \in 1 .. Len(told) :
            told[k] = s[place[k]] /\ \A j \in 1 .. k - 1 : place[j] < place[k]
  BY AmongInOrder
<1>2. told \in Seq(T)
  BY AmongInOrder
<1> HIDE DEF told
<1>3. \A k \in 1 .. Len(told) : told[k].of = place[k]
  BY <1>1
<1>4. \A k \in DOMAIN told : \A j \in 1 .. k - 1 : j \in 1 .. Len(told)
  BY <1>2
<1>5. InOrder(told)
  BY <1>1, <1>2, <1>3, <1>4 DEF InOrder
<1> QED BY <1>5 DEF told

LEMMA ToldTruly ==
  ASSUME NEW steps \in Seq(Recorded), NEW j \in DOMAIN steps,
         FitsSchema(Wire(j, steps[j]).action, Wire(j, steps[j]).effect)
  PROVE  ToldOf(Wire(j, steps[j]), steps)
<1> DEFINE s == steps[j]
           w == Wire(j, s)
<1>1. PICK p \in DOMAIN Places, a \in Actions :
         s = [allowed |-> Places[p].allowed, ran |-> Places[p].ran, effect |-> Places[p].effect,
              words |-> Places[p].words, action |-> a]
  BY DEF Recorded
<1>2. /\ w.of = j /\ w.action.kind = s.action.kind
      /\ w.action.reason = IF Dispatch(s) = "DISPATCHED" THEN s.action.reason ELSE s.words
      /\ w.effect = Effect(s)
  BY <1>1 DEF Wire, Actions
<1>3. w.action.reason \notin {"titled", "late", "long"}
  BY DEF FitsSchema, Unsafe, Over
<1> HIDE DEF w
<1>4. ASSUME s.ran
      PROVE  ToldOf(w, steps)
  BY <1>2, <1>4 DEF ToldOf
<1>5. ASSUME ~s.ran
      PROVE  ToldOf(w, steps)
  <2>1. w.action.reason = s.words
    BY <1>2, <1>5 DEF Dispatch
  <2>2. s.words = "verdict" /\ Effect(s) # "EFFECT_VERIFIED"
    BY <1>1, <1>3, <1>5, <2>1, WireAssumption DEF Places, Place, Effect
  <2> QED BY <1>2, <2>1, <2>2 DEF ToldOf
<1>6. ToldOf(w, steps)
  BY <1>4, <1>5
<1> QED BY <1>6 DEF w

LEMMA WireStarts == WireInit => WireInv
BY DEF WireInit, WireInv

LEMMA WireStep == WireInv /\ [WireNext]_wireVars => WireInv'
<1> SUFFICES ASSUME WireInv, [WireNext]_wireVars
             PROVE  WireInv'
  OBVIOUS
<1>1. ASSUME NEW d \in Declarations \cup {None}, Ask(d)
      PROVE  WireInv'
  <2> DEFINE told == History(wSteps)
  <2>1. /\ wAt' \in {"model", "refused"} /\ wHeard' = None /\ wSteps' = wSteps
        /\ wPrompt' # None => /\ wPrompt'.history = told
                              /\ \A i \in DOMAIN told : FitsSchema(told[i].action, told[i].effect)
    BY <1>1 DEF Ask
  <2>2. ASSUME NEW i \in DOMAIN told, FitsSchema(told[i].action, told[i].effect)
        PROVE  ToldOf(told[i], wSteps)
    <3> DEFINE all == [k \in DOMAIN wSteps |-> Wire(k, wSteps[k])]
    <3>1. all \in Seq(Range(all))
      BY DEF WireInv, Range
    <3>2. told \in Seq(Range(all) \cap {w \in Range(all) : Conforms(w)})
      <4> HIDE DEF all
      <4>1. told = Among(all, {w \in Range(all) : Conforms(w)})
        BY DEF History, all
      <4> QED BY <3>1, <4>1, AmongIsSome
    <3>3. told[i] \in Range(all)
      <4> HIDE DEF told, all
      <4> QED BY <3>2
    <3>4. PICK k \in DOMAIN wSteps : told[i] = Wire(k, wSteps[k])
      BY <3>3 DEF Range
    <3> HIDE DEF told
    <3> QED BY <2>2, <3>4, ToldTruly DEF WireInv
  <2>3. InOrder(told)
    <3> DEFINE all == [k \in DOMAIN wSteps |-> Wire(k, wSteps[k])]
    <3>1. all \in Seq(Range(all)) /\ \A k \in DOMAIN all : all[k].of = k
      BY DEF WireInv, Range, Wire
    <3>2. told = Among(all, {w \in Range(all) : Conforms(w)})
      BY DEF History
    <3> HIDE DEF told, all
    <3> QED BY <3>1, <3>2, NumberedInOrder
  <2> HIDE DEF told
  <2> QED BY <2>1, <2>2, <2>3 DEF WireInv
<1>2. ASSUME NEW c \in Completions, Answered(c)
      PROVE  WireInv'
  <2> DEFINE r == Reply(c)
  <2>1. /\ wHeard' = c /\ wSteps' = wSteps /\ wPrompt' = wPrompt
        /\ wAt' = IF ~Takes(r) THEN "failed" ELSE IF r.action # None THEN "judge" ELSE "ask"
        /\ wProposed' = IF Takes(r) /\ r.action # None THEN r.action ELSE None
    BY <1>2 DEF Answered
  <2>2. Takes(r) => Scanned(c) /\ (r.action # None => r.action \in Actions)
    BY TakenIsScanned
  <2> HIDE DEF r
  <2> QED BY <2>1, <2>2 DEF WireInv
<1>3. ASSUME NEW place \in DOMAIN Places, Record(place)
      PROVE  WireInv'
  <2> DEFINE step == [allowed |-> Places[place].allowed, ran |-> Places[place].ran,
                      effect |-> Places[place].effect, words |-> Places[place].words,
                      action |-> Retained(wProposed)]
  <2>1. /\ wSteps' = Append(wSteps, step) /\ wAt' = "ask" /\ wAt = "judge"
        /\ wPrompt' = wPrompt /\ wHeard' = wHeard
    BY <1>3 DEF Record
  <2>2. Retained(wProposed) \in Actions
    BY <2>1 DEF WireInv, Retained, Actions
  <2>3. step \in Recorded
    BY <2>2 DEF Recorded
  <2> HIDE DEF step
  <2>4. /\ wSteps' \in Seq(Recorded)
        /\ \A j \in DOMAIN wSteps : j \in DOMAIN wSteps' /\ wSteps'[j] = wSteps[j]
    BY <2>1, <2>3 DEF WireInv
  <2>5. \A w : ToldOf(w, wSteps) => ToldOf(w, wSteps')
    BY <2>4 DEF ToldOf
  <2> QED BY <2>1, <2>4, <2>5 DEF WireInv
<1>4. CASE UNCHANGED wireVars
  BY <1>4 DEF wireVars, WireInv
<1> QED BY <1>1, <1>2, <1>3, <1>4 DEF WireNext

\* For everything the model may say: what reaches the judges was scanned as the
\* model said it (parse_model_proposal, parse_model_action, validateProviderStep).
THEOREM WholeIsScanned == WireSpec => []ScannedWhole
<1>1. WireInv => ScannedWhole
  BY DEF WireInv, ScannedWhole, Scanned
<1> QED BY WireStarts, WireStep, <1>1, PTL DEF WireSpec

\* For everything the model may say and whatever becomes of its actions: an entry
\* of the history is of one recorded step, later entries of later steps, and in
\* the model's words, or with a verified effect, only if that step ran
\* (buildActionHistoryEntry, classifyDispatchStatus, classifyEffectStatus).
THEOREM HistoryIsTrue == WireSpec => []ToldTruthfully
<1>1. WireInv => ToldTruthfully
  BY DEF WireInv, ToldTruthfully, ToldOf, InOrder
<1> QED BY WireStarts, WireStep, <1>1, PTL DEF WireSpec

-----------------------------------------------------------------------------
(* What the user is told (Output).                                         *)

LEMMA Listed ==
  ASSUME NEW n \in Nat, NEW s, DOMAIN s = 1 .. n, s = [i \in 1 .. n |-> s[i]]
  PROVE  s \in Seq(Range(s)) /\ Len(s) = n
<1>1. \A i \in 1 .. n : s[i] \in Range(s)
  BY DEF Range
<1> QED BY <1>1

LEMMA Appended ==
  ASSUME NEW s, s \in Seq(Range(s)), NEW e
  PROVE  /\ Append(s, e) \in Seq(Range(Append(s, e)))
         /\ Len(s) \in Nat /\ DOMAIN s = 1 .. Len(s) /\ DOMAIN Append(s, e) = 1 .. Len(s) + 1
         /\ \A i \in DOMAIN s : Append(s, e)[i] = s[i]
         /\ Append(s, e)[Len(s) + 1] = e
<1> DEFINE T == Range(s) \cup {e}
           a == Append(s, e)
<1>1. s \in Seq(T) /\ e \in T
  OBVIOUS
<1> HIDE DEF T
<1>2. /\ Len(s) \in Nat /\ DOMAIN s = 1 .. Len(s) /\ DOMAIN a = 1 .. Len(s) + 1
      /\ \A i \in DOMAIN s : a[i] = s[i]
      /\ a[Len(s) + 1] = e /\ a \in Seq(T)
  BY <1>1
<1>3. a \in Seq(Range(a))
  <2>1. Len(a) = Len(s) + 1 /\ a = [i \in 1 .. Len(a) |-> a[i]]
    <3> HIDE DEF a
    <3> QED BY <1>2
  <2> HIDE DEF a
  <2> QED BY <1>2, <2>1, Listed
<1> QED BY <1>2, <1>3

\* The entries of a log that are under way.
Actives(items) == {i \in DOMAIN items : items[i].status = "ACTIVE"}

\* A log: a list of entries, of which one at most is under way.
Entries(items) ==
    items \in Seq(Range(items)) /\ \A i \in DOMAIN items : DOMAIN items[i] = {"key", "status"}
Calm(items) == Entries(items) /\ \A i, j \in Actives(items) : i = j

\* A card is made of these; no step of it is under way.
CardFields == DOMAIN FreshCard
IsCard(c) == DOMAIN c = CardFields /\ c.steps \in Seq(StepStates)

LEMMA PushedIs ==
  ASSUME NEW items, Entries(items), NEW e, DOMAIN e = {"key", "status"}
  PROVE  /\ Entries(Pushed(items, e)) /\ Len(items) \in Nat
         /\ Actives(Pushed(items, e)) \subseteq Actives(items) \cup {Len(Pushed(items, e))}
         /\ Actives(items) \subseteq Actives(Pushed(items, e))
         /\ e.status # "ACTIVE" => Actives(Pushed(items, e)) = Actives(items)
<1> DEFINE a == Append(items, e)
<1>0. items \in Seq(Range(items))
  BY DEF Entries
<1>1. /\ a \in Seq(Range(a)) /\ Len(items) \in Nat /\ DOMAIN items = 1 .. Len(items)
      /\ DOMAIN a = 1 .. Len(items) + 1
      /\ \A i \in DOMAIN items : a[i] = items[i]
      /\ a[Len(items) + 1] = e
  BY <1>0, Appended
<1>2. Pushed(items, e) = items \/ Pushed(items, e) = a
  BY DEF Pushed
<1> HIDE DEF a
<1>3. Len(a) = Len(items) + 1
  BY <1>1
<1>4. \A i \in DOMAIN a : i \in DOMAIN items \/ i = Len(items) + 1
  BY <1>1
<1>5. CASE Pushed(items, e) = items
  BY <1>1, <1>5
<1>6. CASE Pushed(items, e) = a
  <2>1. Entries(a)
    BY <1>1, <1>4 DEF Entries
  <2>2. Actives(a) \subseteq Actives(items) \cup {Len(a)}
    BY <1>1, <1>3, <1>4 DEF Actives
  <2>3. Actives(items) \subseteq Actives(a)
    BY <1>1 DEF Actives
  <2>4. ASSUME e.status # "ACTIVE"
        PROVE  Actives(a) \subseteq Actives(items)
    BY <1>1, <1>4, <2>4 DEF Actives
  <2> QED BY <1>1, <1>6, <2>1, <2>2, <2>3, <2>4
<1> QED BY <1>2, <1>5, <1>6

LEMMA SettledIs ==
  ASSUME NEW items, Entries(items), NEW from, NEW to
  PROVE  /\ Entries(Settled(items, from, to)) /\ Len(Settled(items, from, to)) = Len(items)
         /\ Actives(Settled(items, from, to)) = Actives(items) \ (from .. to)
<1> DEFINE s == Settled(items, from, to)
           done(i) == [items[i] EXCEPT !.status = "COMPLETE"]
<1>1. /\ Len(items) \in Nat /\ DOMAIN items = 1 .. Len(items)
      /\ \A i \in DOMAIN items : DOMAIN items[i] = {"key", "status"}
  BY DEF Entries
<1>2. /\ DOMAIN s = DOMAIN items /\ s = [i \in DOMAIN items |-> s[i]]
      /\ \A i \in DOMAIN items :
            s[i] = IF i \in from .. to /\ items[i].status = "ACTIVE" THEN done(i) ELSE items[i]
  BY DEF Settled
<1>3. \A i \in DOMAIN items : DOMAIN done(i) = {"key", "status"} /\ done(i).status = "COMPLETE"
  BY <1>1
<1> HIDE DEF s, done
<1>4. s \in Seq(Range(s)) /\ Len(s) = Len(items)
  BY <1>1, <1>2, Listed
<1>5. Entries(s)
  BY <1>1, <1>2, <1>3, <1>4 DEF Entries
<1>6. ASSUME NEW i \in DOMAIN items
      PROVE  s[i].status = "ACTIVE" <=> items[i].status = "ACTIVE" /\ i \notin from .. to
  BY <1>2, <1>3
<1>7. Actives(s) = Actives(items) \ (from .. to)
  BY <1>2, <1>6 DEF Actives
<1> QED BY <1>4, <1>5, <1>7 DEF s

\* The steps of a report are none of them under way.
LEMMA StepsArePushed ==
  ASSUME NEW log, NEW c, IsCard(c), Entries(log.items)
  PROVE  \E old, done :
           /\ old = (IF c.task # log.task THEN <<>> ELSE log.items)
           /\ Entries(done) /\ Actives(done) = Actives(old)
           /\ LET phase == IF c.interaction = None THEN "TERMINAL" ELSE c.interaction.phase
              IN  EntriesOf(log, c) =
                    IF c.status = "RUNNING" /\ phase \notin {"TERMINAL", "IDLE"}
                      THEN Pushed(done, [key |-> [step |-> 0, phase |-> phase], status |-> "ACTIVE"])
                      ELSE done
<1> DEFINE n == Len(c.steps)
           old == IF c.task # log.task THEN <<>> ELSE log.items
           entry(i) == [key |-> [step |-> i, phase |-> None], status |-> c.steps[i]]
           E == Range(old) \cup {entry(i) : i \in 1 .. n}
           X == {s \in Seq(E) : Entries(s) /\ Actives(s) = Actives(old)}
           next(i, x) == Pushed(x, entry(i))
           step == [i \in 1 .. n |-> [x \in X |-> next(i, x)]]
           Acts(f) == f = [i \in 0 .. n |-> IF i = 0 THEN old ELSE next(i, f[i - 1])]
           acted == CHOOSE f : Acts(f)
<1>0. n \in Nat /\ \A i \in 1 .. n : c.steps[i] # "ACTIVE"
  BY DEF IsCard, StepStates
<1>1. Entries(old)
  <2>1. Entries(<<>>)
    BY DEF Entries
  <2> QED BY <2>1
<1>2. old \in X
  <2>1. old \in Seq(Range(old))
    BY <1>1 DEF Entries
  <2>2. old \in Seq(E)
    <3> HIDE DEF entry, old
    <3> QED BY <2>1
  <2> HIDE DEF old, E
  <2> QED BY <1>1, <2>2
<1>3. ASSUME NEW i \in 1 .. n, NEW x \in X
      PROVE  next(i, x) \in X
  <2> DEFINE e == entry(i)
  <2>1. DOMAIN e = {"key", "status"} /\ e.status # "ACTIVE"
    BY <1>0
  <2>2. e \in E
    OBVIOUS
  <2>3. x \in Seq(E) /\ Entries(x) /\ Actives(x) = Actives(old)
    OBVIOUS
  <2> HIDE DEF e, E, old
  <2>4. Entries(Pushed(x, e)) /\ Actives(Pushed(x, e)) = Actives(x)
    BY <2>1, <2>3, PushedIs
  <2>5. Pushed(x, e) \in Seq(E)
    BY <2>2, <2>3 DEF Pushed
  <2>6. Pushed(x, e) \in X
    BY <2>3, <2>4, <2>5
  <2> QED BY <2>6 DEF e
<1>4. step \in Steps(n, X)
  <2> HIDE DEF next, X, n
  <2> QED BY <1>3 DEF Steps
<1>5. PICK f : Taken(f, n, X, old, step)
  <2> HIDE DEF step, X, n, old
  <2> QED BY <1>0, <1>2, <1>4, Recursed
<1>6. ASSUME NEW i \in 1 .. n
      PROVE  f[i] = next(i, f[i - 1])
  <2>1. f[i - 1] \in X
    <3>1. i - 1 \in 0 .. n
      BY <1>0
    <3> HIDE DEF X, step, n, old
    <3> QED BY <1>5, <3>1 DEF Taken
  <2>2. \A x \in X : step[i][x] = next(i, x)
    <3> HIDE DEF next, X, n
    <3> QED OBVIOUS
  <2> HIDE DEF step, next, X, n, old
  <2> QED BY <1>5, <2>1, <2>2 DEF Taken
<1>7. Acts(f)
  <2> HIDE DEF next, X, old, n, step
  <2> QED BY <1>0, <1>5, <1>6 DEF Taken
<1>8. Acts(acted)
  <2> HIDE DEF Acts
  <2> QED BY <1>7
<1> HIDE DEF acted
<1>9. acted[0] = old /\ \A i \in 1 .. n : acted[i] = next(i, acted[i - 1])
  <2> HIDE DEF next, old, n
  <2> QED BY <1>0, <1>8
<1> DEFINE good == {i \in 0 .. n : acted[i] \in X}
<1>10. 0 \in good /\ \A i \in 1 .. n : i - 1 \in good => i \in good
  <2> HIDE DEF X, n, next, old
  <2> QED BY <1>0, <1>2, <1>3, <1>9
<1>11. n \in good
  <2> HIDE DEF good, n
  <2>1. 0 .. n \subseteq good
    BY <1>0, <1>10, Climb
  <2> QED BY <1>0, <2>1
<1> DEFINE done == acted[n]
           phase == IF c.interaction = None THEN "TERMINAL" ELSE c.interaction.phase
<1>12. EntriesOf(log, c) =
         IF c.status = "RUNNING" /\ phase \notin {"TERMINAL", "IDLE"}
           THEN Pushed(done, [key |-> [step |-> 0, phase |-> phase], status |-> "ACTIVE"])
           ELSE done
  BY Zenon DEF EntriesOf, acted
<1>13. Entries(done) /\ Actives(done) = Actives(old)
  <2>1. done \in X
    BY <1>11
  <2> HIDE DEF done, E, old
  <2> QED BY <2>1
<1> HIDE DEF done
<1> QED BY <1>12, <1>13

\* After a report one entry at most is under way, and none of a run that ended.
LEMMA MergedIsCalm ==
  ASSUME NEW log, Calm(log.items), NEW c, IsCard(c)
  PROVE  /\ Calm(MergeActivities(log, c).items)
         /\ c.status \in Ended => Actives(MergeActivities(log, c).items) = {}
<1> DEFINE items == EntriesOf(log, c)
           n == Len(items)
<1>1. Entries(log.items) /\ \A i, j \in Actives(log.items) : i = j
  BY DEF Calm
<1>2. /\ Entries(items)
      /\ c.status # "RUNNING" => \A i, j \in Actives(items) : i = j
  <2> DEFINE phase == IF c.interaction = None THEN "TERMINAL" ELSE c.interaction.phase
             e == [key |-> [step |-> 0, phase |-> phase], status |-> "ACTIVE"]
  <2>1. PICK old, done :
           /\ old = (IF c.task # log.task THEN <<>> ELSE log.items)
           /\ Entries(done) /\ Actives(done) = Actives(old)
           /\ items = IF c.status = "RUNNING" /\ phase \notin {"TERMINAL", "IDLE"}
                        THEN Pushed(done, e) ELSE done
    BY <1>1, StepsArePushed
  <2>2. DOMAIN e = {"key", "status"}
    OBVIOUS
  <2> HIDE DEF items, e, phase
  <2>3. Entries(Pushed(done, e))
    BY <2>1, <2>2, PushedIs
  <2>4. Actives(<<>>) = {}
    BY DEF Actives
  <2>5. \A i, j \in Actives(old) : i = j
    BY <1>1, <2>1, <2>4
  <2> QED BY <2>1, <2>3, <2>5
<1>3. MergeActivities(log, c).items =
         IF c.status = "RUNNING" THEN Settled(items, 1, n - 1)
         ELSE IF c.status \in Ended THEN Settled(items, 1, n) ELSE items
  BY DEF MergeActivities
<1> HIDE DEF items
<1>4. n \in Nat /\ DOMAIN items = 1 .. n /\ Actives(items) \subseteq 1 .. n
  BY <1>2 DEF Entries, Actives
<1>5. CASE c.status = "RUNNING"
  <2>1. /\ Entries(Settled(items, 1, n - 1))
        /\ Actives(Settled(items, 1, n - 1)) = Actives(items) \ (1 .. n - 1)
    BY <1>2, SettledIs
  <2>2. \A i, j \in Actives(items) \ (1 .. n - 1) : i = j
    BY <1>4
  <2>3. c.status \notin Ended
    BY <1>5 DEF Ended
  <2> QED BY <1>3, <1>5, <2>1, <2>2, <2>3 DEF Calm
<1>6. CASE c.status \in Ended
  <2>1. /\ Entries(Settled(items, 1, n))
        /\ Actives(Settled(items, 1, n)) = Actives(items) \ (1 .. n)
    BY <1>2, SettledIs
  <2>2. Actives(items) \ (1 .. n) = {} /\ c.status # "RUNNING"
    BY <1>4, <1>6 DEF Ended
  <2> QED BY <1>3, <1>6, <2>1, <2>2 DEF Calm
<1>7. CASE c.status # "RUNNING" /\ c.status \notin Ended
  BY <1>2, <1>3, <1>7 DEF Calm
<1> QED BY <1>5, <1>6, <1>7

TurnFields == {"runId", "card", "log"}

\* A turn that says no more is under way than is.
IsTurn(turn) ==
    /\ DOMAIN turn = TurnFields
    /\ Calm(turn.log.items)
    /\ turn.card.status \in Ended => Actives(turn.log.items) = {}

\* The workspace shows turns there are.
IsBoard(v) ==
    /\ v.turns \in Seq(Range(v.turns)) /\ \A t \in DOMAIN v.turns : IsTurn(v.turns[t])
    /\ v.shown \in Seq(DOMAIN v.turns)

\* What a report does to what the turns show: no turn whose run has ended is
\* shown at work, nor as not ended by a report of an end.
Advances(v, w, c) ==
    /\ DOMAIN v.turns \subseteq DOMAIN w.turns
    /\ \A t \in DOMAIN v.turns : v.turns[t].card.status \in Ended =>
          /\ w.turns[t].card.status # "RUNNING"
          /\ c.status \in Ended => w.turns[t].card.status \in Ended

LEMMA FoldedIs ==
  ASSUME NEW turn, IsTurn(turn), NEW c, IsCard(c)
  PROVE  /\ IsTurn(Folded(turn, c)) /\ Folded(turn, c).card.status = c.status
         /\ Folded(turn, c).runId = turn.runId
<1> DEFINE log == MergeActivities(turn.log, c)
           card2(d) == [c EXCEPT !.answer = FirstThat(<<<<@ # None, @>>, <<TRUE, d.answer>>>>),
                                 !.interaction = FirstThat(<<<<@ # None, @>>, <<TRUE, d.interaction>>>>)]
           f == Folded(turn, c)
<1>1. Calm(log.items) /\ (c.status \in Ended => Actives(log.items) = {})
  BY MergedIsCalm DEF IsTurn
<1>2. DOMAIN turn = TurnFields
  BY DEF IsTurn
<1>3. f = [turn EXCEPT !.log = log, !.card = card2(turn.card)]
  BY <1>2 DEF Folded, TurnFields
<1>4. "status" \in DOMAIN c
  BY DEF IsCard, CardFields, FreshCard
<1>5. card2(turn.card).status = c.status
  BY <1>4
<1> HIDE DEF log, card2, f
<1>6. /\ DOMAIN f = TurnFields /\ f.log = log /\ f.card = card2(turn.card) /\ f.runId = turn.runId
  BY <1>2, <1>3 DEF TurnFields
<1>7. IsTurn(f)
  BY <1>1, <1>5, <1>6 DEF IsTurn
<1> QED BY <1>5, <1>6, <1>7 DEF f

LEMMA FirstTurn ==
  ASSUME NEW c, IsCard(c)
  PROVE  IsTurn(Turn(c)) /\ Turn(c).card = c
<1> DEFINE log == MergeActivities(EmptyLog(c.task), c)
           turn == Turn(c)
<1>1. Calm(EmptyLog(c.task).items)
  <2>1. EmptyLog(c.task).items = <<>>
    BY DEF EmptyLog
  <2>2. Calm(<<>>)
    BY DEF Calm, Entries, Actives
  <2> QED BY <2>1, <2>2
<1>2. Calm(log.items) /\ (c.status \in Ended => Actives(log.items) = {})
  BY <1>1, MergedIsCalm
<1>3. turn = [runId |-> c.runId, card |-> c, log |-> log]
  BY DEF Turn
<1> HIDE DEF log, turn
<1>4. DOMAIN turn = TurnFields /\ turn.card = c /\ turn.log = log
  BY <1>3 DEF TurnFields
<1> QED BY <1>2, <1>4 DEF IsTurn, turn

LEMMA UpdatedIs ==
  ASSUME NEW v, v = [turns |-> v.turns, shown |-> v.shown], IsBoard(v), NEW c, IsCard(c)
  PROVE  /\ IsBoard(Updated(v, c)) /\ Advances(v, Updated(v, c), c)
         /\ Updated(v, c) = [turns |-> Updated(v, c).turns, shown |-> Updated(v, c).shown]
<1> DEFINE same == {i \in DOMAIN v.shown : v.turns[v.shown[i]].runId = c.runId}
           first == CHOOSE i \in same : \A j \in same : i <= j
           its == v.shown[first]
           appended == [turns |-> Append(v.turns, Turn(c)), shown |-> Append(v.shown, Len(v.turns) + 1)]
           folded == [v EXCEPT !.turns[its] = Folded(v.turns[its], c)]
           w == Updated(v, c)
<1>0. /\ v.turns \in Seq(Range(v.turns)) /\ v.shown \in Seq(DOMAIN v.turns)
      /\ Len(v.turns) \in Nat /\ DOMAIN v.turns = 1 .. Len(v.turns)
      /\ DOMAIN v.shown \subseteq Nat
      /\ \A t \in DOMAIN v.turns : IsTurn(v.turns[t])
  BY DEF IsBoard
<1>1. w = IF c.status = "IDLE" THEN v
          ELSE IF same = {} THEN appended
          ELSE IF Refuses(v.turns[its], c) THEN v ELSE folded
  BY DEF Updated
<1>2. CASE w = v
  <2>1. "RUNNING" \notin Ended
    BY DEF Ended
  <2> HIDE DEF w
  <2>2. Advances(v, v, c)
    BY <2>1 DEF Advances
  <2> QED BY <1>2, <2>2 DEF w
<1>3. CASE w = appended
  <2> DEFINE ts == Append(v.turns, Turn(c))  ss == Append(v.shown, Len(v.turns) + 1)
  <2>1. w.turns = ts /\ w.shown = ss /\ w = [turns |-> w.turns, shown |-> w.shown]
    BY <1>3
  <2>2. /\ ts \in Seq(Range(ts)) /\ DOMAIN ts = 1 .. Len(v.turns) + 1
        /\ \A t \in DOMAIN v.turns : ts[t] = v.turns[t]
        /\ ts[Len(v.turns) + 1] = Turn(c)
    BY <1>0, Appended
  <2> HIDE DEF ts, w
  <2>3. \A t \in DOMAIN ts : t \in DOMAIN v.turns \/ t = Len(v.turns) + 1
    BY <1>0, <2>2
  <2>4. DOMAIN v.turns \subseteq DOMAIN ts /\ Len(v.turns) + 1 \in DOMAIN ts
    BY <1>0, <2>2
  <2>5. \A t \in DOMAIN ts : IsTurn(ts[t])
    BY <1>0, <2>2, <2>3, FirstTurn
  <2>6. ss \in Seq(DOMAIN ts)
    <3> DEFINE D == DOMAIN ts
    <3>1. v.shown \in Seq(D) /\ Len(v.turns) + 1 \in D
      BY <1>0, <2>4
    <3> HIDE DEF D
    <3>2. ss \in Seq(D)
      BY <3>1
    <3> QED BY <3>2 DEF D
  <2>7. "RUNNING" \notin Ended
    BY DEF Ended
  <2> HIDE DEF ss
  <2>8. IsBoard(w)
    BY <2>1, <2>2, <2>5, <2>6 DEF IsBoard
  <2>9. Advances(v, w, c)
    BY <2>1, <2>2, <2>4, <2>7 DEF Advances
  <2> QED BY <2>1, <2>8, <2>9 DEF w
<1>4. CASE w = folded /\ same # {} /\ ~Refuses(v.turns[its], c)
  <2>1. first \in same
    <3>1. same \subseteq Nat
      BY <1>0
    <3> HIDE DEF same
    <3> QED BY <1>4, <3>1, Smallest
  <2>2. its \in DOMAIN v.turns /\ v.turns[its].runId = c.runId
    <3> HIDE DEF first
    <3>1. first \in DOMAIN v.shown /\ v.turns[v.shown[first]].runId = c.runId
      BY <2>1
    <3> QED BY <1>0, <3>1
  <2> DEFINE turn == v.turns[its]  new == Folded(turn, c)  ts == [v.turns EXCEPT ![its] = new]
  <2> HIDE DEF its, same, first
  <2>3. w.turns = ts /\ w.shown = v.shown /\ w = [turns |-> w.turns, shown |-> w.shown]
    BY <1>4
  <2>4. /\ DOMAIN ts = DOMAIN v.turns /\ ts = [t \in 1 .. Len(v.turns) |-> ts[t]]
        /\ ts[its] = new /\ \A t \in DOMAIN v.turns \ {its} : ts[t] = v.turns[t]
    BY <1>0, <2>2
  <2>5. IsTurn(new) /\ new.card.status = c.status
    <3>1. IsTurn(turn)
      BY <1>0, <2>2
    <3> HIDE DEF turn
    <3> QED BY <3>1, FoldedIs
  <2>6. turn.card.status \in Ended => c.status # "RUNNING"
    BY <1>4, <2>2 DEF Refuses
  <2> HIDE DEF new, ts, w
  <2>7. ts \in Seq(Range(ts))
    BY <1>0, <2>4, Listed
  <2>8. \A t \in DOMAIN ts : IsTurn(ts[t])
    BY <1>0, <2>4, <2>5
  <2>9. "RUNNING" \notin Ended
    BY DEF Ended
  <2>10. IsBoard(w)
    BY <1>0, <2>3, <2>4, <2>7, <2>8 DEF IsBoard
  <2>11. ASSUME NEW t \in DOMAIN v.turns, v.turns[t].card.status \in Ended
         PROVE  /\ ts[t].card.status # "RUNNING"
                /\ c.status \in Ended => ts[t].card.status \in Ended
    <3>1. CASE t = its
      BY <2>4, <2>5, <2>6, <2>11, <3>1
    <3>2. CASE t # its
      BY <2>4, <2>9, <2>11, <3>2
    <3> QED BY <3>1, <3>2
  <2>12. Advances(v, w, c)
    BY <2>3, <2>4, <2>11 DEF Advances
  <2> QED BY <2>3, <2>10, <2>12 DEF w
<1> HIDE DEF w, same, its, folded, appended
<1> QED BY <1>1, <1>2, <1>3, <1>4 DEF w

\* Sequences joined: one after the other, each within the whole.
LEMMA JoinedIs ==
  ASSUME NEW T, NEW ss \in Seq(Seq(T))
  PROVE  /\ \A i \in 0 .. Len(ss) : Joined(ss, i) \in Seq(T)
         /\ \A i \in 1 .. Len(ss) : Joined(ss, i) = Joined(ss, i - 1) \o ss[i]
<1> DEFINE n == Len(ss)
           X == Seq(T)
           next(i, x) == x \o ss[i]
           step == [i \in 1 .. n |-> [x \in X |-> next(i, x)]]
           Joins(f) == f = [i \in 0 .. n |-> IF i = 0 THEN <<>> ELSE next(i, f[i - 1])]
           upTo == CHOOSE f : Joins(f)
<1>0. n \in Nat /\ <<>> \in X
  OBVIOUS
<1>1. ASSUME NEW i \in 1 .. n, NEW x \in X
      PROVE  next(i, x) \in X
  <2>1. ss[i] \in Seq(T)
    OBVIOUS
  <2> QED BY <2>1
<1>2. step \in Steps(n, X)
  <2> HIDE DEF next, X, n
  <2> QED BY <1>1 DEF Steps
<1>3. PICK f : Taken(f, n, X, <<>>, step)
  <2> HIDE DEF step, X, n
  <2> QED BY <1>0, <1>2, Recursed
<1>4. ASSUME NEW i \in 1 .. n
      PROVE  f[i] = next(i, f[i - 1])
  <2>1. f[i - 1] \in X
    <3>1. i - 1 \in 0 .. n
      BY <1>0
    <3> HIDE DEF X, step, n
    <3> QED BY <1>3, <3>1 DEF Taken
  <2>2. \A x \in X : step[i][x] = next(i, x)
    <3> HIDE DEF next, X, n
    <3> QED OBVIOUS
  <2> HIDE DEF step, next, X, n
  <2> QED BY <1>3, <2>1, <2>2 DEF Taken
<1>5. Joins(f)
  <2> HIDE DEF next, X, n, step
  <2> QED BY <1>0, <1>3, <1>4 DEF Taken
<1>6. Joins(upTo)
  <2> HIDE DEF Joins
  <2> QED BY <1>5
<1>7. \A i : Joined(ss, i) = upTo[i]
  BY Zenon DEF Joined, upTo, Joins, next, n
<1> HIDE DEF upTo
<1>8. upTo[0] = <<>> /\ \A i \in 1 .. n : upTo[i] = next(i, upTo[i - 1])
  <2> HIDE DEF next, n
  <2> QED BY <1>0, <1>6
<1> DEFINE good == {i \in 0 .. n : upTo[i] \in X}
<1>9. 0 \in good /\ \A i \in 1 .. n : i - 1 \in good => i \in good
  <2> HIDE DEF X, n, next
  <2> QED BY <1>0, <1>1, <1>8
<1>10. 0 .. n \subseteq good
  <2> HIDE DEF good, n
  <2> QED BY <1>0, <1>9, Climb
<1>11. \A i \in 0 .. n : upTo[i] \in X
  <2> HIDE DEF X, n
  <2> QED BY <1>10
<1> QED BY <1>7, <1>8, <1>11

LEMMA JoinedWithin ==
  ASSUME NEW T, NEW ss \in Seq(Seq(T)), NEW c \in 1 .. Len(ss), NEW t \in 1 .. Len(ss[c])
  PROVE  Len(Joined(ss, c - 1)) + t \in DOMAIN Joined(ss, Len(ss))
<1> DEFINE n == Len(ss)  J(i) == Joined(ss, i)  L == [i \in 0 .. n |-> Len(J(i))]
<1>0. n \in Nat /\ c \in 1 .. n /\ c - 1 \in 0 .. n /\ c \in 0 .. n /\ n \in 0 .. n
  OBVIOUS
<1>1. /\ \A i \in 0 .. n : J(i) \in Seq(T)
      /\ \A i \in 1 .. n : J(i) = J(i - 1) \o ss[i]
      /\ \A i \in 1 .. n : ss[i] \in Seq(T)
  <2>1. \A i \in 1 .. n : ss[i] \in Seq(T)
    OBVIOUS
  <2>2. /\ \A i \in 0 .. Len(ss) : Joined(ss, i) \in Seq(T)
        /\ \A i \in 1 .. Len(ss) : Joined(ss, i) = Joined(ss, i - 1) \o ss[i]
    BY JoinedIs
  <2> QED BY <2>1, <2>2, Zenon
<1>2. \A i \in 0 .. n : L[i] = Len(J(i)) /\ L[i] \in Nat /\ DOMAIN J(i) = 1 .. L[i]
  <2> HIDE DEF n, J
  <2> QED BY <1>1
<1>3. \A i \in 1 .. n : L[i] = L[i - 1] + Len(ss[i]) /\ Len(ss[i]) \in Nat /\ i - 1 \in 0 .. n /\ i \in 0 .. n
  <2> TAKE i \in 1 .. n
  <2>1. i - 1 \in 0 .. n /\ i \in 0 .. n
    BY <1>0
  <2>2. J(i - 1) \in Seq(T) /\ ss[i] \in Seq(T) /\ J(i) = J(i - 1) \o ss[i]
    <3> HIDE DEF n, J
    <3> QED BY <1>1, <2>1
  <2>3. Len(J(i)) = Len(J(i - 1)) + Len(ss[i]) /\ Len(ss[i]) \in Nat
    <3> HIDE DEF J
    <3> QED BY <2>2
  <2> HIDE DEF n, J, L
  <2> QED BY <1>2, <2>1, <2>3
<1> HIDE DEF n, J, L
<1> DEFINE good == {i \in 0 .. n : i >= c => L[c] <= L[i]}
<1>4. 0 \in good
  BY <1>0
<1>5. ASSUME NEW i \in 1 .. n, i - 1 \in good
      PROVE  i \in good
  <2>1. i - 1 >= c => L[c] <= L[i - 1]
    BY <1>5
  <2>2. L[i] = L[i - 1] + Len(ss[i]) /\ Len(ss[i]) \in Nat /\ L[i - 1] \in Nat /\ L[c] \in Nat
    BY <1>0, <1>2, <1>3
  <2>3. i >= c => L[c] <= L[i]
    <3>1. CASE i = c
      BY <2>2, <3>1
    <3>2. CASE i > c
      <4>1. i - 1 >= c
        BY <1>0, <3>2
      <4> QED BY <2>1, <2>2, <4>1
    <3> QED BY <1>0, <3>1, <3>2
  <2> QED BY <1>3, <2>3
<1>6. L[c] <= L[n]
  <2>1. 0 .. n \subseteq good
    <3> HIDE DEF good
    <3> QED BY <1>0, <1>4, <1>5, Climb
  <2>2. n \in good
    BY <1>0, <2>1
  <2> QED BY <1>0, <2>2
<1>7. L[c - 1] + t <= L[c] /\ L[c - 1] + t >= 1
  <2>1. L[c] = L[c - 1] + Len(ss[c]) /\ Len(ss[c]) \in Nat /\ L[c - 1] \in Nat
    BY <1>0, <1>2, <1>3
  <2> QED BY <2>1
<1>8. L[c - 1] + t \in 1 .. L[n]
  BY <1>0, <1>2, <1>6, <1>7
<1>9. Len(J(c - 1)) + t \in DOMAIN J(n)
  BY <1>0, <1>2, <1>8
<1> QED BY <1>9 DEF J, n

RunFields == {"runId", "task", "route", "live", "stages", "loop"}
LoopFields == DOMAIN LoopState("SUCCESS")
IsLoop(s) == DOMAIN s = LoopFields /\ s.steps \in Seq(StepStates)
IsRun(run) == DOMAIN run = RunFields /\ IsLoop(run.loop)

ReceiptFields == {"result", "turns"}
IsReceipt(x) == DOMAIN x = ReceiptFields /\ x.turns \in Seq(DOMAIN turns)
IsStored(x) ==
    /\ DOMAIN x = ReceiptFields
    /\ x.turns \in Seq(Range(x.turns)) /\ \A t \in DOMAIN x.turns : IsTurn(x.turns[t])

AllRuns(rs) == rs \in Seq(Range(rs)) /\ \A m \in DOMAIN rs : IsRun(rs[m])
RunsInv == AllRuns(runs)
OutboxInv == \A msg \in outbox : msg.steps \in Seq(StepStates)
ReceiptsInv ==
    /\ DOMAIN receipts = 1 .. MaxReloads + 1
    /\ \A c \in DOMAIN receipts : receipts[c] # None => IsReceipt(receipts[c])
StoredInv ==
    /\ DOMAIN stored = 1 .. MaxReloads + 1
    /\ \A c \in DOMAIN stored : stored[c] # None => IsStored(stored[c])

\* What the two properties rest on: runs and messages tell steps that are done,
\* and turns are calm wherever they are kept.
OutputInv ==
    RunsInv /\ OutboxInv /\ IsCard(card) /\ IsBoard(Board) /\ ReceiptsInv /\ StoredInv /\ reloads \in Nat

LEMMA LoopBegins ==
  ASSUME NEW status
  PROVE  IsLoop(LoopState(status))
BY DEF IsLoop, LoopFields, LoopState

LEMMA OutputStarts ==
  ASSUME OutputInit
  PROVE  OutputInv
<1>1. IsCard(FreshCard)
  <2>1. FreshCard.steps = <<>>
    BY DEF FreshCard
  <2> QED BY <2>1 DEF IsCard, CardFields
<1>2. IsBoard([turns |-> <<>>, shown |-> <<>>])
  BY DEF IsBoard
<1>3. RunsInv /\ OutboxInv
  BY DEF OutputInit, RunsInv, AllRuns, OutboxInv
<1>4. ReceiptsInv /\ StoredInv
  BY DEF OutputInit, ReceiptsInv, StoredInv
<1> QED BY <1>1, <1>2, <1>3, <1>4 DEF OutputInit, OutputInv, Board

\* Turns are only added, so that what numbers them stays true.
LEMMA ReceiptsStay ==
  ASSUME ReceiptsInv, UNCHANGED receipts, DOMAIN turns \subseteq DOMAIN turns'
  PROVE  ReceiptsInv'
<1>1. \A x : IsReceipt(x) => IsReceipt(x)'
  <2> SUFFICES ASSUME NEW x, IsReceipt(x)
               PROVE  IsReceipt(x)'
    OBVIOUS
  <2> DEFINE D == DOMAIN turns  E == DOMAIN turns'
  <2>1. x.turns \in Seq(D) /\ D \subseteq E
    BY DEF IsReceipt
  <2> HIDE DEF D, E
  <2>2. x.turns \in Seq(E)
    BY <2>1
  <2> QED BY <2>2 DEF IsReceipt, E
<1> QED BY <1>1 DEF ReceiptsInv

LEMMA CeasedIs ==
  ASSUME NEW run, IsRun(run)
  PROVE  IsRun(Ceased(run))
<1>1. DOMAIN run = RunFields
  BY DEF IsRun
<1>2. /\ DOMAIN Ceased(run) = RunFields /\ Ceased(run).loop = LoopState("IN_PROGRESS")
  BY <1>1 DEF Ceased, RunFields
<1> QED BY <1>2, LoopBegins DEF IsRun

\* A card goes to the workspace.
LEMMA DisplayHolds ==
  ASSUME OutputInv, NEW c, IsCard(c), Display(Updated(Board, c))
  PROVE  /\ IsBoard(Board)' /\ DOMAIN turns \subseteq DOMAIN turns'
         /\ Advances(Board, Board', c)
<1>1. Board = [turns |-> Board.turns, shown |-> Board.shown] /\ IsBoard(Board)
  BY DEF OutputInv, Board
<1> DEFINE w == Updated(Board, c)
<1>2. IsBoard(w) /\ Advances(Board, w, c) /\ w = [turns |-> w.turns, shown |-> w.shown]
  BY <1>1, UpdatedIs
<1>3. turns' = w.turns /\ shown' = w.shown
  BY DEF Display
<1> HIDE DEF w
<1>4. Board' = w
  BY <1>2, <1>3 DEF Board
<1>5. IsBoard(Board)'
  BY <1>2, <1>4 DEF IsBoard
<1>6. DOMAIN Board.turns \subseteq DOMAIN w.turns
  BY <1>2 DEF Advances
<1> QED BY <1>2, <1>3, <1>4, <1>5, <1>6 DEF Board

\* No turn whose run ended is shown at work after the step.
NoReturn ==
    \A t \in DOMAIN turns \cap DOMAIN turns' :
       turns[t].card.status \in Ended /\ reloads' = reloads => turns'[t].card.status # "RUNNING"

LEMMA AtRest == UNCHANGED turns => NoReturn
BY DEF NoReturn, Ended

LEMMA DisplayReturns ==
  ASSUME NEW c, Advances(Board, Board', c)
  PROVE  NoReturn
BY DEF Advances, Board, NoReturn

LEMMA CardMade ==
  ASSUME NEW c, IsCard(c), NEW d, DOMAIN d = CardFields, d.steps = c.steps \/ d.steps = <<>>
  PROVE  IsCard(d)
<1>1. <<>> \in Seq(StepStates)
  OBVIOUS
<1> QED BY <1>1 DEF IsCard

LEMMA StartTaskHolds ==
  ASSUME OutputInv, NEW task \in Wordings, StartTask(task)
  PROVE  OutputInv' /\ NoReturn
<1> DEFINE replaced == [card EXCEPT !.status = "STOPPED", !.superseded = TRUE]
           started == [card EXCEPT !.task = task, !.runId = runCounter + 1, !.status = "RUNNING",
                                   !.steps = <<>>, !.interaction = None, !.source = None, !.superseded = FALSE,
                                   !.wants = FALSE]
           before == IF card.status = "RUNNING" /\ card.task # task THEN Updated(Board, replaced) ELSE Board
           after == Updated(before, started)
           run == [runId |-> runCounter + 1, task |-> task, route |-> None, live |-> FALSE,
                   stages |-> 0, loop |-> LoopState("IN_PROGRESS")]
<1>1. /\ runs' = Append(runs, run) /\ card' = started /\ turns' = after.turns /\ shown' = after.shown
      /\ UNCHANGED <<outbox, receipts, stored, reloads>>
  BY DEF StartTask, Display
<1>2. IsCard(card) /\ DOMAIN card = CardFields
  BY DEF OutputInv, IsCard
<1>3. /\ DOMAIN replaced = CardFields /\ replaced.steps = card.steps /\ replaced.status = "STOPPED"
      /\ DOMAIN started = CardFields /\ started.steps = <<>> /\ started.status = "RUNNING"
  BY <1>2 DEF CardFields, FreshCard
<1>4. DOMAIN run = RunFields /\ run.loop = LoopState("IN_PROGRESS")
  BY DEF RunFields
<1> HIDE DEF replaced, started, run
<1>5. IsCard(replaced) /\ IsCard(started)
  BY <1>2, <1>3, CardMade
<1>6. Board = [turns |-> Board.turns, shown |-> Board.shown] /\ IsBoard(Board)
  BY DEF OutputInv, Board
<1>7. /\ IsBoard(Updated(Board, replaced)) /\ Advances(Board, Updated(Board, replaced), replaced)
      /\ Updated(Board, replaced) = [turns |-> Updated(Board, replaced).turns,
                                     shown |-> Updated(Board, replaced).shown]
  BY <1>5, <1>6, UpdatedIs
<1>8. /\ IsBoard(before) /\ before = [turns |-> before.turns, shown |-> before.shown]
      /\ DOMAIN Board.turns \subseteq DOMAIN before.turns
      /\ \A t \in DOMAIN Board.turns : Board.turns[t].card.status \in Ended =>
            before.turns[t].card.status \in Ended
  <2>1. replaced.status \in Ended
    BY <1>3 DEF Ended
  <2>2. CASE before = Board
    BY <1>6, <2>2
  <2>3. CASE before = Updated(Board, replaced)
    <3> HIDE DEF before
    <3> QED BY <1>7, <2>1, <2>3 DEF Advances
  <2> QED BY <2>2, <2>3
<1> HIDE DEF before
<1>9. /\ IsBoard(after) /\ Advances(before, after, started)
      /\ after = [turns |-> after.turns, shown |-> after.shown]
  BY <1>5, <1>8, UpdatedIs
<1> HIDE DEF after
<1>10. Board' = after
  BY <1>1, <1>9 DEF Board
<1>11. IsBoard(Board)'
  BY <1>9, <1>10 DEF IsBoard
<1>12. DOMAIN turns \subseteq DOMAIN turns'
  BY <1>1, <1>8, <1>9 DEF Advances, Board
<1>13. NoReturn
  BY <1>1, <1>8, <1>9 DEF Advances, Board, NoReturn
<1>14. IsRun(run)
  BY <1>4, LoopBegins DEF IsRun
<1>15. RunsInv'
  <2>1. runs \in Seq(Range(runs)) /\ \A m \in DOMAIN runs : IsRun(runs[m])
    BY DEF OutputInv, RunsInv, AllRuns
  <2>2. /\ runs' \in Seq(Range(runs')) /\ Len(runs) \in Nat
        /\ DOMAIN runs = 1 .. Len(runs) /\ DOMAIN runs' = 1 .. Len(runs) + 1
        /\ \A i \in DOMAIN runs : runs'[i] = runs[i]
        /\ runs'[Len(runs) + 1] = run
    BY <1>1, <2>1, Appended
  <2>3. \A i \in DOMAIN runs' : i \in DOMAIN runs \/ i = Len(runs) + 1
    BY <2>2
  <2> QED BY <1>14, <2>1, <2>2, <2>3 DEF RunsInv, AllRuns
<1>16. ReceiptsInv'
  BY <1>1, <1>12, ReceiptsStay DEF OutputInv
<1>17. OutboxInv' /\ StoredInv' /\ IsCard(card)' /\ reloads' \in Nat
  BY <1>1, <1>5 DEF OutputInv, OutboxInv, StoredInv, IsStored, IsCard
<1> QED BY <1>11, <1>13, <1>15, <1>16, <1>17 DEF OutputInv

LEMMA CeasedAll ==
  ASSUME RunsInv
  PROVE  AllRuns([m \in DOMAIN runs |-> Ceased(runs[m])])
<1> DEFINE rs == [m \in DOMAIN runs |-> Ceased(runs[m])]
<1>1. Len(runs) \in Nat /\ DOMAIN runs = 1 .. Len(runs) /\ \A m \in DOMAIN runs : IsRun(runs[m])
  BY DEF RunsInv, AllRuns
<1>2. DOMAIN rs = 1 .. Len(runs) /\ rs = [m \in 1 .. Len(runs) |-> rs[m]]
  BY <1>1
<1>3. \A m \in DOMAIN runs : rs[m] = Ceased(runs[m])
  OBVIOUS
<1> HIDE DEF rs
<1>4. rs \in Seq(Range(rs))
  BY <1>1, <1>2, Listed
<1>5. \A m \in DOMAIN rs : IsRun(rs[m])
  BY <1>1, <1>2, <1>3, CeasedIs
<1>6. AllRuns(rs)
  BY <1>4, <1>5 DEF AllRuns
<1> QED BY <1>6 DEF rs

LEMMA OneRun ==
  ASSUME NEW rs, AllRuns(rs), NEW m \in DOMAIN rs, NEW run, IsRun(run)
  PROVE  AllRuns([rs EXCEPT ![m] = run])
<1> DEFINE now == [rs EXCEPT ![m] = run]
<1>1. Len(rs) \in Nat /\ DOMAIN rs = 1 .. Len(rs) /\ \A k \in DOMAIN rs : IsRun(rs[k])
  BY DEF AllRuns
<1>2. /\ DOMAIN now = 1 .. Len(rs) /\ now = [k \in 1 .. Len(rs) |-> now[k]]
      /\ \A k \in DOMAIN rs : now[k] = IF k = m THEN run ELSE rs[k]
  BY <1>1
<1> HIDE DEF now
<1>3. now \in Seq(Range(now))
  BY <1>1, <1>2, Listed
<1>4. \A k \in DOMAIN now : IsRun(now[k])
  BY <1>1, <1>2
<1>5. AllRuns(now)
  BY <1>3, <1>4 DEF AllRuns
<1> QED BY <1>5 DEF now

LEMMA SilentlyEnds ==
  ASSUME OutputInv, StopTask \/ Watchdog
  PROVE  OutputInv' /\ NoReturn
<1>1. /\ \E status : card' = [card EXCEPT !.status = status]
      /\ Display(Updated(Board, card'))
      /\ UNCHANGED <<outbox, receipts, stored, reloads>>
      /\ runs' = [m \in DOMAIN runs |-> Ceased(runs[m])] \/ runs' = runs
  BY DEF StopTask, Watchdog
<1>2. IsCard(card')
  <2>1. IsCard(card) /\ DOMAIN card = CardFields
    BY DEF OutputInv, IsCard
  <2>2. DOMAIN card' = CardFields /\ card'.steps = card.steps
    BY <1>1, <2>1 DEF CardFields, FreshCard
  <2> QED BY <2>1, <2>2, CardMade
<1>3. IsBoard(Board)' /\ DOMAIN turns \subseteq DOMAIN turns' /\ Advances(Board, Board', card')
  BY <1>1, <1>2, DisplayHolds
<1>4. NoReturn
  BY <1>3, DisplayReturns
<1>5. RunsInv'
  <2>1. RunsInv
    BY DEF OutputInv
  <2> QED BY <1>1, <2>1, CeasedAll DEF RunsInv
<1>6. ReceiptsInv'
  BY <1>1, <1>3, ReceiptsStay DEF OutputInv
<1>7. OutboxInv' /\ StoredInv' /\ IsCard(card)' /\ reloads' \in Nat
  BY <1>1, <1>2 DEF OutputInv, OutboxInv, StoredInv, IsStored, IsCard
<1> QED BY <1>3, <1>4, <1>5, <1>6, <1>7 DEF OutputInv

LEMMA OpenReceiptHolds ==
  ASSUME OutputInv, NEW c \in DOMAIN receipts, OpenReceipt(c)
  PROVE  OutputInv' /\ NoReturn
<1>1. /\ receipts[c] # None /\ shown' = receipts[c].turns
      /\ UNCHANGED <<runs, outbox, card, turns, receipts, stored, reloads>>
  BY DEF OpenReceipt
<1>2. IsBoard(Board)'
  BY <1>1 DEF OutputInv, IsBoard, Board, ReceiptsInv, IsReceipt
<1>3. ReceiptsInv'
  BY <1>1, ReceiptsStay DEF OutputInv
<1>4. RunsInv' /\ OutboxInv' /\ StoredInv' /\ IsCard(card)' /\ reloads' \in Nat
  BY <1>1 DEF OutputInv, RunsInv, OutboxInv, StoredInv, IsStored
<1> QED BY <1>1, <1>2, <1>3, <1>4, AtRest DEF OutputInv

\* What was stored is a list of turns for each conversation; joined they are the
\* turns of the page, and the receipts find theirs among them.
LEMMA ReloadHolds ==
  ASSUME OutputInv, Reload
  PROVE  OutputInv' /\ NoReturn
<1> DEFINE old == [c \in DOMAIN stored |-> IF stored[c] = None THEN <<>> ELSE stored[c].turns]
           n == MaxReloads + 1
           all == Joined(old, Len(old))
           T == UNION {Range(old[c]) : c \in DOMAIN stored}
           place(c, t) == Len(Joined(old, c - 1)) + t
           list(c) == [t \in DOMAIN stored[c].turns |-> place(c, t)]
           receipt(c) == [stored[c] EXCEPT !.turns = list(c)]
<1>0. reloads \in Nat /\ MaxReloads \in Nat /\ StoredInv /\ DOMAIN stored = 1 .. n /\ n \in Nat
  BY OutputAssumption DEF OutputInv, StoredInv
<1>1. /\ card' = FreshCard /\ turns' = all /\ shown' = <<>> /\ reloads' = reloads + 1
      /\ UNCHANGED <<runs, outbox, stored>>
      /\ receipts' = [c \in DOMAIN stored |-> IF stored[c] = None THEN None ELSE receipt(c)]
  BY DEF Reload
<1>2. NoReturn
  BY <1>0, <1>1 DEF NoReturn
<1>3. ASSUME NEW c \in DOMAIN stored
      PROVE  /\ old[c] \in Seq(Range(old[c])) /\ \A t \in DOMAIN old[c] : IsTurn(old[c][t])
             /\ stored[c] # None => old[c] = stored[c].turns /\ DOMAIN stored[c] = ReceiptFields
  <2>1. old[c] = IF stored[c] = None THEN <<>> ELSE stored[c].turns
    OBVIOUS
  <2>2. stored[c] # None => IsStored(stored[c])
    BY <1>0 DEF StoredInv
  <2> HIDE DEF old
  <2>3. CASE stored[c] = None
    BY <2>1, <2>3
  <2>4. CASE stored[c] # None
    BY <2>1, <2>2, <2>4 DEF IsStored
  <2> QED BY <2>3, <2>4
<1>4. old \in Seq(Seq(T)) /\ Len(old) = n /\ \A x \in T : IsTurn(x)
  <2>1. DOMAIN old = 1 .. n /\ old = [c \in 1 .. n |-> old[c]]
    BY <1>0
  <2>2. \A c \in 1 .. n : Range(old[c]) \subseteq T
    BY <1>0
  <2>3. \A c \in 1 .. n : \A x \in Range(old[c]) : IsTurn(x)
    <3> TAKE c \in 1 .. n
    <3> TAKE x \in Range(old[c])
    <3> HIDE DEF old
    <3>1. PICK t \in DOMAIN old[c] : x = old[c][t]
      BY DEF Range
    <3> HIDE DEF n
    <3> QED BY <1>0, <1>3, <3>1
  <2>4. \A x \in T : IsTurn(x)
    BY <1>0, <2>3
  <2> HIDE DEF old, T, n
  <2>5. \A c \in 1 .. n : old[c] \in Seq(T)
    <3> TAKE c \in 1 .. n
    <3>1. old[c] \in Seq(Range(old[c])) /\ Range(old[c]) \subseteq T
      BY <1>0, <1>3, <2>2
    <3> QED BY <3>1
  <2>6. old \in Seq(Seq(T)) /\ Len(old) = n
    BY <1>0, <2>1, <2>5
  <2> QED BY <2>4, <2>6
<1> HIDE DEF old, T
<1>5. all \in Seq(T)
  <2>1. Len(old) \in 0 .. Len(old)
    BY <1>0, <1>4
  <2>2. \A i \in 0 .. Len(old) : Joined(old, i) \in Seq(T)
    BY <1>4, JoinedIs
  <2> QED BY <2>1, <2>2
<1>6. IsBoard(Board)'
  <2>1. all \in Seq(Range(all)) /\ Range(all) \subseteq T
    <3> HIDE DEF all
    <3> QED BY <1>5 DEF Range
  <2>2. \A t \in DOMAIN all : IsTurn(all[t])
    <3> HIDE DEF all
    <3> QED BY <1>4, <2>1 DEF Range
  <2> HIDE DEF all
  <2> QED BY <1>1, <2>1, <2>2 DEF IsBoard, Board
<1>7. ASSUME NEW c \in DOMAIN stored, stored[c] # None
      PROVE  DOMAIN receipt(c) = ReceiptFields /\ receipt(c).turns \in Seq(DOMAIN turns')
  <2>1. old[c] = stored[c].turns /\ DOMAIN stored[c] = ReceiptFields /\ c \in 1 .. Len(old)
    BY <1>0, <1>3, <1>4, <1>7
  <2>2. old[c] \in Seq(T) /\ Len(old[c]) \in Nat /\ DOMAIN old[c] = 1 .. Len(old[c])
    BY <1>4, <2>1
  <2>3. \A t \in 1 .. Len(old[c]) : place(c, t) \in DOMAIN all
    BY <1>4, <2>1, JoinedWithin
  <2> HIDE DEF all, place
  <2>4. list(c) \in Seq(DOMAIN all)
    <3> DEFINE D == DOMAIN all  l == list(c)  m == Len(old[c])
    <3>1. l = [t \in 1 .. m |-> place(c, t)] /\ m \in Nat
      BY <2>1, <2>2
    <3>2. \A t \in 1 .. m : place(c, t) \in D
      BY <2>3
    <3> HIDE DEF D, l, m
    <3>3. l \in Seq(D)
      BY <3>1, <3>2
    <3> QED BY <3>3 DEF D, l
  <2> DEFINE l == list(c)  r == receipt(c)
  <2>5. r = [stored[c] EXCEPT !.turns = l]
    OBVIOUS
  <2>6. DOMAIN r = ReceiptFields /\ r.turns = l
    <3> HIDE DEF l, r
    <3> QED BY <2>1, <2>5 DEF ReceiptFields
  <2>7. l \in Seq(DOMAIN turns')
    BY <1>1, <2>4
  <2> HIDE DEF l, r
  <2> QED BY <2>6, <2>7 DEF r
<1>8. ReceiptsInv'
  <2> HIDE DEF receipt
  <2>1. DOMAIN receipts' = 1 .. MaxReloads + 1
    BY <1>0, <1>1
  <2>2. \A c \in DOMAIN receipts' : receipts'[c] # None =>
           DOMAIN receipts'[c] = ReceiptFields /\ receipts'[c].turns \in Seq(DOMAIN turns')
    BY <1>1, <1>7
  <2> QED BY <2>1, <2>2 DEF ReceiptsInv, IsReceipt
<1>9. IsCard(FreshCard)
  <2>1. FreshCard.steps = <<>>
    BY DEF FreshCard
  <2> QED BY <2>1 DEF IsCard, CardFields
<1>10. /\ RunsInv' /\ OutboxInv' /\ StoredInv' /\ IsCard(card)' /\ reloads' \in Nat
  BY <1>0, <1>1, <1>9 DEF OutputInv, RunsInv, OutboxInv, StoredInv, IsStored, IsCard
<1> QED BY <1>2, <1>6, <1>8, <1>10 DEF OutputInv

\* What the worker does shows in its runs and in what it sends.
LEMMA WorkerHolds ==
  ASSUME OutputInv, RunsInv', OutboxInv', UNCHANGED <<card, turns, shown, receipts, stored, reloads>>
  PROVE  OutputInv' /\ NoReturn
<1>1. IsBoard(Board)'
  BY DEF OutputInv, IsBoard, Board
<1>2. ReceiptsInv'
  BY ReceiptsStay DEF OutputInv
<1> QED BY <1>1, <1>2, AtRest DEF OutputInv, StoredInv, IsStored, IsCard

LEMMA SentSteps ==
  ASSUME NEW m, NEW s, IsLoop(s), NEW x
  PROVE  /\ Message(m, s, x).steps \in Seq(StepStates)
         /\ Sent(m, s).steps \in Seq(StepStates)
BY DEF Message, Sent, IsLoop

LEMMA AcknowledgedSteps ==
  ASSUME NEW m, NEW status, NEW source
  PROVE  Acknowledged(m, status, source).steps \in Seq(StepStates)
<1> DEFINE s == [LoopState(status) EXCEPT !.source = source]
<1>1. s.steps = <<>>
  BY DEF LoopState
<1>2. Acknowledged(m, status, source).steps = s.steps
  BY DEF Acknowledged, Message
<1>3. <<>> \in Seq(StepStates)
  OBVIOUS
<1> HIDE DEF s
<1> QED BY <1>1, <1>2, <1>3

LEMMA ReceiveHolds ==
  ASSUME OutputInv, NEW m \in DOMAIN runs, Receive(m)
  PROVE  OutputInv' /\ NoReturn
<1> DEFINE over == [n \in DOMAIN runs |-> Ceased(runs[n])]
           chat == [runs[m] EXCEPT !.route = "chat", !.live = TRUE]
           refused == [over[m] EXCEPT !.route = "refused"]
           loop == [over[m] EXCEPT !.route = "loop", !.live = TRUE]
<1>1. UNCHANGED <<card, turns, shown, receipts, stored, reloads>>
  BY DEF Receive
<1>2. \/ /\ runs' = [runs EXCEPT ![m] = chat]
         /\ outbox' = outbox \cup {Acknowledged(m, "ANSWER", "CONVERSATION")}
      \/ /\ runs' = [over EXCEPT ![m] = refused]
         /\ outbox' = outbox \cup {Acknowledged(m, "NEEDS_CLARIFICATION", None),
                                   Sent(m, LoopState("NEEDS_CLARIFICATION"))}
      \/ /\ runs' = [over EXCEPT ![m] = loop]
         /\ outbox' = outbox \cup {Acknowledged(m, "RUNNING", None)}
  BY DEF Receive
<1>3. AllRuns(runs) /\ AllRuns(over) /\ m \in DOMAIN over
  BY CeasedAll DEF OutputInv, RunsInv
<1>4. IsRun(runs[m]) /\ IsRun(over[m])
  <2> HIDE DEF over
  <2> QED BY <1>3 DEF AllRuns
<1> HIDE DEF over
<1>5. IsRun(chat) /\ IsRun(refused) /\ IsRun(loop)
  BY <1>4 DEF IsRun, RunFields
<1> HIDE DEF chat, refused, loop
<1>6. RunsInv'
  <2>1. /\ AllRuns([runs EXCEPT ![m] = chat]) /\ AllRuns([over EXCEPT ![m] = refused])
        /\ AllRuns([over EXCEPT ![m] = loop])
    BY <1>3, <1>5, OneRun
  <2> QED BY <1>2, <2>1 DEF RunsInv
<1>7. OutboxInv'
  <2>1. IsLoop(LoopState("NEEDS_CLARIFICATION"))
    BY LoopBegins
  <2> DEFINE chats == Acknowledged(m, "ANSWER", "CONVERSATION")
             refuses == Acknowledged(m, "NEEDS_CLARIFICATION", None)
             explains == Sent(m, LoopState("NEEDS_CLARIFICATION"))
             begins == Acknowledged(m, "RUNNING", None)
  <2>2. /\ chats.steps \in Seq(StepStates) /\ refuses.steps \in Seq(StepStates)
        /\ begins.steps \in Seq(StepStates)
    BY AcknowledgedSteps
  <2>3. explains.steps \in Seq(StepStates)
    BY <2>1, SentSteps
  <2>4. \A msg \in outbox' : msg \in outbox \/ msg \in {chats, refuses, explains, begins}
    BY <1>2
  <2> HIDE DEF chats, refuses, explains, begins
  <2> QED BY <2>2, <2>3, <2>4 DEF OutputInv, OutboxInv
<1> QED BY <1>1, <1>6, <1>7, WorkerHolds

LEMMA ReportStageHolds ==
  ASSUME OutputInv, NEW m \in DOMAIN runs, ReportStage(m)
  PROVE  OutputInv' /\ NoReturn
<1>1. PICK stage \in Stages :
         LET steps == runs[m].loop.steps
             s == [runs[m].loop EXCEPT !.planning = stage.planning, !.status = stage.status,
                                       !.wants = stage.status = "NEEDS_USER_CONFIRMATION",
                                       !.steps = IF stage.outcome = None THEN steps ELSE Append(steps, stage.outcome)]
         IN  /\ runs' = [runs EXCEPT ![m].loop = s, ![m].stages = @ + 1]
             /\ outbox' = outbox \cup {Sent(m, s)}
  BY DEF ReportStage
<1> DEFINE steps == runs[m].loop.steps
           told == IF stage.outcome = None THEN steps ELSE Append(steps, stage.outcome)
           s == [runs[m].loop EXCEPT !.planning = stage.planning, !.status = stage.status,
                                     !.wants = stage.status = "NEEDS_USER_CONFIRMATION", !.steps = told]
           run == [runs[m] EXCEPT !.loop = s, !.stages = runs[m].stages + 1]
<1>2. IsRun(runs[m]) /\ AllRuns(runs)
  BY DEF OutputInv, RunsInv, AllRuns
<1>3. told \in Seq(StepStates)
  <2>1. steps \in Seq(StepStates)
    BY <1>2 DEF IsRun, IsLoop
  <2>2. stage.outcome # None => stage.outcome \in StepStates
    BY OutputAssumption
  <2> HIDE DEF steps
  <2> QED BY <2>1, <2>2
<1>4. /\ runs' = [runs EXCEPT ![m] = run] /\ outbox' = outbox \cup {Sent(m, s)}
  <2>1. runs' = [runs EXCEPT ![m].loop = s, ![m].stages = @ + 1] /\ outbox' = outbox \cup {Sent(m, s)}
    BY <1>1, Zenon
  <2>2. DOMAIN runs[m] = RunFields
    BY <1>2 DEF IsRun
  <2> HIDE DEF s
  <2> QED BY <2>1, <2>2 DEF RunFields
<1> HIDE DEF told
<1>5. IsLoop(s)
  BY <1>2, <1>3 DEF IsRun, IsLoop, LoopFields, LoopState
<1> HIDE DEF s
<1>6. IsRun(run)
  BY <1>2, <1>5 DEF IsRun, RunFields
<1> HIDE DEF run
<1>7. RunsInv'
  BY <1>2, <1>4, <1>6, OneRun DEF RunsInv
<1>8. OutboxInv'
  BY <1>4, <1>5, SentSteps DEF OutputInv, OutboxInv
<1>9. UNCHANGED <<card, turns, shown, receipts, stored, reloads>>
  BY DEF ReportStage
<1> QED BY <1>7, <1>8, <1>9, WorkerHolds

LEMMA RunEndsHold ==
  ASSUME OutputInv, NEW m \in DOMAIN runs, ReportEnd(m) \/ ChatAnswers(m)
  PROVE  OutputInv' /\ NoReturn
<1>1. /\ runs' = [runs EXCEPT ![m] = Ceased(runs[m])]
      /\ UNCHANGED <<card, turns, shown, receipts, stored, reloads>>
  BY DEF ReportEnd, ChatAnswers
<1>2. IsRun(runs[m]) /\ AllRuns(runs)
  BY DEF OutputInv, RunsInv, AllRuns
<1>3. PICK s : IsLoop(s) /\ outbox' = outbox \cup {Sent(m, s)}
  <2>1. CASE ReportEnd(m)
    <3>1. PICK end \in LoopEnds : outbox' = outbox \cup {Sent(m, [end EXCEPT !.steps = runs[m].loop.steps])}
      BY <2>1 DEF ReportEnd
    <3>2. DOMAIN end = LoopFields
      BY OutputAssumption DEF LoopFields
    <3>3. runs[m].loop.steps \in Seq(StepStates)
      BY <1>2 DEF IsRun, IsLoop
    <3> DEFINE s == [end EXCEPT !.steps = runs[m].loop.steps]
    <3>4. IsLoop(s)
      BY <3>2, <3>3 DEF IsLoop, LoopFields, LoopState
    <3> HIDE DEF s
    <3>5. outbox' = outbox \cup {Sent(m, s)}
      BY <3>1 DEF s
    <3> QED BY <3>4, <3>5
  <2>2. CASE ChatAnswers(m)
    <3> DEFINE answer(secret) == [LoopState("ANSWER") EXCEPT !.source = "CONVERSATION", !.answer = Body(m, secret)]
               none == [LoopState("PROVIDER_UNAVAILABLE") EXCEPT !.source = "CONVERSATION"]
    <3>1. \A secret : IsLoop(answer(secret))
      BY DEF IsLoop, LoopFields, LoopState
    <3>2. IsLoop(none)
      BY DEF IsLoop, LoopFields, LoopState
    <3>3. \/ \E secret \in BOOLEAN : outbox' = outbox \cup {Sent(m, answer(secret))}
          \/ outbox' = outbox \cup {Sent(m, none)}
      BY <2>2 DEF ChatAnswers
    <3> HIDE DEF answer, none
    <3> QED BY <3>1, <3>2, <3>3
  <2> QED BY <2>1, <2>2
<1>4. RunsInv'
  <2>1. IsRun(Ceased(runs[m]))
    BY <1>2, CeasedIs
  <2> QED BY <1>1, <1>2, <2>1, OneRun DEF RunsInv
<1>5. OutboxInv'
  BY <1>3, SentSteps DEF OutputInv, OutboxInv
<1> QED BY <1>1, <1>4, <1>5, WorkerHolds

LEMMA DeliverHolds ==
  ASSUME OutputInv, NEW msg \in outbox, Deliver(msg)
  PROVE  OutputInv' /\ NoReturn
<1> DEFINE list == IF shown = <<>> /\ receipts[conversationId] # None
                     THEN receipts[conversationId].turns ELSE shown
           receipt == [result |-> card'.status, turns |-> list]
           copy(c) == [receipts'[c] EXCEPT !.turns = [t \in DOMAIN receipts'[c].turns |-> turns[receipts'[c].turns[t]]]]
<1>1. /\ card' = CardFrom(msg) /\ Display(Updated(Board, card'))
      /\ receipts' = receipts \/ receipts' = [receipts EXCEPT ![conversationId] = receipt]
      /\ \/ stored' = stored
         \/ stored' = [c \in DOMAIN receipts |-> IF receipts'[c] = None THEN None ELSE copy(c)]
      /\ UNCHANGED <<runs, outbox, reloads>>
  BY DEF Deliver
<1>2. IsCard(card')
  <2>1. DOMAIN CardFrom(msg) = CardFields /\ CardFrom(msg).steps = msg.steps
    BY DEF CardFrom, CardFields, FreshCard
  <2>2. msg.steps \in Seq(StepStates)
    BY DEF OutputInv, OutboxInv
  <2> QED BY <1>1, <2>1, <2>2 DEF IsCard
<1>3. IsBoard(Board)' /\ DOMAIN turns \subseteq DOMAIN turns' /\ Advances(Board, Board', card')
  BY <1>1, <1>2, DisplayHolds
<1>4. NoReturn
  BY <1>3, DisplayReturns
<1> DEFINE D == DOMAIN turns  ReceiptOf(x) == DOMAIN x = ReceiptFields /\ x.turns \in Seq(D)
<1>5. /\ DOMAIN receipts' = 1 .. MaxReloads + 1 /\ DOMAIN receipts = 1 .. MaxReloads + 1
      /\ \A c \in DOMAIN receipts' : receipts'[c] # None => ReceiptOf(receipts'[c])
  <2>1. \A c \in DOMAIN receipts : receipts[c] # None => ReceiptOf(receipts[c])
    BY DEF OutputInv, ReceiptsInv, IsReceipt
  <2>2. DOMAIN receipts = 1 .. MaxReloads + 1
    BY DEF OutputInv, ReceiptsInv
  <2>3. CASE receipts' = receipts
    BY <2>1, <2>2, <2>3
  <2>4. CASE receipts' = [receipts EXCEPT ![conversationId] = receipt]
    <3>1. ASSUME conversationId \in DOMAIN receipts
          PROVE  list \in Seq(D)
      <4>1. shown \in Seq(D)
        BY DEF OutputInv, IsBoard, Board
      <4>2. receipts[conversationId] # None => receipts[conversationId].turns \in Seq(D)
        BY <2>1, <3>1
      <4> HIDE DEF D
      <4> QED BY <4>1, <4>2
    <3>2. DOMAIN receipt = ReceiptFields /\ receipt.turns = list
      BY DEF ReceiptFields
    <3> HIDE DEF list, receipt, D
    <3>3. conversationId \in DOMAIN receipts => ReceiptOf(receipt)
      BY <3>1, <3>2
    <3> HIDE DEF ReceiptOf
    <3> QED BY <2>1, <2>2, <2>4, <3>3
  <2> QED BY <1>1, <2>3, <2>4
<1>6. ReceiptsInv'
  <2> DEFINE E == DOMAIN turns'
  <2>1. \A x : x \in Seq(D) => x \in Seq(E)
    <3>1. D \subseteq E
      BY <1>3
    <3> HIDE DEF D, E
    <3> QED BY <3>1
  <2>2. \A c \in DOMAIN receipts' : receipts'[c] # None =>
           DOMAIN receipts'[c] = ReceiptFields /\ receipts'[c].turns \in Seq(E)
    <3> HIDE DEF D, E
    <3> QED BY <1>5, <2>1
  <2> QED BY <1>5, <2>2 DEF ReceiptsInv, IsReceipt
<1>7. StoredInv'
  <2>0. StoredInv
    BY DEF OutputInv
  <2>1. CASE stored' = stored
    BY <2>0, <2>1 DEF StoredInv, IsStored
  <2>2. CASE stored' = [c \in DOMAIN receipts |-> IF receipts'[c] = None THEN None ELSE copy(c)]
    <3>1. ASSUME NEW c \in DOMAIN receipts, receipts'[c] # None
          PROVE  IsStored(copy(c))
      <4> DEFINE r == receipts'[c]
                 l == [t \in DOMAIN r.turns |-> turns[r.turns[t]]]
                 x == [r EXCEPT !.turns = l]
                 n == Len(r.turns)
      <4>1. DOMAIN r = ReceiptFields /\ r.turns \in Seq(D)
        BY <1>5, <3>1
      <4>2. \A t \in D : IsTurn(turns[t])
        BY DEF OutputInv, IsBoard, Board
      <4> HIDE DEF D, r
      <4>3. n \in Nat /\ DOMAIN r.turns = 1 .. n /\ \A t \in DOMAIN r.turns : r.turns[t] \in D
        BY <4>1
      <4>4. DOMAIN l = 1 .. n /\ l = [t \in 1 .. n |-> l[t]] /\ \A t \in DOMAIN l : IsTurn(l[t])
        BY <4>2, <4>3
      <4> HIDE DEF l, n
      <4>5. l \in Seq(Range(l))
        BY <4>3, <4>4, Listed
      <4>6. DOMAIN x = ReceiptFields /\ x.turns = l
        BY <4>1 DEF ReceiptFields
      <4> HIDE DEF x
      <4>7. IsStored(x)
        BY <4>4, <4>5, <4>6 DEF IsStored
      <4> QED BY <4>7 DEF x, l, r
    <3> HIDE DEF copy
    <3>2. DOMAIN stored' = 1 .. MaxReloads + 1
      BY <1>5, <2>2
    <3>3. \A c \in DOMAIN stored' : stored'[c] # None => IsStored(stored'[c])
      BY <2>2, <3>1
    <3> QED BY <3>2, <3>3 DEF StoredInv, IsStored
  <2> QED BY <1>1, <2>1, <2>2
<1>8. RunsInv' /\ OutboxInv' /\ IsCard(card)' /\ reloads' \in Nat
  BY <1>1, <1>2 DEF OutputInv, RunsInv, OutboxInv, IsCard
<1> QED BY <1>3, <1>4, <1>6, <1>7, <1>8 DEF OutputInv

LEMMA OutputStep ==
  ASSUME OutputInv, [OutputNext]_outputVars
  PROVE  OutputInv' /\ NoReturn
<1>1. ASSUME NEW msg \in outbox, GiveUp(msg)
      PROVE  OutputInv' /\ NoReturn
  <2>1. /\ outbox' = outbox \ {msg} /\ UNCHANGED <<card, turns, shown, receipts, stored, reloads>>
        /\ runs' = runs
    BY <1>1 DEF GiveUp
  <2>2. OutboxInv' /\ RunsInv'
    BY <2>1 DEF OutputInv, OutboxInv, RunsInv
  <2> QED BY <2>1, <2>2, WorkerHolds
<1>2. CASE UNCHANGED outputVars
  <2>1. UNCHANGED <<card, turns, shown, receipts, stored, reloads, runs, outbox>>
    BY <1>2 DEF outputVars
  <2>2. OutboxInv' /\ RunsInv'
    BY <2>1 DEF OutputInv, OutboxInv, RunsInv
  <2> QED BY <2>1, <2>2, WorkerHolds
<1> QED
  BY <1>1, <1>2, StartTaskHolds, SilentlyEnds, OpenReceiptHolds, ReloadHolds, ReceiveHolds, ReportStageHolds,
     RunEndsHold, DeliverHolds DEF OutputNext

\* One entry of a turn at most is under way and none of a run that ended, however
\* reports are lost, repeated or overtaken, and whatever is stored and read again.
THEOREM LogsSettle == OutputSpec => []SettledLog
<1>1. OutputInit => OutputInv
  BY OutputStarts
<1>2. OutputInv /\ [OutputNext]_outputVars => OutputInv'
  BY OutputStep
<1>3. OutputInv => SettledLog
  BY DEF OutputInv, IsBoard, Board, IsTurn, Calm, Actives, SettledLog
<1> QED BY <1>1, <1>2, <1>3, PTL DEF OutputSpec

\* A turn that showed the end of its run is not shown at work again.
THEOREM EndsStayEnds == OutputSpec => NeverWorksAgain
<1>1. OutputInit => OutputInv
  BY OutputStarts
<1>2. OutputInv /\ [OutputNext]_outputVars => OutputInv'
  BY OutputStep
<1>3. OutputInv /\ [OutputNext]_outputVars =>
        [\A t \in DOMAIN turns \cap DOMAIN turns' :
           turns[t].card.status \in Ended /\ reloads' = reloads => turns'[t].card.status # "RUNNING"]_outputVars
  BY OutputStep DEF NoReturn
<1> QED BY <1>1, <1>2, <1>3, PTL DEF OutputSpec, NeverWorksAgain

-----------------------------------------------------------------------------
(* The words of a task (TaskDecomposer).                                   *)

\* s can be read in w, word by word in the order of w, from place a to place b.
StandsAt(s, w, a, b, place) ==
    /\ place \in [1 .. Len(s) -> a .. b]
    /\ \A k \in 1 .. Len(s) :
          s[k] = w[place[k]] /\ \A j \in 1 .. k - 1 : place[j] < place[k]

Between(s, w, a, b) == \E place : StandsAt(s, w, a, b, place)

\* Between stands for sequences of words that are known to be sequences.
FoundIn(w, a, b) == {s \in Seq(STRING) : Between(s, w, a, b)}

LEMMA NothingFound ==
  ASSUME NEW w, NEW a \in Nat, NEW b \in Nat
  PROVE  <<>> \in FoundIn(w, a, b)
<1>1. StandsAt(<<>>, w, a, b, [k \in 1 .. 0 |-> a])
  BY DEF StandsAt
<1> QED BY <1>1 DEF FoundIn, Between

\* A wider place.
LEMMA FoundWithin ==
  ASSUME NEW w, NEW a \in Nat, NEW b \in Nat, NEW c \in Nat, NEW d \in Nat, c <= a, b <= d,
         NEW s \in FoundIn(w, a, b)
  PROVE  s \in FoundIn(w, c, d)
<1>1. PICK place : StandsAt(s, w, a, b, place)
  BY DEF FoundIn, Between
<1>2. StandsAt(s, w, c, d, place)
  <2>1. \A k \in 1 .. Len(s) : place[k] \in c .. d
    BY <1>1 DEF StandsAt
  <2> QED BY <1>1, <2>1 DEF StandsAt
<1> QED BY <1>2 DEF FoundIn, Between

\* A part of what is found.
LEMMA PartFound ==
  ASSUME NEW w, NEW a \in Nat, NEW b \in Nat, NEW s \in FoundIn(w, a, b),
         NEW c \in Nat \ {0}, NEW d \in Int, d <= Len(s)
  PROVE  SubSeq(s, c, d) \in FoundIn(w, a, b)
<1> DEFINE t == SubSeq(s, c, d)
<1>0. s \in Seq(STRING) /\ Len(s) \in Nat
  BY DEF FoundIn
<1>1. PICK place : StandsAt(s, w, a, b, place)
  BY DEF FoundIn, Between
<1>2. CASE c > d
  <2>1. t = <<>>
    BY <1>0, <1>2
  <2> QED BY <2>1, NothingFound
<1>3. CASE c <= d
  <2> DEFINE there == [k \in 1 .. d - c + 1 |-> place[k + c - 1]]
  <2>1. t \in Seq(STRING) /\ Len(t) = d - c + 1 /\ \A k \in 1 .. d - c + 1 : t[k] = s[k + c - 1]
    BY <1>0, <1>3
  <2>2. \A k \in 1 .. d - c + 1 : k + c - 1 \in 1 .. Len(s)
    BY <1>0, <1>3
  <2>3. there \in [1 .. Len(t) -> a .. b]
    BY <1>1, <2>1, <2>2 DEF StandsAt
  <2>4. ASSUME NEW k \in 1 .. Len(t)
        PROVE  t[k] = w[there[k]] /\ \A j \in 1 .. k - 1 : there[j] < there[k]
    <3>1. k \in 1 .. d - c + 1 /\ \A j \in 1 .. k - 1 : j \in 1 .. d - c + 1 /\ j + c - 1 \in 1 .. (k + c - 1) - 1
      BY <1>3, <2>1
    <3> QED BY <1>1, <2>1, <2>2, <3>1 DEF StandsAt
  <2> HIDE DEF t, there
  <2>5. StandsAt(t, w, a, b, there)
    BY <2>3, <2>4 DEF StandsAt
  <2> QED BY <2>1, <2>5 DEF FoundIn, Between, t
<1> QED BY <1>0, <1>2, <1>3

\* A stretch of the text itself.
LEMMA StretchFound ==
  ASSUME NEW w \in Seq(STRING), NEW a \in Nat \ {0}, NEW b \in Nat, b <= Len(w)
  PROVE  SubSeq(w, a, b) \in FoundIn(w, a, b)
<1> DEFINE t == SubSeq(w, a, b)
<1>1. CASE a > b
  <2>1. t = <<>>
    BY <1>1
  <2> QED BY <2>1, NothingFound
<1>2. CASE a <= b
  <2> DEFINE there == [k \in 1 .. b - a + 1 |-> k + a - 1]
  <2>1. t \in Seq(STRING) /\ Len(t) = b - a + 1 /\ \A k \in 1 .. b - a + 1 : t[k] = w[k + a - 1]
    BY <1>2
  <2>2. there \in [1 .. Len(t) -> a .. b]
    BY <1>2, <2>1
  <2>3. ASSUME NEW k \in 1 .. Len(t)
        PROVE  t[k] = w[there[k]] /\ \A j \in 1 .. k - 1 : there[j] < there[k]
    BY <1>2, <2>1
  <2> HIDE DEF t, there
  <2>4. StandsAt(t, w, a, b, there)
    BY <2>2, <2>3 DEF StandsAt
  <2> QED BY <2>1, <2>4 DEF FoundIn, Between, t
<1> QED BY <1>1, <1>2

\* One after the other.
LEMMA BothFound ==
  ASSUME NEW w, NEW a \in Nat, NEW b \in Nat, NEW c \in Nat, NEW d \in Nat, a <= c, b < c, b <= d,
         NEW s \in FoundIn(w, a, b), NEW t \in FoundIn(w, c, d)
  PROVE  s \o t \in FoundIn(w, a, d)
<1> DEFINE m == Len(s)  n == Len(t)
<1>0. s \in Seq(STRING) /\ t \in Seq(STRING) /\ m \in Nat /\ n \in Nat
  BY DEF FoundIn
<1>1. PICK p : StandsAt(s, w, a, b, p)
  BY DEF FoundIn, Between
<1>2. PICK q : StandsAt(t, w, c, d, q)
  BY DEF FoundIn, Between
<1> DEFINE there == [k \in 1 .. m + n |-> IF k <= m THEN p[k] ELSE q[k - m]]
<1>3. /\ s \o t \in Seq(STRING) /\ Len(s \o t) = m + n
      /\ \A k \in 1 .. m + n : (s \o t)[k] = IF k <= m THEN s[k] ELSE t[k - m]
  BY <1>0
<1>4. \A k \in 1 .. m + n : (k <= m => k \in 1 .. m) /\ (~(k <= m) => k - m \in 1 .. n)
  BY <1>0
<1> HIDE DEF m, n
<1>5. there \in [1 .. m + n -> a .. d]
  <2>1. \A k \in 1 .. m : p[k] \in a .. d
    BY <1>1 DEF StandsAt, m
  <2>2. \A k \in 1 .. n : q[k] \in a .. d
    BY <1>2 DEF StandsAt, n
  <2> QED BY <1>4, <2>1, <2>2
<1>6. ASSUME NEW k \in 1 .. m + n
      PROVE  (s \o t)[k] = w[there[k]] /\ \A j \in 1 .. k - 1 : there[j] < there[k]
  <2>1. CASE k <= m
    <3>1. k \in 1 .. m /\ \A j \in 1 .. k - 1 : j \in 1 .. m + n /\ j <= m
      BY <1>0, <1>4, <2>1
    <3> QED BY <1>1, <1>3, <2>1, <3>1 DEF StandsAt, m
  <2>2. CASE ~(k <= m)
    <3>1. k - m \in 1 .. n /\ \A j \in 1 .. k - 1 : j \in 1 .. m + n
      BY <1>0, <1>4, <2>2
    <3>2. ASSUME NEW j \in 1 .. k - 1
          PROVE  there[j] < there[k]
      <4>1. there[k] = q[k - m] /\ q[k - m] \in c .. d
        BY <1>2, <2>2, <3>1 DEF StandsAt, n
      <4>2. CASE j <= m
        <5>1. there[j] = p[j] /\ p[j] \in a .. b
          BY <1>1, <1>4, <3>1, <4>2 DEF StandsAt, m
        <5> QED BY <4>1, <5>1
      <4>3. CASE ~(j <= m)
        <5>1. there[j] = q[j - m] /\ j - m \in 1 .. (k - m) - 1
          BY <1>0, <1>4, <3>1, <4>3
        <5> QED BY <1>2, <3>1, <4>1, <5>1 DEF StandsAt, n
      <4> QED BY <4>2, <4>3
    <3>3. t[k - m] = w[q[k - m]]
      BY <1>2, <3>1 DEF StandsAt, n
    <3> QED BY <1>3, <2>2, <3>2, <3>3
  <2> QED BY <2>1, <2>2
<1> HIDE DEF there
<1>7. StandsAt(s \o t, w, a, d, there)
  BY <1>3, <1>5, <1>6 DEF StandsAt
<1> QED BY <1>3, <1>7 DEF FoundIn, Between

\* A word of the text.
LEMMA WordFound ==
  ASSUME NEW w, NEW c \in Nat, w[c] \in STRING
  PROVE  <<w[c]>> \in FoundIn(w, c, c)
<1>1. StandsAt(<<w[c]>>, w, c, c, [k \in 1 .. 1 |-> c])
  <2>1. Len(<<w[c]>>) = 1 /\ <<w[c]>>[1] = w[c]
    OBVIOUS
  <2>2. [k \in 1 .. 1 |-> c] \in [1 .. 1 -> c .. c]
    OBVIOUS
  <2>3. \A k \in 1 .. 1 : k = 1 /\ [j \in 1 .. 1 |-> c][k] = c /\ \A j \in 1 .. k - 1 : FALSE
    OBVIOUS
  <2> QED BY <2>1, <2>2, <2>3 DEF StandsAt
<1>2. <<w[c]>> \in Seq(STRING)
  OBVIOUS
<1> QED BY <1>1, <1>2 DEF FoundIn, Between

\* What is kept of the words behind a terminator.
LEMMA ContinuationFound ==
  ASSUME NEW w \in Seq(STRING), NEW a \in Nat \ {0}, NEW b \in Nat, b <= Len(w)
  PROVE  Continuation(SubSeq(w, a, b)) \in FoundIn(w, a, b)
<1> DEFINE s == SubSeq(w, a, b)
           n == Len(s)
           X == Seq(STRING)
           limit(i) == IF s[i] \in Terminators THEN 3 ELSE 4
           next(i, x) == IF Len(x) < limit(i) THEN Append(x, s[i]) ELSE x
           step == [i \in 1 .. n |-> [x \in X |-> next(i, x)]]
           Keeps(f) == f = [i \in 0 .. n |-> IF i = 0 THEN <<>> ELSE next(i, f[i - 1])]
           kept == CHOOSE f : Keeps(f)
<1>0. s \in Seq(STRING) /\ n \in Nat /\ <<>> \in X /\ \A i \in 1 .. n : i + a - 1 <= b /\ s[i] = w[i + a - 1] /\ s[i] \in STRING
  OBVIOUS
<1>1. ASSUME NEW i \in 1 .. n, NEW x \in X
      PROVE  next(i, x) \in X
  <2>1. s[i] \in STRING
    BY <1>0
  <2>2. Append(x, s[i]) \in X
    <3> HIDE DEF s
    <3> QED BY <2>1
  <2> HIDE DEF X, limit
  <2> QED BY <2>2
<1> HIDE DEF limit
<1>2. step \in Steps(n, X)
  <2> HIDE DEF next, X, n
  <2> QED BY <1>1 DEF Steps
<1>3. PICK f : Taken(f, n, X, <<>>, step)
  <2> HIDE DEF step, X, n
  <2> QED BY <1>0, <1>2, Recursed
<1>4. ASSUME NEW i \in 1 .. n
      PROVE  f[i] = next(i, f[i - 1])
  <2>1. f[i - 1] \in X
    <3>1. i - 1 \in 0 .. n
      BY <1>0
    <3> HIDE DEF X, step, n
    <3> QED BY <1>3, <3>1 DEF Taken
  <2>2. \A x \in X : step[i][x] = next(i, x)
    <3> HIDE DEF next, X, n
    <3> QED OBVIOUS
  <2> HIDE DEF step, next, X, n
  <2> QED BY <1>3, <2>1, <2>2 DEF Taken
<1>5. Keeps(f)
  <2> HIDE DEF next, X, n, step
  <2> QED BY <1>0, <1>3, <1>4 DEF Taken
<1>6. Keeps(kept)
  <2> HIDE DEF Keeps
  <2> QED BY <1>5
<1>7. Continuation(s) = kept[n]
  BY Zenon DEF Continuation, kept, Keeps, next, limit, n
<1> HIDE DEF kept
<1>8. kept[0] = <<>> /\ \A i \in 1 .. n : kept[i] = next(i, kept[i - 1])
  <2> HIDE DEF next, n
  <2> QED BY <1>0, <1>6
<1> DEFINE good == {i \in 0 .. n : kept[i] \in FoundIn(w, a, i + a - 1)}
<1>9. 0 \in good
  <2>1. <<>> \in FoundIn(w, a, a - 1)
    BY NothingFound
  <2> HIDE DEF n
  <2> QED BY <1>0, <1>8, <2>1
<1>10. ASSUME NEW i \in 1 .. n, i - 1 \in good
       PROVE  i \in good
  <2> DEFINE c == i + a - 1
  <2>1. c \in Nat \ {0} /\ a <= c /\ c <= b /\ c <= Len(w) /\ (i - 1) + a - 1 = c - 1 /\ s[i] = w[c] /\ Len(w) \in Nat
    BY <1>0
  <2>2. kept[i - 1] \in FoundIn(w, a, c - 1)
    BY <1>10, <2>1
  <2>3. s[i] \in STRING
    BY <1>0
  <2> HIDE DEF c, s, n
  <2>4. <<s[i]>> \in FoundIn(w, c, c)
    BY <2>1, <2>3, WordFound
  <2>5. kept[i - 1] \o <<s[i]>> \in FoundIn(w, a, c)
    BY <2>1, <2>2, <2>4, BothFound
  <2>6. kept[i - 1] \in FoundIn(w, a, c)
    BY <2>1, <2>2, FoundWithin
  <2>7. Append(kept[i - 1], s[i]) = kept[i - 1] \o <<s[i]>>
    <3>1. kept[i - 1] \in Seq(STRING)
      BY <2>2 DEF FoundIn
    <3> QED BY <2>3, <3>1
  <2>8. kept[i] \in FoundIn(w, a, c)
    BY <1>8, <2>5, <2>6, <2>7
  <2>9. i \in 0 .. n
    BY <1>0
  <2> QED BY <2>8, <2>9 DEF c
<1>11. n \in good
  <2> HIDE DEF good
  <2>1. 0 .. n \subseteq good
    BY <1>0, <1>9, <1>10, Climb
  <2> HIDE DEF n
  <2> QED BY <1>0, <2>1
<1>12. CASE a <= b
  <2>1. n + a - 1 = b
    BY <1>12
  <2> HIDE DEF n, s
  <2> QED BY <1>7, <1>11, <2>1 DEF s
<1>13. CASE a > b
  <2>1. n = 0
    BY <1>13
  <2> HIDE DEF n, s
  <2> QED BY <1>7, <1>8, <2>1, NothingFound DEF s
<1> QED BY <1>12, <1>13

\* The least and the largest of some numbers.
LEMMA MinIs ==
  ASSUME NEW T, T \subseteq Nat, T # {}
  PROVE  Min(T) \in T /\ \A y \in T : Min(T) <= y
BY Smallest DEF Min

LEMMA MaxIs ==
  ASSUME NEW n \in Nat, NEW T, T \subseteq 0 .. n, T # {}
  PROVE  Max(T) \in T /\ \A y \in T : y <= Max(T)
<1> DEFINE mirrored == {x \in 0 .. n : n - x \in T}
<1>1. mirrored # {}
  <2>1. PICK y : y \in T
    OBVIOUS
  <2>2. n - y \in 0 .. n /\ n - (n - y) = y
    BY <2>1
  <2>3. n - y \in mirrored
    BY <2>1, <2>2
  <2> QED BY <2>3
<1>2. PICK x \in mirrored : \A y \in mirrored : x <= y
  <2>1. mirrored \subseteq Nat
    OBVIOUS
  <2> HIDE DEF mirrored
  <2> QED BY <1>1, <2>1, Smallest
<1>3. n - x \in T
  OBVIOUS
<1>4. ASSUME NEW y \in T
      PROVE  y <= n - x
  <2>1. y \in 0 .. n /\ n - y \in 0 .. n /\ n - (n - y) = y
    OBVIOUS
  <2>2. n - y \in mirrored
    BY <2>1
  <2>3. x \in 0 .. n /\ x <= n - y
    BY <1>2, <2>2
  <2> QED BY <2>1, <2>3
<1> HIDE DEF mirrored
<1>5. \E z \in T : \A y \in T : y <= z
  BY <1>3, <1>4
<1> QED BY <1>5 DEF Max

\* A part of a part.
LEMMA PartOfPart ==
  ASSUME NEW T, NEW s \in Seq(T), NEW a \in Nat \ {0}, NEW b \in Nat, b <= Len(s),
         NEW c \in Nat \ {0}, NEW d \in Nat, d <= Len(SubSeq(s, a, b))
  PROVE  SubSeq(SubSeq(s, a, b), c, d) = SubSeq(s, a + c - 1, a + d - 1)
<1> DEFINE t == SubSeq(s, a, b)
<1>1. CASE c > d
  BY <1>1
<1>2. CASE c <= d
  <2>1. a <= b /\ d <= b - a + 1 /\ Len(t) = b - a + 1 /\ t \in Seq(T) /\ \A k \in 1 .. b - a + 1 : t[k] = s[k + a - 1]
    BY <1>2
  <2>2. a + c - 1 \in Nat \ {0} /\ a + d - 1 \in Nat /\ a + d - 1 <= Len(s) /\ a + c - 1 <= a + d - 1
    BY <1>2, <2>1
  <2> DEFINE x == SubSeq(t, c, d)
             y == SubSeq(s, a + c - 1, a + d - 1)
  <2>3. x \in Seq(T) /\ Len(x) = d - c + 1 /\ \A k \in 1 .. d - c + 1 : x[k] = t[k + c - 1]
    <3>1. c \in 1 .. d /\ d \in 1 .. Len(t) /\ Len(t) \in Nat
      BY <1>2, <2>1
    <3> HIDE DEF t
    <3> QED BY <2>1, <3>1
  <2>4. y \in Seq(T) /\ Len(y) = d - c + 1 /\ \A k \in 1 .. d - c + 1 : y[k] = s[k + (a + c - 1) - 1]
    BY <1>2, <2>2
  <2>5. \A k \in 1 .. d - c + 1 : k + c - 1 \in 1 .. b - a + 1 /\ (k + c - 1) + a - 1 = k + (a + c - 1) - 1
    BY <1>2, <2>1
  <2>6. \A k \in 1 .. d - c + 1 : x[k] = y[k]
    <3> HIDE DEF t, x, y
    <3> QED BY <2>1, <2>3, <2>4, <2>5
  <2>7. x = y
    <3> HIDE DEF t, x, y
    <3> QED BY <2>3, <2>4, <2>6
  <2> QED BY <2>7
<1> QED BY <1>1, <1>2

\* What is read behind a verb: the slot, and behind it what continues it.
LEMMA HeadFound ==
  ASSUME NEW w \in Seq(STRING), NEW start \in 1 .. Len(w) + 1
  PROVE  LET head == ResolveHead(w, start)
         IN  /\ head.slot \in FoundIn(w, start, Len(w))
             /\ head.trimmed \in FoundIn(w, start, Len(w))
             /\ Len(head.afterBoundary) \in Nat
             /\ \A extra \in 0 .. Len(head.afterBoundary) :
                   head.slot \o SubSeq(head.afterBoundary, 1, extra) \in FoundIn(w, start, Len(w))
<1> DEFINE n == Len(w)
           e == Min({n, start + SlotWindow - 1})
           window == Window(w, start)
           size == Len(window)
           cut == Boundary(window)
           first == Min({i \in 1 .. cut : i = cut \/ window[i] \notin Determiners})
           slot == SubSeq(window, first, cut - 1)
           last == Max({i \in 0 .. Len(slot) : i = 0 \/ slot[i] \notin TrailingNouns})
           trimmed == SubSeq(slot, 1, last)
           rest == SubSeq(window, cut, size)
           after == Continuation(rest)
           m == start + cut - 2
<1>0. n \in Nat /\ start \in Nat \ {0} /\ start <= n + 1
  OBVIOUS
<1>1. e \in Nat /\ e <= n /\ start <= e + 1
  <2>1. start + SlotWindow - 1 \in Nat /\ start <= start + SlotWindow - 1 + 1
    BY <1>0 DEF SlotWindow
  <2>2. e \in {n, start + SlotWindow - 1} /\ e <= n
    <3> HIDE DEF n
    <3> QED BY <1>0, <2>1, MinIs
  <2> HIDE DEF e, n
  <2> QED BY <1>0, <2>1, <2>2
<1>2. window = SubSeq(w, start, e)
  BY DEF Window
<1> HIDE DEF e
<1>3. window \in Seq(STRING) /\ size \in Nat /\ size = e - start + 1
  <2> HIDE DEF window
  <2> QED BY <1>0, <1>1, <1>2
<1> HIDE DEF window
<1>4. cut \in 1 .. size + 1
  <2> DEFINE C == {i \in 1 .. size : window[i] \in Terminators} \cup {size + 1}
  <2>1. C \subseteq 1 .. size + 1 /\ C # {}
    BY <1>3
  <2>2. cut = Min(C)
    BY DEF Boundary
  <2> HIDE DEF C, cut
  <2>3. C \subseteq Nat
    BY <2>1
  <2> QED BY <2>1, <2>2, <2>3, MinIs
<1> HIDE DEF cut, size, n
<1>5. first \in 1 .. cut
  <2> DEFINE C == {i \in 1 .. cut : i = cut \/ window[i] \notin Determiners}
  <2>1. cut \in C /\ C \subseteq 1 .. cut
    BY <1>4
  <2> HIDE DEF C
  <2>2. C \subseteq Nat /\ C # {}
    BY <2>1
  <2>3. Min(C) \in 1 .. cut
    BY <2>1, <2>2, MinIs
  <2> QED BY <2>3 DEF C
<1> HIDE DEF first
<1>6. m \in Nat /\ start <= m + 1 /\ m <= e /\ m <= n
  BY <1>0, <1>1, <1>3, <1>4
<1>7. slot \in FoundIn(w, start, m)
  <2> DEFINE f == start + first - 1
  <2>1. slot = SubSeq(w, f, start + (cut - 1) - 1)
    BY <1>0, <1>1, <1>2, <1>3, <1>4, <1>5, PartOfPart DEF n, size
  <2>2. start + (cut - 1) - 1 = m /\ f \in Nat \ {0} /\ start <= f
    BY <1>0, <1>4, <1>5
  <2> HIDE DEF m, f, slot
  <2>3. slot \in FoundIn(w, f, m)
    BY <1>6, <2>1, <2>2, StretchFound DEF n
  <2> QED BY <1>0, <1>6, <2>2, <2>3, FoundWithin
<1>8. after \in FoundIn(w, m + 1, e)
  <2>1. rest = SubSeq(w, start + cut - 1, start + size - 1)
    BY <1>0, <1>1, <1>2, <1>3, <1>4, PartOfPart DEF n, size
  <2>2. start + cut - 1 = m + 1 /\ start + size - 1 = e
    BY <1>0, <1>1, <1>3, <1>4
  <2>3. m + 1 \in Nat \ {0}
    BY <1>6
  <2> HIDE DEF rest, m
  <2> QED BY <1>1, <2>1, <2>2, <2>3, ContinuationFound DEF n
<1> HIDE DEF m, slot, after
<1>9. slot \in FoundIn(w, start, n)
  BY <1>0, <1>6, <1>7, FoundWithin
<1>10. slot \in Seq(STRING) /\ Len(slot) \in Nat /\ after \in Seq(STRING) /\ Len(after) \in Nat
  BY <1>7, <1>8 DEF FoundIn
<1>11. trimmed \in FoundIn(w, start, n)
  <2> DEFINE C == {i \in 0 .. Len(slot) : i = 0 \/ slot[i] \notin TrailingNouns}
  <2>1. 0 \in C /\ C \subseteq 0 .. Len(slot)
    BY <1>10
  <2> HIDE DEF C
  <2>2. Max(C) \in 0 .. Len(slot)
    BY <1>10, <2>1, MaxIs
  <2>3. last \in 0 .. Len(slot)
    BY <2>2 DEF C
  <2> HIDE DEF last
  <2> QED BY <1>0, <1>9, <1>10, <2>3, PartFound
<1>12. ASSUME NEW extra \in 0 .. Len(after)
       PROVE  slot \o SubSeq(after, 1, extra) \in FoundIn(w, start, n)
  <2>1. SubSeq(after, 1, extra) \in FoundIn(w, m + 1, e)
    BY <1>1, <1>6, <1>8, <1>10, PartFound
  <2>2. SubSeq(after, 1, extra) \in FoundIn(w, m + 1, n)
    BY <1>0, <1>1, <1>6, <2>1, FoundWithin
  <2> QED BY <1>0, <1>6, <1>7, <2>2, BothFound
<1>13. ResolveHead(w, start) = [slot |-> slot, trimmed |-> trimmed, afterBoundary |-> after]
  BY DEF ResolveHead, slot, after, rest, first, cut, size, window
<1> HIDE DEF trimmed
<1> QED BY <1>9, <1>10, <1>11, <1>12, <1>13 DEF n

\* What may name a page is read behind the verb.
LEMMA EndsFound ==
  ASSUME NEW w, NEW a \in Nat, NEW b \in Nat, NEW s \in FoundIn(w, a, b), NEW least \in 1 .. 2
  PROVE  Ends(s, least) \in Seq(FoundIn(w, a, b))
<1> DEFINE l == Len(s)
           longest == Min({l, 3})
           F == FoundIn(w, a, b)
           n == longest - least + 1
           e(k) == SubSeq(s, l - longest + k, l)
<1>1. l \in Nat
  BY DEF FoundIn
<1>2. longest \in Nat /\ longest <= l
  <2> HIDE DEF l
  <2> QED BY <1>1, MinIs
<1> HIDE DEF longest
<1>3. ASSUME NEW k \in 1 .. n
      PROVE  e(k) \in F
  <2>1. l - longest + k \in Nat \ {0} /\ l \in Int /\ l <= Len(s)
    BY <1>1, <1>2
  <2> HIDE DEF F
  <2> QED BY <2>1, PartFound DEF F
<1>4. Ends(s, least) = [k \in 1 .. n |-> e(k)]
  BY DEF Ends, longest
<1> HIDE DEF F, e, l
<1>5. ASSUME n >= 0
      PROVE  Ends(s, least) \in Seq(F)
  <2>1. n \in Nat
    BY <1>2, <1>5
  <2>2. [k \in 1 .. n |-> e(k)] \in Seq(F)
    <3> HIDE DEF n
    <3> QED BY <1>3, <2>1
  <2> QED BY <1>4, <2>2
<1>6. ASSUME ~(n >= 0)
      PROVE  Ends(s, least) \in Seq(F)
  <2>1. 1 .. n = 1 .. 0
    BY <1>2, <1>6
  <2>2. [k \in 1 .. 0 |-> e(k)] \in Seq(F)
    OBVIOUS
  <2> QED BY <1>4, <2>1, <2>2
<1> QED BY <1>5, <1>6 DEF F

LEMMA CandidatesFound ==
  ASSUME NEW w \in Seq(STRING), NEW start \in 1 .. Len(w) + 1
  PROVE  HeadCandidates(ResolveHead(w, start)) \in Seq(FoundIn(w, start, Len(w)))
<1> DEFINE head == ResolveHead(w, start)
           F == FoundIn(w, start, Len(w))
           extras == Len(head.afterBoundary)
           longer(extra) == head.slot \o SubSeq(head.afterBoundary, 1, extra)
           continued == [extra \in 1 .. extras |-> Ends(longer(extra), 2)]
<1>0. start \in Nat /\ Len(w) \in Nat
  OBVIOUS
<1>1. /\ head.slot \in F /\ head.trimmed \in F
      /\ \A extra \in 0 .. extras : longer(extra) \in F
  BY HeadFound
<1>2. extras \in Nat
  BY HeadFound
<1> HIDE DEF head, extras, longer
<1>3. ASSUME NEW extra \in 1 .. extras
      PROVE  Ends(longer(extra), 2) \in Seq(F)
  <2>1. extra \in 0 .. extras
    BY <1>2
  <2> QED BY <1>0, <1>1, <2>1, EndsFound
<1>4. Ends(head.trimmed, 1) \in Seq(F) /\ Ends(head.slot, 1) \in Seq(F)
  BY <1>0, <1>1, EndsFound
<1> HIDE DEF F
<1>5. continued \in Seq(Seq(F)) /\ Len(continued) = extras
  BY <1>2, <1>3
<1> HIDE DEF continued
<1>6. Joined(continued, extras) \in Seq(F)
  <2>1. extras \in 0 .. Len(continued)
    BY <1>2, <1>5
  <2> QED BY <1>5, <2>1, JoinedIs
<1>7. HeadCandidates(head) = Joined(continued, extras) \o Ends(head.trimmed, 1) \o Ends(head.slot, 1)
  BY DEF HeadCandidates, continued, extras, longer
<1> QED BY <1>4, <1>6, <1>7 DEF F, head

\* Each entry of the table has a reading.
LEMMA PageRolesHaveReadings ==
  ASSUME NEW key \in DOMAIN PageRoles
  PROVE  PageRoles[key] \in Seq(SUBSET PageTypes) \ {<<>>}
<1>1. /\ <<{"LISTING"}>> \in Seq(SUBSET PageTypes) \ {<<>>}
      /\ <<{"SEARCH"}>> \in Seq(SUBSET PageTypes) \ {<<>>}
      /\ <<{"CHECKOUT"}>> \in Seq(SUBSET PageTypes) \ {<<>>}
      /\ <<{"LOGIN"}>> \in Seq(SUBSET PageTypes) \ {<<>>}
      /\ <<{"FORM"}>> \in Seq(SUBSET PageTypes) \ {<<>>}
  BY DEF PageTypes
<1>2. <<{"LISTING"}, {"SEARCH"}>> \in Seq(SUBSET PageTypes) \ {<<>>}
  BY DEF PageTypes
<1> QED BY <1>1, <1>2 DEF PageRoles

-----------------------------------------------------------------------------
(* The declarations of a text.                                             *)

\* A verb that asks, at position i of w.
AsksIn(w, i) == VerbLength(w, i) > 0 /\ ~Asserts(w, i)

\* What is declared in w was asked for in w.
AskedFor(d, w) ==
    d.kind = "DECLARED" =>
        IF d.url THEN \E i \in 1 .. Len(w) : w[i] \in Addresses
        ELSE \E i \in 1 .. Len(w) : AsksIn(w, i) /\
                \E key \in DOMAIN PageRoles :
                    PageRoles[key] = <<d.role>> /\ Between(key, w, i + 1, Len(w))

AskedIn(w) == {d \in AnyDeclaration : AskedFor(d, w)}

\* Where the reading of w is.
Readings(w) == [at : Nat \ {0}, out : Seq(AskedIn(w))]

\* The head behind a verb that asks is looked up: what it declares was asked for.
LEMMA HeadAskedFor ==
  ASSUME NEW w \in Seq(STRING), NEW i \in 1 .. Len(w), AsksIn(w, i),
         NEW start \in i + 1 .. Len(w) + 1
  PROVE  OfReadings(LookupHead(ResolveHead(w, start))) \in AskedIn(w)
<1> DEFINE head == ResolveHead(w, start)
           F == FoundIn(w, start, Len(w))
           known == Among(HeadCandidates(head), DOMAIN PageRoles)
           readings == LookupHead(head)
           d == OfReadings(readings)
<1>0. start \in 1 .. Len(w) + 1 /\ start \in Nat /\ Len(w) \in Nat /\ i + 1 \in Nat /\ i + 1 <= start
  OBVIOUS
<1>1. known \in Seq(F \cap DOMAIN PageRoles)
  <2>1. HeadCandidates(head) \in Seq(F)
    BY <1>0, CandidatesFound
  <2> HIDE DEF F, head
  <2> QED BY <2>1, AmongIsSome
<1>2. readings = IF known = <<>> THEN <<>> ELSE PageRoles[known[1]]
  BY DEF LookupHead
<1> HIDE DEF known, readings, head
<1>3. CASE known = <<>>
  <2>1. d = Declaration("UNSUPPORTED", {}, FALSE)
    BY <1>2, <1>3 DEF OfReadings
  <2> QED BY <2>1 DEF AskedIn, AnyDeclaration, AskedFor, Declaration, readings, head
<1>4. CASE known # <<>>
  <2> DEFINE key == known[1]
  <2>1. key \in F /\ key \in DOMAIN PageRoles
    <3> HIDE DEF F
    <3> QED BY <1>1, <1>4
  <2> HIDE DEF key
  <2>2. readings = PageRoles[key] /\ readings \in Seq(SUBSET PageTypes) \ {<<>>}
    BY <1>2, <1>4, <2>1, PageRolesHaveReadings DEF key
  <2>3. CASE Len(readings) > 1
    <3>1. d = Declaration("AMBIGUOUS", {}, FALSE)
      BY <2>2, <2>3 DEF OfReadings
    <3> QED BY <3>1 DEF AskedIn, AnyDeclaration, AskedFor, Declaration, readings, head
  <2>4. CASE ~(Len(readings) > 1)
    <3>1. readings[1] \in SUBSET PageTypes /\ readings = <<readings[1]>>
      BY <2>2, <2>4
    <3>2. d = Declaration("DECLARED", readings[1], FALSE)
      BY <2>2, <2>4 DEF OfReadings
    <3>3. d \in AnyDeclaration /\ d.role = readings[1] /\ d.url = FALSE
      BY <3>1, <3>2 DEF AnyDeclaration, Declaration
    <3>4. Between(key, w, i + 1, Len(w))
      <4>1. key \in FoundIn(w, i + 1, Len(w))
        BY <1>0, <2>1, FoundWithin
      <4> QED BY <4>1 DEF FoundIn
    <3>5. AskedFor(d, w)
      <4> HIDE DEF d
      <4> QED BY <2>1, <2>2, <3>1, <3>3, <3>4 DEF AskedFor
    <3> HIDE DEF d
    <3>6. d \in AskedIn(w)
      BY <3>3, <3>5 DEF AskedIn
    <3> QED BY <3>6 DEF d, readings, head
  <2> QED BY <2>3, <2>4
<1> QED BY <1>3, <1>4

LEMMA OneIn ==
  ASSUME NEW S, NEW x \in S
  PROVE  <<x>> \in Seq(S)
OBVIOUS

\* A verb is one or two words of the text.
LEMMA VerbFits ==
  ASSUME NEW w \in Seq(STRING), NEW i \in 1 .. Len(w)
  PROVE  VerbLength(w, i) \in 0 .. 2 /\ i + VerbLength(w, i) <= Len(w) + 1
BY DEF VerbLength

LEMMA ConstructKeeps ==
  ASSUME NEW w \in Seq(STRING), NEW reading \in Readings(w)
  PROVE  Construct(w, reading) \in Readings(w)
<1> DEFINE i == reading.at
           v == VerbLength(w, i)
           head == ResolveHead(w, i + v)
           past(n, declared) == [at |-> i + n, out |-> reading.out \o declared]
           address == i + v <= Len(w) /\ w[i + v] \in Addresses
<1>0. i \in Nat \ {0} /\ reading.out \in Seq(AskedIn(w)) /\ Len(w) \in Nat
  BY DEF Readings
<1>1. ASSUME NEW n \in Nat, NEW declared \in Seq(AskedIn(w))
      PROVE  past(n, declared) \in Readings(w)
  <2>1. reading.out \o declared \in Seq(AskedIn(w))
    BY <1>0
  <2> QED BY <1>0, <2>1 DEF Readings
<1>2. <<>> \in Seq(AskedIn(w))
  OBVIOUS
<1>3. CASE i > Len(w)
  <2>1. ~(i <= Len(w))
    BY <1>0, <1>3
  <2>2. Construct(w, reading) = reading
    <3> HIDE DEF i
    <3> QED BY <1>3, <2>1, Zenon DEF Construct, i
  <2> QED BY <2>2
<1>4. ASSUME i <= Len(w)
      PROVE  Construct(w, reading) \in Readings(w)
  <2>1. i \in 1 .. Len(w) /\ v \in 0 .. 2 /\ i + v <= Len(w) + 1
    BY <1>0, <1>4, VerbFits
  <2> HIDE DEF v
  <2>2. CASE v = 0
    <3>1. Construct(w, reading) = past(1, <<>>)
      BY <1>0, <1>4, <2>2 DEF Construct, v
    <3> QED BY <1>1, <1>2, <3>1
  <2>3. CASE v > 0 /\ Asserts(w, i)
    <3>1. Construct(w, reading) = past(v + 1, <<>>)
      BY <1>0, <1>4, <2>3 DEF Construct, v
    <3>2. v + 1 \in Nat
      BY <2>1
    <3> HIDE DEF past
    <3> QED BY <1>1, <1>2, <3>1, <3>2
  <2>4. CASE v > 0 /\ ~Asserts(w, i) /\ address
    <3> DEFINE declared == IF Parses(w[i + v]) THEN <<Declaration("DECLARED", {}, TRUE)>> ELSE <<>>
    <3>1. Construct(w, reading) = past(v + 1, declared)
      BY <1>0, <1>4, <2>4 DEF Construct, v
    <3>2. Declaration("DECLARED", {}, TRUE) \in AskedIn(w)
      <4>1. i + v \in 1 .. Len(w)
        BY <2>1, <2>4
      <4> QED BY <2>4, <4>1 DEF AskedIn, AnyDeclaration, AskedFor, Declaration
    <3>3. declared \in Seq(AskedIn(w))
      <4>1. <<Declaration("DECLARED", {}, TRUE)>> \in Seq(AskedIn(w))
        BY <3>2, OneIn, Zenon
      <4> QED BY <1>2, <4>1, Zenon
    <3>4. v + 1 \in Nat
      BY <2>1
    <3> HIDE DEF declared, past
    <3> QED BY <1>1, <3>1, <3>3, <3>4
  <2>5. CASE v > 0 /\ ~Asserts(w, i) /\ ~address
    <3>1. Construct(w, reading) =
            IF head.trimmed = <<>> THEN past(v, <<>>)
            ELSE IF Len(head.trimmed) > MaxModifiers + 1
            THEN past(v, <<Declaration("UNSUPPORTED", {}, FALSE)>>)
            ELSE past(v + Len(head.slot), <<OfReadings(LookupHead(head))>>)
      BY <1>0, <1>4, <2>5 DEF Construct, v
    <3>2. Declaration("UNSUPPORTED", {}, FALSE) \in AskedIn(w)
      BY DEF AskedIn, AnyDeclaration, AskedFor, Declaration
    <3>3. OfReadings(LookupHead(head)) \in AskedIn(w)
      <4>1. i + v \in i + 1 .. Len(w) + 1
        BY <2>1, <2>5
      <4>2. AsksIn(w, i)
        BY <2>5 DEF AsksIn, v
      <4> QED BY <2>1, <4>1, <4>2, HeadAskedFor
    <3>4. Len(head.slot) \in Nat
      <4>1. i + v \in 1 .. Len(w) + 1
        BY <1>0, <2>1
      <4>2. head.slot \in Seq(STRING)
        BY <4>1, HeadFound DEF FoundIn
      <4> QED BY <4>2
    <3>5. <<Declaration("UNSUPPORTED", {}, FALSE)>> \in Seq(AskedIn(w))
      BY <3>2, OneIn, Zenon
    <3>6. <<OfReadings(LookupHead(head))>> \in Seq(AskedIn(w))
      <4> HIDE DEF head
      <4> QED BY <3>3
    <3>7. v \in Nat /\ v + Len(head.slot) \in Nat
      BY <2>1, <3>4
    <3> HIDE DEF head, past
    <3> QED BY <1>1, <1>2, <3>1, <3>5, <3>6, <3>7
  <2> QED BY <2>1, <2>2, <2>3, <2>4, <2>5
<1> QED BY <1>0, <1>3, <1>4

LEMMA ConstructsAskedFor ==
  ASSUME NEW w \in Seq(STRING)
  PROVE  Constructs(w) \in Seq(AskedIn(w))
<1> DEFINE n == Len(w)
           X == Readings(w)
           base == [at |-> 1, out |-> <<>>]
           next(x) == Construct(w, x)
           step == [i \in 1 .. n |-> [x \in X |-> next(x)]]
           Walks(f) == f = [i \in 0 .. n |-> IF i = 0 THEN base ELSE next(f[i - 1])]
           upTo == CHOOSE f : Walks(f)
<1>0. n \in Nat /\ base \in X
  <2>1. <<>> \in Seq(AskedIn(w)) /\ 1 \in Nat \ {0}
    OBVIOUS
  <2> QED BY <2>1 DEF Readings
<1>1. \A x \in X : next(x) \in X
  BY ConstructKeeps
<1> HIDE DEF X, next, base
<1>2. step \in Steps(n, X)
  <2> HIDE DEF n
  <2> QED BY <1>1 DEF Steps
<1>3. PICK f : Taken(f, n, X, base, step)
  <2> HIDE DEF step, n
  <2> QED BY <1>0, <1>2, Recursed
<1>4. ASSUME NEW i \in 1 .. n
      PROVE  f[i] = next(f[i - 1])
  <2>1. f[i - 1] \in X
    <3>1. i - 1 \in 0 .. n
      BY <1>0
    <3> HIDE DEF step, n
    <3> QED BY <1>3, <3>1 DEF Taken
  <2>2. \A x \in X : step[i][x] = next(x)
    <3> HIDE DEF n
    <3> QED OBVIOUS
  <2> HIDE DEF step, n
  <2> QED BY <1>3, <2>1, <2>2 DEF Taken
<1>5. Walks(f)
  <2> HIDE DEF n, step
  <2> QED BY <1>0, <1>3, <1>4 DEF Taken
<1>6. Walks(upTo)
  <2> HIDE DEF Walks
  <2> QED BY <1>5
<1>7. Constructs(w) = upTo[n].out
  BY Zenon DEF Constructs, upTo, Walks, next, base, n
<1> HIDE DEF upTo
<1>8. upTo[0] = base /\ \A i \in 1 .. n : upTo[i] = next(upTo[i - 1])
  <2> HIDE DEF n
  <2> QED BY <1>0, <1>6
<1> DEFINE good == {i \in 0 .. n : upTo[i] \in X}
<1>9. n \in good
  <2>1. 0 \in good /\ \A i \in 1 .. n : i - 1 \in good => i \in good
    <3> HIDE DEF n
    <3> QED BY <1>0, <1>1, <1>8
  <2> HIDE DEF good
  <2>2. 0 .. n \subseteq good
    BY <1>0, <2>1, Climb
  <2> HIDE DEF n
  <2> QED BY <1>0, <2>2
<1> QED BY <1>7, <1>9 DEF X, Readings

\* Masking keeps the order, and takes nothing out but addresses.
LEMMA MaskedFrom ==
  ASSUME NEW text \in Seq(STRING)
  PROVE  /\ Masked(text) \in Seq(STRING)
         /\ \E place \in [1 .. Len(Masked(text)) -> 1 .. Len(text)] :
              /\ \A k \in 1 .. Len(Masked(text)) :
                    /\ Masked(text)[k] = text[place[k]]
                    /\ \A j \in 1 .. k - 1 : place[j] < place[k]
              /\ \A i \in 1 .. Len(text) :
                    text[i] \notin Addresses => \E k \in 1 .. Len(Masked(text)) : place[k] = i
<1> DEFINE n == Len(text)
           C == {i \in 1 .. n : text[i] \in Addresses} \cup {n}
           f == Min(C)
           opening == SubSeq(text, 1, f)
           rest == SubSeq(text, f + 1, n)
           S == Range(rest) \ Addresses
           kept == Among(rest, S)
           l == Len(kept)
<1>0. n \in Nat
  OBVIOUS
<1>1. f \in 0 .. n /\ f \in Nat
  <2>1. C \subseteq Nat /\ C # {} /\ C \subseteq 0 .. n
    BY <1>0
  <2> HIDE DEF C
  <2>2. f \in 0 .. n
    BY <2>1, MinIs
  <2> QED BY <1>0, <2>2
<1>2. Masked(text) = opening \o kept
  BY DEF Masked
<1> HIDE DEF f
<1>3. opening \in Seq(STRING) /\ Len(opening) = f /\ \A k \in 1 .. f : opening[k] = text[k]
  BY <1>1
<1>4. rest \in Seq(STRING) /\ Len(rest) = n - f /\ \A k \in 1 .. n - f : rest[k] = text[k + f]
  <2>1. CASE f = n
    BY <1>1, <2>1
  <2>2. CASE f < n
    BY <1>1, <2>2
  <2> QED BY <1>1, <2>1, <2>2
<1>5. \A k \in 1 .. n - f : rest[k] \notin Addresses => rest[k] \in S
  <2> HIDE DEF rest
  <2>1. \A k \in 1 .. n - f : k \in DOMAIN rest
    BY <1>4
  <2> QED BY <2>1 DEF Range
<1> HIDE DEF rest, S, opening
<1>6. /\ kept \in Seq(STRING)
      /\ \E place \in [1 .. l -> 1 .. Len(rest)] :
            /\ \A k \in 1 .. l : kept[k] = rest[place[k]] /\ \A j \in 1 .. k - 1 : place[j] < place[k]
            /\ \A i \in 1 .. Len(rest) : rest[i] \in S => \E k \in 1 .. l : place[k] = i
  <2>1. rest \in Seq(STRING)
    BY <1>4
  <2> HIDE DEF n, C
  <2> QED BY <2>1, AmongInOrder
<1>7. PICK q \in [1 .. l -> 1 .. n - f] :
            /\ \A k \in 1 .. l : kept[k] = rest[q[k]] /\ \A j \in 1 .. k - 1 : q[j] < q[k]
            /\ \A i \in 1 .. n - f : rest[i] \in S => \E k \in 1 .. l : q[k] = i
  <2>1. Len(rest) = n - f
    BY <1>4
  <2> HIDE DEF n, C, l, kept
  <2> QED BY <1>6, <2>1
<1>8. l \in Nat /\ l = Len(kept) /\ kept \in Seq(STRING)
  BY <1>6
<1> HIDE DEF kept, l, n
<1> DEFINE w == opening \o kept
           place == [k \in 1 .. f + l |-> IF k <= f THEN k ELSE q[k - f] + f]
<1>9. /\ w \in Seq(STRING) /\ Len(w) = f + l
      /\ \A k \in 1 .. f + l : w[k] = IF k <= f THEN opening[k] ELSE kept[k - f]
  <2>1. opening \in Seq(STRING) /\ Len(opening) = f
    BY <1>3
  <2>2. Len(w) = f + l /\ w \in Seq(STRING)
    <3>1. Len(w) = Len(opening) + Len(kept) /\ w \in Seq(STRING)
      BY <1>8, <2>1
    <3> HIDE DEF w
    <3> QED BY <1>8, <2>1, <3>1
  <2>3. ASSUME NEW k \in 1 .. f + l
        PROVE  w[k] = IF k <= f THEN opening[k] ELSE kept[k - f]
    <3>1. k \in 1 .. Len(opening) + Len(kept)
      BY <1>8, <2>1
    <3> QED BY <1>1, <1>8, <2>1, <3>1
  <2> QED BY <2>2, <2>3
<1>10. \A k \in 1 .. f + l : (k <= f => k \in 1 .. f) /\ (~(k <= f) => k - f \in 1 .. l)
  BY <1>1, <1>8
<1>11. \A k \in 1 .. l : q[k] \in 1 .. n - f /\ q[k] + f \in 1 .. n
  BY <1>0, <1>1, <1>7, <1>8
<1>12. \A k \in 1 .. f + l : place[k] = (IF k <= f THEN k ELSE q[k - f] + f) /\ place[k] \in 1 .. n
  BY <1>0, <1>1, <1>10, <1>11
<1>13. place \in [1 .. f + l -> 1 .. n]
  BY <1>12
<1> HIDE DEF place, w
<1>14. ASSUME NEW k \in 1 .. f + l
       PROVE  w[k] = text[place[k]] /\ \A j \in 1 .. k - 1 : place[j] < place[k]
  <2>0. k \in Nat /\ \A j \in 1 .. k - 1 : j \in 1 .. f + l
    BY <1>1, <1>8
  <2>1. CASE k <= f
    <3>1. k \in 1 .. f /\ place[k] = k
      BY <1>10, <1>12, <2>1
    <3>2. w[k] = text[k]
      BY <1>3, <1>9, <2>1, <3>1
    <3>3. \A j \in 1 .. k - 1 : place[j] = j
      BY <1>1, <1>12, <2>0, <2>1
    <3> QED BY <2>0, <3>1, <3>2, <3>3
  <2>2. CASE ~(k <= f)
    <3>1. k - f \in 1 .. l /\ place[k] = q[k - f] + f /\ q[k - f] \in 1 .. n - f
      BY <1>10, <1>11, <1>12, <2>2
    <3>2. w[k] = text[place[k]]
      BY <1>4, <1>7, <1>9, <2>2, <3>1
    <3>3. ASSUME NEW j \in 1 .. k - 1
          PROVE  place[j] < place[k]
      <4>1. CASE j <= f
        BY <1>1, <1>12, <2>0, <3>1, <4>1
      <4>2. CASE ~(j <= f)
        <5>0. j - f \in 1 .. (k - f) - 1 /\ j - f \in 1 .. l
          BY <1>1, <1>8, <2>0, <4>2
        <5>1. place[j] = q[j - f] + f /\ q[j - f] \in 1 .. n - f
          BY <1>11, <1>12, <2>0, <4>2, <5>0
        <5>2. q[j - f] < q[k - f]
          BY <1>7, <3>1, <5>0
        <5> QED BY <1>0, <1>1, <3>1, <5>1, <5>2
      <4> QED BY <4>1, <4>2
    <3> QED BY <3>2, <3>3
  <2> QED BY <2>1, <2>2
<1>15. ASSUME NEW i \in 1 .. n, text[i] \notin Addresses
       PROVE  \E k \in 1 .. f + l : place[k] = i
  <2>1. CASE i <= f
    <3>1. i \in 1 .. f + l
      BY <1>1, <1>8, <2>1
    <3> QED BY <1>12, <2>1, <3>1
  <2>2. CASE ~(i <= f)
    <3>1. i - f \in 1 .. n - f /\ (i - f) + f = i
      BY <1>0, <1>1, <2>2
    <3>2. PICK k \in 1 .. l : q[k] = i - f
      BY <1>4, <1>5, <1>7, <1>15, <3>1
    <3>3. k + f \in 1 .. f + l /\ ~(k + f <= f) /\ (k + f) - f = k
      BY <1>1, <1>8
    <3>4. place[k + f] = q[k] + f
      BY <1>12, <3>3
    <3> QED BY <3>1, <3>2, <3>3, <3>4
  <2> QED BY <2>1, <2>2
<1>16. Masked(text) = w /\ Len(w) = f + l
  BY <1>2, <1>9 DEF w
<1>17. /\ w \in Seq(STRING)
       /\ place \in [1 .. Len(w) -> 1 .. Len(text)]
       /\ \A k \in 1 .. Len(w) : w[k] = text[place[k]] /\ \A j \in 1 .. k - 1 : place[j] < place[k]
       /\ \A i \in 1 .. Len(text) :
             text[i] \notin Addresses => \E k \in 1 .. Len(w) : place[k] = i
  BY <1>9, <1>13, <1>14, <1>15, <1>16, Zenon DEF n
<1> QED BY <1>16, <1>17, Zenon

\* What is asked for in the masked text is asked for in the text.
LEMMA AskedStays ==
  ASSUME NEW text \in Seq(STRING), NEW d \in AskedIn(Masked(text))
  PROVE  d \in AskedIn(text)
<1> DEFINE w == Masked(text)
<1>1. w \in Seq(STRING)
  BY MaskedFrom
<1>2. PICK place \in [1 .. Len(w) -> 1 .. Len(text)] :
         /\ \A k \in 1 .. Len(w) : w[k] = text[place[k]] /\ \A j \in 1 .. k - 1 : place[j] < place[k]
         /\ \A i \in 1 .. Len(text) :
               text[i] \notin Addresses => \E k \in 1 .. Len(w) : place[k] = i
  BY MaskedFrom
<1>3. d \in AnyDeclaration /\ AskedFor(d, w)
  BY DEF AskedIn
<1> HIDE DEF w
<1>4. Len(w) \in Nat /\ Len(text) \in Nat
  BY <1>1
<1>5. \A j, k \in 1 .. Len(w) : j < k => place[j] < place[k]
  <2>1. \A j, k \in 1 .. Len(w) : j < k => j \in 1 .. k - 1
    BY <1>4
  <2> QED BY <1>2, <2>1
<1>6. ASSUME d.kind = "DECLARED", d.url
      PROVE  \E i \in 1 .. Len(text) : text[i] \in Addresses
  <2>1. PICK i \in 1 .. Len(w) : w[i] \in Addresses
    BY <1>3, <1>6 DEF AskedFor
  <2> QED BY <1>2, <2>1
<1>7. ASSUME d.kind = "DECLARED", ~d.url
      PROVE  \E i \in 1 .. Len(text) : AsksIn(text, i) /\
                \E key \in DOMAIN PageRoles :
                    PageRoles[key] = <<d.role>> /\ Between(key, text, i + 1, Len(text))
  <2>1. PICK i \in 1 .. Len(w) : AsksIn(w, i) /\
                \E key \in DOMAIN PageRoles :
                    PageRoles[key] = <<d.role>> /\ Between(key, w, i + 1, Len(w))
    BY <1>3, <1>7 DEF AskedFor
  <2>2. PICK key \in DOMAIN PageRoles : PageRoles[key] = <<d.role>> /\ Between(key, w, i + 1, Len(w))
    BY <2>1
  <2> DEFINE at == place[i]
  <2>3. at \in 1 .. Len(text) /\ text[at] = w[i] /\ i \in Nat
    BY <1>2
  <2> HIDE DEF at
  <2>4. VerbLength(text, at) > 0
    <3>1. w[i] \in OneWordVerbs
      BY <2>1 DEF AsksIn, VerbLength, OneWordVerbs, TwoWordVerbs
    <3> QED BY <2>3, <3>1 DEF VerbLength
  <2>5. text[at] \notin NonAuthorizingVerbs
    BY <2>1, <2>3 DEF AsksIn, Asserts
  <2>6. ASSUME at > 1, text[at - 1] \in NonAuthorizingPrev
        PROVE  FALSE
    <3>1. at - 1 \in 1 .. Len(text) /\ text[at - 1] \notin Addresses
      BY <2>3, <2>6 DEF NonAuthorizingPrev, Addresses
    <3>2. PICK k \in 1 .. Len(w) : place[k] = at - 1
      BY <1>2, <3>1
    <3>3. k < i
      <4>1. CASE k = i
        BY <2>3, <3>2, <4>1 DEF at
      <4>2. CASE i < k
        <5>1. at < at - 1
          BY <1>5, <3>2, <4>2 DEF at
        <5> QED BY <2>3, <5>1
      <4> QED BY <1>4, <4>1, <4>2
    <3>4. i - 1 \in 1 .. Len(w) /\ i > 1
      BY <1>4, <3>3
    <3>5. CASE k = i - 1
      <4>1. w[i - 1] \in NonAuthorizingPrev
        BY <1>2, <2>6, <3>2, <3>4, <3>5
      <4> QED BY <2>1, <3>4, <4>1 DEF AsksIn, Asserts
    <3>6. CASE k # i - 1
      <4>1. k < i - 1 /\ i - 1 < i
        BY <1>4, <3>3, <3>6
      <4>2. place[k] < place[i - 1] /\ place[i - 1] < place[i]
        BY <1>5, <3>4, <4>1
      <4>3. place[i - 1] \in 1 .. Len(text)
        BY <3>4
      <4> QED BY <2>3, <3>2, <4>2, <4>3 DEF at
    <3> QED BY <3>5, <3>6
  <2>7. AsksIn(text, at)
    BY <2>4, <2>5, <2>6 DEF AsksIn, Asserts
  <2>8. Between(key, text, at + 1, Len(text))
    <3>1. PICK p : StandsAt(key, w, i + 1, Len(w), p)
      BY <2>2 DEF Between
    <3> DEFINE q == [k \in 1 .. Len(key) |-> place[p[k]]]
    <3>2. ASSUME NEW k \in 1 .. Len(key)
          PROVE  p[k] \in 1 .. Len(w) /\ i < p[k] /\ key[k] = w[p[k]]
      <4>1. p[k] \in i + 1 .. Len(w) /\ key[k] = w[p[k]]
        BY <3>1 DEF StandsAt
      <4> QED BY <1>4, <2>3, <4>1
    <3>3. \A k \in 1 .. Len(key) : q[k] \in at + 1 .. Len(text) /\ key[k] = text[q[k]]
      <4> TAKE k \in 1 .. Len(key)
      <4>0. q[k] = place[p[k]]
        OBVIOUS
      <4> HIDE DEF q
      <4>1. at < place[p[k]] /\ place[p[k]] \in 1 .. Len(text)
        BY <1>2, <1>5, <3>2 DEF at
      <4>2. key[k] = text[place[p[k]]]
        BY <1>2, <3>2
      <4> QED BY <2>3, <4>0, <4>1, <4>2
    <3>4. ASSUME NEW k \in 1 .. Len(key), NEW j \in 1 .. k - 1, j \in 1 .. Len(key)
          PROVE  q[j] < q[k]
      <4>1. p[j] < p[k]
        BY <3>1 DEF StandsAt
      <4> QED BY <1>5, <3>2, <3>4, <4>1
    <3>5. Len(key) \in Nat
      BY DEF PageRoles
    <3>6. \A k \in 1 .. Len(key) : \A j \in 1 .. k - 1 : j \in 1 .. Len(key)
      BY <3>5
    <3>7. q \in [1 .. Len(key) -> at + 1 .. Len(text)]
      BY <3>3
    <3> HIDE DEF q
    <3>8. StandsAt(key, text, at + 1, Len(text), q)
      BY <3>3, <3>4, <3>6, <3>7 DEF StandsAt
    <3> QED BY <3>8 DEF Between
  <2> QED BY <2>2, <2>3, <2>7, <2>8
<1> QED BY <1>3, <1>6, <1>7 DEF AskedIn, AskedFor

\* All that is declared was asked for.
LEMMA DeclarationsAskedFor ==
  ASSUME NEW text \in Seq(STRING)
  PROVE  NormalizeDestinations(text) \in Seq(AskedIn(text))
<1> DEFINE w == Masked(text)
           out == Constructs(w)
           named == {k \in 1 .. Len(out) : out[k].role # {}}
           free == /\ \E i \in 1 .. Len(w) : w[i] \in Addresses /\ Parses(w[i])
                   /\ \A k \in 1 .. Len(out) : ~out[k].url
           m == Min(named)
           marked == [out EXCEPT ![m].entryUrl = TRUE]
           address == Declaration("DECLARED", {}, TRUE)
<1>1. w \in Seq(STRING)
  BY MaskedFrom
<1>2. out \in Seq(AskedIn(w))
  BY <1>1, ConstructsAskedFor
<1>3. NormalizeDestinations(text) =
        IF ~free THEN out ELSE IF named # {} THEN marked ELSE <<address>> \o out
  BY DEF NormalizeDestinations
<1> HIDE DEF w, out
<1>4. ASSUME NEW d \in AskedIn(w)
      PROVE  [d EXCEPT !.entryUrl = TRUE] \in AskedIn(w)
  <2> DEFINE e == [d EXCEPT !.entryUrl = TRUE]
  <2>1. d \in AnyDeclaration /\ AskedFor(d, w)
    BY DEF AskedIn
  <2>2. e \in AnyDeclaration /\ e.kind = d.kind /\ e.url = d.url /\ e.role = d.role
    BY <2>1 DEF AnyDeclaration
  <2> HIDE DEF e
  <2>3. AskedFor(e, w)
    BY <2>1, <2>2 DEF AskedFor
  <2>4. e \in AskedIn(w)
    BY <2>2, <2>3 DEF AskedIn
  <2> QED BY <2>4 DEF e
<1>5. ASSUME named # {}
      PROVE  marked \in Seq(AskedIn(w))
  <2>1. m \in 1 .. Len(out)
    <3>1. named \subseteq 1 .. Len(out) /\ named \subseteq Nat
      OBVIOUS
    <3> HIDE DEF named
    <3>2. Min(named) \in named
      BY <1>5, <3>1, MinIs
    <3> QED BY <3>1, <3>2
  <2> HIDE DEF m
  <2> DEFINE new == [out[m] EXCEPT !.entryUrl = TRUE]
  <2>2. marked = [out EXCEPT ![m] = new]
    BY Zenon
  <2>3. new \in AskedIn(w)
    <3>1. out[m] \in AskedIn(w)
      BY <1>2, <2>1
    <3> QED BY <1>4, <3>1, Zenon
  <2> HIDE DEF marked, new
  <2> QED BY <1>2, <2>1, <2>2, <2>3
<1>6. ASSUME free
      PROVE  <<address>> \o out \in Seq(AskedIn(w))
  <2>1. address \in AskedIn(w)
    BY <1>6 DEF AskedIn, AnyDeclaration, AskedFor, Declaration
  <2> HIDE DEF address
  <2> QED BY <1>2, <2>1
<1>7. NormalizeDestinations(text) \in Seq(AskedIn(w))
  <2> HIDE DEF free, named, marked, address
  <2> QED BY <1>2, <1>3, <1>5, <1>6
<1>8. AskedIn(w) \subseteq AskedIn(text)
  BY AskedStays DEF w
<1> HIDE DEF named, free, m, marked, address
<1> QED BY <1>7, <1>8

-----------------------------------------------------------------------------
(* The plan of a task.                                                     *)

\* What is reached first is the page that was declared.
LEMMA LeadIs ==
  ASSUME NEW destination, NEW page, NEW category
  PROVE  /\ Lead(category, destination, page) \in Seq({Subgoal("NAVIGATE", destination)})
         /\ destination # None /\ ~(category = "ECOMMERCE_SEARCH" /\ page = "shop")
              => Lead(category, destination, page) # <<>>
<1> DEFINE G == Subgoal("NAVIGATE", destination)
           added == AddDestinationSubgoal(destination)
<1>1. <<G>> \in Seq({G}) /\ <<>> \in Seq({G}) /\ <<G>> # <<>> /\ <<G>> \o <<>> = <<G>>
      /\ <<G>> \o <<G>> \in Seq({G}) /\ <<>> \o <<>> = <<>> /\ <<>> \o <<G>> = <<G>>
      /\ <<G>> \o <<G>> # <<>>
  <2> HIDE DEF G
  <2> QED OBVIOUS
<1>2. added = IF destination = None THEN <<>> ELSE <<G>>
  BY DEF AddDestinationSubgoal
<1>3. InformationLead(destination, page) = added \o (IF page = "unknown" THEN <<G>> ELSE <<>>)
  BY DEF InformationLead
<1>4. CommerceLead(destination, page) = IF page = "shop" THEN <<>> ELSE <<G>>
  BY DEF CommerceLead
<1> HIDE DEF G, added
<1>5. CASE category = "INFORMATION_RETRIEVAL"
  <2>1. Lead(category, destination, page) = InformationLead(destination, page)
    BY <1>5 DEF Lead
  <2> QED BY <1>1, <1>2, <1>3, <2>1, Zenon DEF G
<1>6. CASE category = "ECOMMERCE_SEARCH"
  <2>1. Lead(category, destination, page) = CommerceLead(destination, page)
    BY <1>6 DEF Lead
  <2> QED BY <1>1, <1>4, <1>6, <2>1, Zenon DEF G
<1>7. CASE category \notin {"INFORMATION_RETRIEVAL", "ECOMMERCE_SEARCH"}
  <2>1. Lead(category, destination, page) = added
    BY <1>7 DEF Lead, added
  <2> QED BY <1>1, <1>2, <2>1, Zenon DEF G
<1> QED BY <1>5, <1>6, <1>7

\* What is done on a page: none of it is a NAVIGATE.
OnPage == {"SEARCH", "LOCATE", "EXTRACT", "VERIFY", "SELECT", "CONFIRM", "FILL"}

LEMMA ChainIs ==
  ASSUME NEW category, NEW text
  PROVE  ChainOf(category, text) \in Seq(OnPage)
<1> DEFINE W == OnPage
<1>1. /\ "SEARCH" \in W /\ "LOCATE" \in W /\ "EXTRACT" \in W /\ "VERIFY" \in W
      /\ "SELECT" \in W /\ "CONFIRM" \in W /\ "FILL" \in W
  BY DEF OnPage
<1> HIDE DEF W
<1>2. InformationChain \in Seq(W) /\ FormChain \in Seq(W)
  BY <1>1 DEF InformationChain, FormChain
<1>3. AuthenticationChain \in Seq(W) /\ GenericChain \in Seq(W)
  BY <1>1 DEF AuthenticationChain, GenericChain
<1>4. CommerceChain(text) \in Seq(W)
  <2>1. <<"SEARCH", "SELECT", "VERIFY">> \in Seq(W) /\ <<"CONFIRM">> \in Seq(W) /\ <<>> \in Seq(W)
    BY <1>1
  <2>2. \A s, t \in Seq(W) : s \o t \in Seq(W)
    OBVIOUS
  <2> QED BY <2>1, <2>2, Zenon DEF CommerceChain
<1>5. ChainOf(category, text) \in Seq(W)
  BY <1>2, <1>3, <1>4 DEF ChainOf
<1> QED BY <1>5 DEF W

\* A subgoal of the lead or of the chain.
LinksUp(plan, lead, chain, n, l) ==
    /\ DOMAIN plan = 1 .. n + l /\ Len(plan) = n + l
    /\ \A k \in 1 .. n : plan[k].category = lead[k].category
    /\ \A k \in 1 .. n : plan[k].destination = lead[k].destination
    /\ \A k \in n + 1 .. n + l : plan[k].destination = None
    /\ \A k \in n + 1 .. n + l : plan[k].category = chain[k - n]
    /\ \A k \in n + 1 .. n + l :
          plan[k].prerequisites = IF k = n + 1 THEN 1 .. n ELSE {k - 1}

LEMMA LinkedIs ==
  ASSUME NEW lead, NEW chain, NEW n \in Nat, n = Len(lead), NEW l \in Nat, l = Len(chain)
  PROVE  LinksUp(Linked(lead, chain), lead, chain, n, l)
<1> DEFINE goal(k) ==
             [category |-> IF k <= n THEN lead[k].category ELSE chain[k - n],
              destination |-> IF k <= n THEN lead[k].destination ELSE None,
              prerequisites |->
                 IF k <= n THEN {} ELSE IF k = n + 1 THEN 1 .. n ELSE {k - 1},
              state |-> IF k <= n \/ k = 1 THEN "READY" ELSE "PENDING"]
           plan == [k \in 1 .. n + l |-> goal(k)]
<1>1. plan = Linked(lead, chain)
  BY Zenon DEF Linked, plan, goal
<1>2. DOMAIN plan = 1 .. n + l /\ Len(plan) = n + l
  <2> HIDE DEF goal
  <2> QED OBVIOUS
<1>3. \A k \in 1 .. n + l : plan[k] = goal(k)
  <2> HIDE DEF goal
  <2> QED OBVIOUS
<1> HIDE DEF plan
<1>4. ASSUME NEW k \in 1 .. n
      PROVE  plan[k].category = lead[k].category /\ plan[k].destination = lead[k].destination
  <2>1. k \in 1 .. n + l /\ k <= n
    OBVIOUS
  <2>2. goal(k).category = lead[k].category /\ goal(k).destination = lead[k].destination
    BY <2>1
  <2> HIDE DEF goal
  <2> QED BY <1>3, <2>1, <2>2
<1>5. ASSUME NEW k \in n + 1 .. n + l
      PROVE  /\ plan[k].category = chain[k - n] /\ plan[k].destination = None
             /\ plan[k].prerequisites = IF k = n + 1 THEN 1 .. n ELSE {k - 1}
  <2>1. k \in 1 .. n + l /\ ~(k <= n)
    OBVIOUS
  <2>2. /\ goal(k).category = chain[k - n] /\ goal(k).destination = None
        /\ goal(k).prerequisites = IF k = n + 1 THEN 1 .. n ELSE {k - 1}
    BY <2>1
  <2> HIDE DEF goal
  <2> QED BY <1>3, <2>1, <2>2
<1>6. LinksUp(plan, lead, chain, n, l)
  BY <1>2, <1>4, <1>5 DEF LinksUp
<1> QED BY <1>1, <1>6

\* The declared page is the destination of every subgoal that has one.
LEMMA PlannedIsDeclared ==
  ASSUME NEW text, NEW declarations, NEW page,
         NEW k \in 1 .. Len(DecomposeTask(text, declarations, page)),
         DecomposeTask(text, declarations, page)[k].destination # None
  PROVE  DecomposeTask(text, declarations, page)[k].destination = DeclaredDestination(declarations)
<1> DEFINE category == ClassifyTaskCategory(text)
           destination == DeclaredDestination(declarations)
           G == Subgoal("NAVIGATE", destination)
           lead == Lead(category, destination, page)
           chain == ChainOf(category, text)
           plan == DecomposeTask(text, declarations, page)
<1>1. category # "UNSUPPORTED_TASK_TYPE"
  <2>1. category = "UNSUPPORTED_TASK_TYPE" => plan = <<>>
    BY DEF DecomposeTask
  <2>2. plan # <<>>
    OBVIOUS
  <2> QED BY <2>1, <2>2
<1>2. plan = Linked(lead, chain)
  BY <1>1 DEF DecomposeTask
<1>3. lead \in Seq({G}) /\ chain \in Seq(OnPage)
  BY LeadIs, ChainIs, Zenon
<1>4. G.destination = destination
  BY DEF Subgoal
<1> DEFINE n == Len(lead)  l == Len(chain)
<1>5. n \in Nat /\ l \in Nat /\ \A i \in 1 .. n : lead[i] = G
  <2> HIDE DEF G, lead, chain
  <2> QED BY <1>3
<1> HIDE DEF category, destination, G, lead, chain, plan
<1>6. /\ Len(plan) = n + l
      /\ \A i \in 1 .. n : plan[i].destination = lead[i].destination
      /\ \A i \in n + 1 .. n + l : plan[i].destination = None
  <2>1. n = Len(lead) /\ l = Len(chain)
    BY DEF n, l
  <2> HIDE DEF n, l
  <2>2. LinksUp(Linked(lead, chain), lead, chain, n, l)
    BY <1>5, <2>1, LinkedIs, Zenon
  <2> QED BY <1>2, <2>2 DEF LinksUp
<1> HIDE DEF n, l
<1>7. k \in 1 .. n + l /\ plan[k].destination # None
  BY <1>6 DEF plan
<1>8. k \in 1 .. n
  <2>1. k \in 1 .. n \/ k \in n + 1 .. n + l
    BY <1>5, <1>7
  <2> QED BY <1>6, <1>7, <2>1
<1> QED BY <1>4, <1>5, <1>6, <1>8 DEF plan, destination

\* In a plan of a lead and a chain, what is on the page waits for the first.
LEMMA ChainAwaits ==
  ASSUME NEW n \in Nat \ {0}, NEW l \in Nat, NEW plan,
         \A k \in n + 1 .. n + l :
            plan[k].prerequisites = IF k = n + 1 THEN 1 .. n ELSE {k - 1},
         NEW k \in n + 1 .. n + l,
         NEW needed,
         \A j \in needed \cup {k} : plan[j].prerequisites \subseteq needed
  PROVE  1 \in needed
<1> DEFINE reached == {m \in 0 .. k - n - 1 : k - m \in needed \cup {k}}
<1>0. k - n - 1 \in Nat /\ k \in Nat
  OBVIOUS
<1>1. 0 \in reached
  BY <1>0
<1>2. ASSUME NEW m \in 1 .. k - n - 1, m - 1 \in reached
      PROVE  m \in reached
  <2> DEFINE j == k - (m - 1)
  <2>1. j \in needed \cup {k}
    BY <1>2
  <2>2. j \in n + 1 .. n + l /\ j # n + 1 /\ j - 1 = k - m /\ m \in 0 .. k - n - 1
    BY <1>0
  <2> HIDE DEF j
  <2>3. plan[j].prerequisites = {k - m}
    BY <2>2
  <2>4. k - m \in needed
    BY <2>1, <2>3
  <2> QED BY <2>2, <2>4
<1>3. k - n - 1 \in reached
  <2> HIDE DEF reached
  <2>1. 0 .. k - n - 1 \subseteq reached
    BY <1>0, <1>1, <1>2, Climb
  <2> QED BY <1>0, <2>1
<1>4. n + 1 \in needed \cup {k}
  <2>1. k - (k - n - 1) = n + 1
    BY <1>0
  <2> QED BY <1>3, <2>1
<1>5. plan[n + 1].prerequisites = 1 .. n
  <2>1. n + 1 \in n + 1 .. n + l
    BY <1>0
  <2> QED BY <2>1
<1> QED BY <1>4, <1>5

-----------------------------------------------------------------------------
(* The states of a decomposition.                                          *)

DecomposerIInv ==
    /\ dSaid \in TaskTexts
    /\ dAt \in {"said", "declared", "planned"}
    /\ dAt # "said" => dDeclared = NormalizeDestinations(dSaid)
    /\ dPlan = IF dAt = "planned" THEN DecomposeTask(dSaid, dDeclared, dFrom) ELSE <<>>

LEMMA DecomposerKeeps == DecomposerSpec => []DecomposerIInv
<1>1. DecomposerInit => DecomposerIInv
  BY DEF DecomposerInit, DecomposerIInv
<1>2. DecomposerIInv /\ [DecomposerNext]_decomposerVars => DecomposerIInv'
  <2> SUFFICES ASSUME DecomposerIInv, [DecomposerNext]_decomposerVars
               PROVE  DecomposerIInv'
    OBVIOUS
  <2>1. CASE Declare
    BY <2>1 DEF Declare, DecomposerIInv
  <2>2. CASE Decompose
    BY <2>2 DEF Decompose, DecomposerIInv
  <2>3. CASE UNCHANGED decomposerVars
    BY <2>3 DEF decomposerVars, DecomposerIInv
  <2> QED BY <2>1, <2>2, <2>3 DEF DecomposerNext
<1> QED BY <1>1, <1>2, PTL DEF DecomposerSpec

\* Whatever the user types and wherever the run starts, a page is sought only
\* if a verb of the text asks for it by one of its names, or an address of the
\* text is the page (destinationNormalizer.ts, taskDecomposer.ts).
THEOREM PagesAreAskedFor == DecomposerSpec => []OnlyWhenAsked
<1>1. DecomposerIInv => OnlyWhenAsked
  <2> SUFFICES ASSUME DecomposerIInv, NEW k \in 1 .. Len(dPlan), dPlan[k].destination # None
               PROVE  LET d == dPlan[k].destination
                      IN  IF d.url THEN \E i \in 1 .. Len(dSaid) : dSaid[i] \in Addresses
                          ELSE \E i \in 1 .. Len(dSaid) : AsksAt(i) /\
                                  \E key \in DOMAIN PageRoles :
                                      PageRoles[key] = <<d.role>> /\ StandsBehind(key, i)
    BY Zenon DEF OnlyWhenAsked
  <2> DEFINE d == dPlan[k].destination
  <2>1. dAt = "planned" /\ dPlan = DecomposeTask(dSaid, dDeclared, dFrom)
        /\ dDeclared = NormalizeDestinations(dSaid)
    BY DEF DecomposerIInv
  <2>2. dSaid \in Seq(STRING)
    BY DecomposerAssumption DEF DecomposerIInv
  <2>3. d = DeclaredDestination(dDeclared) /\ d # None
    BY <2>1, PlannedIsDeclared, Zenon
  <2>4. dDeclared \in Seq(AskedIn(dSaid))
    BY <2>1, <2>2, DeclarationsAskedFor
  <2> HIDE DEF d
  <2>5. d = NormalizeDestination(dDeclared) /\ d.kind = "DECLARED"
    BY <2>3 DEF DeclaredDestination
  <2>6. dDeclared # <<>>
    BY <2>5 DEF NormalizeDestination, Declaration
  <2>7. d = dDeclared[1] /\ d \in AskedIn(dSaid)
    BY <2>4, <2>5, <2>6 DEF NormalizeDestination
  <2>8. AskedFor(d, dSaid)
    BY <2>7 DEF AskedIn
  <2>9. ASSUME ~d.url
        PROVE  \E i \in 1 .. Len(dSaid) : AsksAt(i) /\
                  \E key \in DOMAIN PageRoles :
                      PageRoles[key] = <<d.role>> /\ StandsBehind(key, i)
    <3>1. PICK i \in 1 .. Len(dSaid) : AsksIn(dSaid, i) /\
                \E key \in DOMAIN PageRoles :
                    PageRoles[key] = <<d.role>> /\ Between(key, dSaid, i + 1, Len(dSaid))
      BY <2>5, <2>8, <2>9 DEF AskedFor
    <3>2. AsksAt(i)
      BY <3>1 DEF AsksAt, AsksIn, Asserts
    <3>3. \A key : Between(key, dSaid, i + 1, Len(dSaid)) => StandsBehind(key, i)
      BY Zenon DEF Between, StandsAt, StandsBehind
    <3> QED BY <3>1, <3>2, <3>3
  <2> QED BY <2>5, <2>8, <2>9 DEF AskedFor, d
<1> QED BY <1>1, DecomposerKeeps, PTL

\* Whatever the user types, the page that was declared first is the first
\* subgoal of the plan, and all that is done on a page waits for it
\* (taskDecomposer.ts, decomposeTask).
THEOREM AskedIsPlanned == DecomposerSpec => []DeclaredIsPlanned
<1>1. DecomposerIInv => DeclaredIsPlanned
  <2> DEFINE d == NormalizeDestination(dDeclared)
             category == ClassifyTaskCategory(dSaid)
  <2> SUFFICES ASSUME DecomposerIInv, dAt = "planned", d.kind = "DECLARED",
                      category # "UNSUPPORTED_TASK_TYPE",
                      ~(category = "ECOMMERCE_SEARCH" /\ dFrom = "shop")
               PROVE  \E i \in 1 .. Len(dPlan) :
                         /\ dPlan[i].destination = d
                         /\ \A k \in 1 .. Len(dPlan) : dPlan[k].category # "NAVIGATE" => Awaits(k, i)
    BY Zenon DEF DeclaredIsPlanned
  <2> DEFINE G == Subgoal("NAVIGATE", d)
             lead == Lead(category, d, dFrom)
             chain == ChainOf(category, dSaid)
             n == Len(lead)
             l == Len(chain)
  <2>1. dPlan = DecomposeTask(dSaid, dDeclared, dFrom) /\ dDeclared = NormalizeDestinations(dSaid)
    BY DEF DecomposerIInv
  <2>2. d = DeclaredDestination(dDeclared)
    BY DEF DeclaredDestination
  <2>3. dPlan = Linked(lead, chain)
    BY <2>1, <2>2 DEF DecomposeTask
  <2>4. d # None
    <3>1. dSaid \in Seq(STRING)
      BY DecomposerAssumption DEF DecomposerIInv
    <3>2. dDeclared \in Seq(AskedIn(dSaid))
      BY <2>1, <3>1, DeclarationsAskedFor
    <3>3. dDeclared # <<>>
      BY DEF NormalizeDestination, Declaration
    <3>4. d = dDeclared[1] /\ d \in AskedIn(dSaid)
      BY <3>2, <3>3 DEF NormalizeDestination
    <3> QED BY <3>4, DecomposerAssumption DEF AskedIn
  <2>5. lead \in Seq({G}) /\ lead # <<>> /\ chain \in Seq(OnPage)
    BY <2>4, LeadIs, ChainIs, Zenon
  <2>6. G.destination = d /\ G.category = "NAVIGATE"
    BY DEF Subgoal
  <2> HIDE DEF G, lead, chain, d, category
  <2>7. n \in Nat \ {0} /\ l \in Nat /\ \A i \in 1 .. n : lead[i] = G
    BY <2>5
  <2>8. /\ DOMAIN dPlan = 1 .. n + l /\ Len(dPlan) = n + l
        /\ \A i \in 1 .. n : /\ dPlan[i].category = lead[i].category
                             /\ dPlan[i].destination = lead[i].destination
        /\ \A k \in n + 1 .. n + l :
              dPlan[k].prerequisites = IF k = n + 1 THEN 1 .. n ELSE {k - 1}
    <3>1. n = Len(lead) /\ l = Len(chain)
      BY DEF n, l
    <3> HIDE DEF n, l
    <3>2. LinksUp(Linked(lead, chain), lead, chain, n, l)
      BY <2>7, <3>1, LinkedIs
    <3> QED BY <2>3, <3>2 DEF LinksUp
  <2> HIDE DEF n, l
  <2>9. 1 \in 1 .. n /\ 1 \in 1 .. n + l
    BY <2>7
  <2>10. dPlan[1].destination = d
    BY <2>6, <2>7, <2>8, <2>9
  <2>11. ASSUME NEW k \in 1 .. n + l, dPlan[k].category # "NAVIGATE"
         PROVE  Awaits(k, 1)
    <3>1. k \in n + 1 .. n + l
      <4>1. k \notin 1 .. n
        BY <2>6, <2>7, <2>8, <2>11
      <4> QED BY <2>7, <4>1
    <3> SUFFICES ASSUME NEW needed \in SUBSET DOMAIN dPlan,
                        \A j \in needed \cup {k} : dPlan[j].prerequisites \subseteq needed
                 PROVE  1 \in needed
      BY Zenon DEF Awaits
    <3> QED BY <2>7, <2>8, <3>1, ChainAwaits
  <2> QED BY <2>8, <2>9, <2>10, <2>11
<1> QED BY <1>1, DecomposerKeeps, PTL
=============================================================================
