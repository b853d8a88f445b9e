---------------------------- MODULE Conversation ----------------------------
(* What "it" and "the third one" mean: the worker plans for every message  *)
(* whether it goes on with the conversation, the run it starts carries the *)
(* context through its readings of the page, and each change of it is      *)
(* handed back to the worker, who keeps it for the next message.  A run    *)
(* that was superseded goes on to its next checkpoint with a context of    *)
(* its own.                                                                *)
(*                                                                         *)
(* A page: its address (canonical), the identifier its address ends in,    *)
(* the items on it in reading order, and whether a world model of it could *)
(* be built.  An item's "thing" is what it really is, which the program    *)
(* never sees: only the properties look at it.                             *)
EXTENDS Naturals, Sequences, FiniteSets, SequencesExt, Absent

CONSTANTS TurnTasks,      \* what the user may say
          SeenPages,      \* the pages a run may read
          MaxCandidates,  \* MAX_CONVERSATION_CANDIDATES
          MaxTurnsKept,   \* MAX_CONVERSATION_TURNS
          MaxMessages,    \* bound on the user's messages
          MaxReadings     \* bound on a run's readings

ASSUME ConversationAssumption ==
    {MaxCandidates, MaxTurnsKept, MaxMessages, MaxReadings} \subseteq Nat

VARIABLES cCurrent,  \* activeConversation
          cActive,   \* activeTaskRunId
          cLoops     \* the runs that are going, by number

conversationVars == <<cCurrent, cActive, cLoops>>

-----------------------------------------------------------------------------
(* Identity.                                                               *)

\* buildIdentity: an item that names no identifier of its own gets the page's
Identity(item, page) ==
    [kind |-> item.kind, title |-> item.title, url |-> page.url,
     product |-> IF item.own # None THEN item.own ELSE page.ident]

\* candidatesFromWorldModel: in reading order, an item without a title that may
\* be kept left out, one that looks like an earlier one in everything too
CandidatesOn(page) ==
    LET all == [i \in DOMAIN page.items |->
                   [identity |-> Identity(page.items[i], page), attr |-> page.items[i].attr,
                    thing |-> page.items[i].thing]]
        Looks(c, d) == c.identity = d.identity /\ c.attr = d.attr
        Take(taken, c) ==
            IF \/ c.identity.kind = "unknown" \/ c.identity.title = None
               \/ Len(taken) = MaxCandidates \/ \E i \in DOMAIN taken : Looks(taken[i], c)
              THEN taken ELSE Append(taken, c)
    IN IF page.modelled THEN FoldLeft(Take, <<>>, all) ELSE <<>>

Selected(identity, thing, ordinal, state) ==
    [identity |-> identity, thing |-> thing, ordinal |-> ordinal, state |-> state]

\* revalidateAgainstRecorded
AgainstRecorded(s, seen, page) ==
    LET alike == {i \in DOMAIN seen : /\ seen[i].identity.title = s.identity.title
                                      /\ seen[i].identity.kind = s.identity.kind}
        i == CHOOSE j \in alike : TRUE
        differ == s.identity.product # None /\ seen[i].identity.product # None
                  /\ s.identity.product # seen[i].identity.product
        products == {seen[j].identity.product : j \in DOMAIN seen} \cup {page.ident}
    IN IF Cardinality(alike) > 1 \/ (Cardinality(alike) = 1 /\ differ)
         THEN [s EXCEPT !.state = "UNCONFIRMED"]
       ELSE IF Cardinality(alike) = 1
         THEN Selected(seen[i].identity, seen[i].thing, i, "REVALIDATED")
       ELSE IF s.identity.product # None /\ s.identity.product \in products
         THEN [s EXCEPT !.identity.url = page.url, !.state = "REVALIDATED"]
       ELSE [s EXCEPT !.state = IF s.identity.url = page.url THEN "REVALIDATED" ELSE "NOT_FOUND"]

\* a build that takes the first of several with the title
RevalidatedByTitle(s, seen, page) ==
    LET Titled(c) == c.identity.title = s.identity.title
        i == SelectInSeq(seen, Titled)
    IN IF i # 0 THEN Selected(seen[i].identity, seen[i].thing, i, "REVALIDATED")
       ELSE AgainstRecorded(s, seen, page)

\* revalidateSelection: what bears the identity is what was selected
Revalidated(s, seen, page) ==
    LET Same(c) == c.identity = s.identity
        i == SelectInSeq(seen, Same)
    IN IF i # 0 THEN Selected(s.identity, seen[i].thing, i, "REVALIDATED")
       ELSE AgainstRecorded(s, seen, page)

-----------------------------------------------------------------------------
(* Context.  What was observed replaces what was, and describes the page   *)
(* just read, so every candidate is eligible.                              *)

NewContext(id) ==
    [id |-> id, candidates |-> <<>>, everSaw |-> FALSE, selection |-> None,
     turns |-> <<>>, clarification |-> None]

\* appendTurn: the oldest is forgotten, the rest are renumbered
OpenTurn(ctx) ==
    LET all == Append(ctx.turns, "IN_PROGRESS")
    IN [ctx EXCEPT !.turns =
           IF Len(all) > MaxTurnsKept THEN SubSeq(all, Len(all) - MaxTurnsKept + 1, Len(all)) ELSE all]

\* closeTurn, by the index appendTurn returned
CloseTurn(ctx, index) ==
    IF index \in DOMAIN ctx.turns THEN [ctx EXCEPT !.turns[index] = "CLOSED"] ELSE ctx

\* observeConversation: withPage, observeCandidates, the selection revalidated
Observed(ctx, page) ==
    LET seen == CandidatesOn(page)
    IN [ctx EXCEPT !.candidates = seen, !.everSaw = @ \/ seen # <<>>,
                   !.selection = IF @ = None THEN None ELSE Revalidated(@, seen, page)]

-----------------------------------------------------------------------------
(* References.                                                             *)

Ref(kind, ordinal) == [kind |-> kind, ordinal |-> ordinal]

\* detectReference: by what the message says, in this order; "the last one" and
\* a number past 20 are positions that cannot be had
Reference(task) ==
    CASE task.long -> Ref("NONE", 0)
      [] "position" \in task.says -> Ref("ORDINAL", task.position)
      [] "this page" \in task.says -> Ref("PAGE", 0)
      [] task.says \cap {"we opened", "previous"} # {} -> Ref("DESCRIPTOR", 0)
      [] "this item" \in task.says \/ ("it" \in task.says /\ task.short) -> Ref("PRONOUN", 0)
      [] OTHER -> Ref("NONE", 0)

Resolved(identity, thing, ordinal) ==
    [outcome |-> "RESOLVED", code |-> None, to |-> Selected(identity, thing, ordinal, "REVALIDATED")]
Unclear(code) == [outcome |-> "UNCLEAR", code |-> code, to |-> None]

NothingSeen(ctx) == Unclear(IF ctx.everSaw THEN "STALE_CANDIDATES" ELSE "NO_CANDIDATES")

\* resolveReference, over the candidates of the page last read
Resolve(ref, ctx) ==
    LET live == ctx.candidates
        s == ctx.selection
        Candidate(i) == Resolved(live[i].identity, live[i].thing, i)
        Same(c) == c.identity = s.identity
    IN IF ref.kind = "ORDINAL"
         THEN IF ref.ordinal # 0 /\ live = <<>> THEN NothingSeen(ctx)
              ELSE IF ref.ordinal \in DOMAIN live THEN Candidate(ref.ordinal)
              ELSE Unclear("OUT_OF_RANGE_ORDINAL")
       ELSE IF s # None
         THEN IF s.state = "NOT_FOUND" THEN Unclear("ENTITY_NOT_FOUND_AFTER_NAVIGATION")
              ELSE IF s.state = "UNCONFIRMED" THEN Unclear("CONFLICTING_IDENTITY")
              ELSE IF SelectInSeq(live, Same) # 0 THEN Candidate(SelectInSeq(live, Same))
              ELSE Resolved(s.identity, s.thing, s.ordinal)
       ELSE IF Len(live) = 1 THEN Candidate(1)
       ELSE IF live = <<>> THEN NothingSeen(ctx)
       ELSE Unclear("AMBIGUOUS_REFERENCE")

\* providerTaskLine
TaskLine(ctx) ==
    IF ctx.selection # None /\ ctx.selection.state = "REVALIDATED" THEN ctx.selection ELSE None

-----------------------------------------------------------------------------
(* The worker.                                                             *)

\* planConversation; "old" is a context past its age
Plan(task, old, id) ==
    LET anchored == cCurrent.selection # None \/ cCurrent.candidates # <<>>
    IN IF task.resets \/ cCurrent = None \/ old THEN NewContext(id)
       ELSE IF task.continues \/ (Reference(task).kind # "NONE" /\ anchored) THEN cCurrent
       ELSE NewContext(id)

\* classifyIntent's refusals, and the one the conversation settles
Admits(task, old) ==
    \/ task.intent = "automation"
    \/ /\ task.intent = "ambiguous"
       /\ cCurrent # None /\ Reference(task).kind # "NONE" /\ ~old

ConversationInit ==
    /\ cCurrent = None /\ cActive = 0
    /\ cLoops = [r \in 1 .. MaxMessages |-> None]

\* a message: what is answered or refused at once takes the number all the same
MessageArrives(task, old) ==
    /\ cActive < MaxMessages
    /\ cActive' = cActive + 1
    /\ LET planned == Plan(task, old, cActive')
       IN IF task.intent # "inspection" /\ Admits(task, old)
            THEN /\ cCurrent' = planned
                 /\ cLoops' = [cLoops EXCEPT ![cActive'] =
                       [task |-> task, ctx |-> planned, at |-> "waiting", index |-> 0,
                        told |-> None, readings |-> 0]]
            ELSE UNCHANGED <<cCurrent, cLoops>>

\* a build that does not ask whether the run still owns the task
PublishAlways(r, ctx) == cCurrent' = ctx

\* onConversationUpdate
Publish(r, ctx) == cCurrent' = IF r = cActive THEN ctx ELSE cCurrent

\* a superseded start never becomes a run; beginConversationTurn
RunStarts(r) ==
    /\ cLoops[r] # None /\ cLoops[r].at = "waiting"
    /\ IF r # cActive
         THEN cLoops' = [cLoops EXCEPT ![r] = None] /\ UNCHANGED cCurrent
         ELSE LET ctx == OpenTurn(cLoops[r].ctx)
              IN /\ cLoops' = [cLoops EXCEPT ![r].ctx = ctx, ![r].at = "reading",
                                             ![r].index = Len(cLoops[r].ctx.turns) + 1]
                 /\ Publish(r, ctx)
    /\ UNCHANGED cActive

\* a cycle reads the page
Reads(r, page) ==
    /\ cLoops[r] # None /\ cLoops[r].at = "reading" /\ cLoops[r].readings < MaxReadings
    /\ LET ctx == Observed(cLoops[r].ctx, page)
       IN /\ cLoops' = [cLoops EXCEPT ![r].ctx = ctx, ![r].at = "resolving", ![r].told = None,
                                      ![r].readings = @ + 1]
          /\ Publish(r, ctx)
    /\ UNCHANGED cActive

\* closeConversationTurn
Closes(r) ==
    LET ctx == CloseTurn(cLoops[r].ctx, cLoops[r].index)
    IN cLoops' = [cLoops EXCEPT ![r] = None] /\ Publish(r, ctx)

\* resolveConversationReference: on every cycle that gets to the reasoner; what
\* stays unclear ends the run with a question
Resolves(r) ==
    /\ cLoops[r] # None /\ cLoops[r].at = "resolving"
    /\ LET ref == Reference(cLoops[r].task)
           result == Resolve(ref, cLoops[r].ctx)
           ctx == IF result.to # None THEN [cLoops[r].ctx EXCEPT !.selection = result.to]
                  ELSE [cLoops[r].ctx EXCEPT !.clarification = result.code]
       IN IF ref.kind \in {"NONE", "PAGE"}
            THEN cLoops' = [cLoops EXCEPT ![r].at = "asking"] /\ Publish(r, cLoops[r].ctx)
            ELSE IF result.to # None
            THEN cLoops' = [cLoops EXCEPT ![r].ctx = ctx, ![r].at = "asking"] /\ Publish(r, ctx)
            ELSE /\ cLoops' = [cLoops EXCEPT ![r] = None]
                 /\ Publish(r, CloseTurn(ctx, cLoops[r].index))
    /\ UNCHANGED cActive

\* the provider is asked, with the line on the selection
Asks(r) ==
    /\ cLoops[r] # None /\ cLoops[r].at = "asking"
    /\ cLoops' = [cLoops EXCEPT ![r].told = TaskLine(cLoops[r].ctx), ![r].at = "reading"]
    /\ UNCHANGED <<cCurrent, cActive>>

\* the run ends: done, failed, stopped or superseded
RunEnds(r) ==
    /\ cLoops[r] # None /\ cLoops[r].at # "waiting"
    /\ Closes(r)
    /\ UNCHANGED cActive

\* the worker is restarted: what was saved is never loaded again
WorkerRestarts ==
    /\ cCurrent # None
    /\ cCurrent' = None /\ cLoops' = [r \in DOMAIN cLoops |-> None]
    /\ UNCHANGED cActive

ConversationNext ==
    \/ \E task \in TurnTasks, old \in BOOLEAN : MessageArrives(task, old)
    \/ \E r \in DOMAIN cLoops :
          \/ RunStarts(r) \/ Resolves(r) \/ Asks(r) \/ RunEnds(r)
          \/ \E page \in SeenPages : Reads(r, page)
    \/ WorkerRestarts

ConversationSpec == ConversationInit /\ [][ConversationNext]_conversationVars

-----------------------------------------------------------------------------
(* Properties.                                                             *)

\* While the run that owns the task is going, the conversation the worker would
\* continue is that run's, as the run last left it: no run it superseded, however
\* late it ends, puts its own back.
ConversationIsLatest ==
    cActive # 0 /\ cLoops[cActive] # None => cCurrent = cLoops[cActive].ctx

\* Where the page just read does not have what was selected, the selection is
\* passed on only to the one item of its kind that bears its name: never to one
\* of several namesakes, whichever pages were read in between.
NeverGuessed ==
    [][\A r \in DOMAIN cLoops :
          /\ cLoops[r] # None /\ cLoops[r].at = "reading" /\ cLoops[r].ctx.selection # None
          /\ cLoops'[r] # None /\ cLoops'[r].at = "resolving"
          => LET old == cLoops[r].ctx.selection
                 new == cLoops'[r].ctx.selection
                 seen == cLoops'[r].ctx.candidates
                 Namesakes == {i \in DOMAIN seen : /\ seen[i].identity.title = new.identity.title
                                                   /\ seen[i].identity.kind = new.identity.kind}
             IN new.state = "REVALIDATED" /\ new.thing # old.thing /\ new.identity # old.identity
                   => Cardinality(Namesakes) = 1]_conversationVars

-----------------------------------------------------------------------------
(* What the repository says and the code does not do.                      *)

\* What a run picked it keeps: a selection that the page just read confirms is not
\* exchanged, later in the same run, for something else on that page.
SelectionKept ==
    [][\A r \in DOMAIN cLoops :
          cLoops[r] # None /\ cLoops'[r] # None
             /\ cLoops[r].at = "resolving" /\ cLoops[r].readings > 1
             /\ TaskLine(cLoops[r].ctx) # None =>
                cLoops'[r].ctx.selection.thing = cLoops[r].ctx.selection.thing]_conversationVars
=============================================================================
