---------------------------- MODULE AgentMemory ----------------------------
(***************************************************************************)
(* What a run remembers: the notes of its goal, which live in the worker,  *)
(* and the records of outcomes and failures, which MemoryStore keeps under *)
(* one key of chrome.storage.local.  Every cycle begins by recalling both; *)
(* every record is written by reading all records, changing one class and  *)
(* writing all of them back, with an await in between, while another run   *)
(* that was superseded may still be at its own write.                      *)
(*                                                                         *)
(* Of a record the model keeps its class, its site and its age.  What the  *)
(* firewalls refuse is free, and so is whether storage takes a write.  No  *)
(* run writes knowledge (SEMANTIC) or lets a record expire.                *)
(***************************************************************************)
EXTENDS Absent, Integers, FiniteSets

CONSTANTS
    Sites,      \* origin and site key of a page
    MaxKept,    \* MAX_MEMORY_ITEMS of a class (50)
    MaxRecords, \* bound on the records that are made
    MemoryRuns  \* bound on the runs that are started

ASSUME MemoryAssumption ==
    /\ MaxKept \in Nat \ {0} /\ MaxRecords \in Nat /\ MemoryRuns \in Nat

Stored == {"EPISODIC", "FAILURE"}
Records == [class : Stored, site : Sites, createdAt : 1 .. MaxRecords]

VARIABLES
    mStore,  \* the records in storage, by class
    mNotes,  \* WorkingMemoryManager.store: whose goal, about what
    mRuns,   \* the runs started; the last one owns the loop
    mLoops,  \* where the loop of each run is, what it recalled, read and writes
    mMade,   \* the records made so far: the clock of createdAt
    mSaved,  \* history: the failures whose write succeeded
    mLost    \* history: failures missing from a later write, which had read before them

memoryVars == <<mStore, mNotes, mRuns, mLoops, mMade, mSaved, mLost>>

Idle ==
    [at |-> "over", then |-> {}, site |-> None, notes |-> {}, hints |-> {},
     copy |-> None, record |-> None]

-----------------------------------------------------------------------------
(* The store.                                                              *)

\* Mutant: the list sorted the other way before it is cut.
Newest(records) == CHOOSE r \in records : \A q \in records : r.createdAt >= q.createdAt

Oldest(records) == CHOOSE r \in records : \A q \in records : r.createdAt <= q.createdAt

\* all classes as they were read, with the record in its own, cut to its size
Written(copy, record) ==
    LET all == copy[record.class] \cup {record}
    IN  [copy EXCEPT ![record.class] =
            IF Cardinality(all) > MaxKept THEN all \ {Oldest(all)} ELSE all]

FindRelevant(site) == {r \in mStore["FAILURE"] : r.site = site}

ReadByGoal(goal) == {n \in mNotes : n.goal = goal}

Move(r, at) == mLoops' = [mLoops EXCEPT ![r].at = at]

Note(goal, about) == [goal |-> goal, about |-> about]

-----------------------------------------------------------------------------
(* The loop of run r.                                                      *)

MemoryInit ==
    /\ mStore = [c \in Stored |-> {}]
    /\ mNotes = {} /\ mRuns = 0
    /\ mLoops = [r \in 1 .. MemoryRuns |-> Idle]
    /\ mMade = 0 /\ mSaved = {} /\ mLost = {}

\* runTask: all notes are dropped, whosever they are, and the goal is noted
\* unless the firewall finds a raw value in it
StartRun ==
    /\ mRuns < MemoryRuns
    /\ mRuns' = mRuns + 1
    /\ mNotes' \in {{}, {Note(mRuns + 1, "INITIAL_GOAL")}}
    /\ mLoops' = [mLoops EXCEPT ![mRuns + 1].at = "top"]
    /\ UNCHANGED <<mStore, mMade, mSaved, mLost>>

\* getHintsForContext: a cycle begins
Recall(r) ==
    /\ mLoops[r].at = "top" /\ r = mRuns
    /\ \E site \in Sites :
          mLoops' = [mLoops EXCEPT ![r].at = "judging", ![r].site = site,
                                   ![r].notes = ReadByGoal(r), ![r].hints = FindRelevant(site)]
    /\ UNCHANGED <<mStore, mNotes, mRuns, mMade, mSaved, mLost>>

\* recordWorkingProgress: the run is neither stuck nor out of its bounds
NoteProgress(r) ==
    /\ mLoops[r].at = "judging"
    /\ mNotes' = mNotes \cup {Note(r, "long-horizon-progress")}
    /\ Move(r, "acting")
    /\ UNCHANGED <<mStore, mRuns, mMade, mSaved, mLost>>

\* done, stopped or superseded, which a loop notices only here
LeaveMemory(r) ==
    /\ mLoops[r].at = "top"
    /\ mLoops' = [mLoops EXCEPT ![r] = Idle]
    /\ UNCHANGED <<mStore, mNotes, mRuns, mMade, mSaved, mLost>>

\* the cycle ends, or goes on, with nothing to remember
PassOver(r) ==
    /\ mLoops[r].at \in {"judging", "acting"}
    /\ Move(r, "top")
    /\ UNCHANGED <<mStore, mNotes, mRuns, mMade, mSaved, mLost>>

\* the run is stuck, after which the cycle ends or goes on; a gate refused, the
\* action failed or had no effect, after which it ends
StepFails(r) ==
    /\ mLoops[r].at \in {"judging", "acting"}
    /\ UNCHANGED mNotes

\* the action had its effect: a note and a record
StepSucceeds(r) == mLoops[r].at = "acting" /\ mNotes' = mNotes \cup {Note(r, "STEP_RESULT")}

\* what of it is to be kept, if the firewall lets it pass
Remember(r) ==
    /\ mMade < MaxRecords
    /\ mMade' = mMade + 1
    /\ \E class \in Stored :
          /\ IF class = "FAILURE" THEN StepFails(r) ELSE StepSucceeds(r)
          /\ LET on == IF mLoops[r].at = "judging" THEN {"top", "judging"} ELSE {"top"}
             IN  \/ \E at \in on : Move(r, at)
                 \/ mLoops' = [mLoops EXCEPT ![r].at = "reading", ![r].then = on,
                        ![r].record = [class |-> class, site |-> mLoops[r].site,
                                       createdAt |-> mMade']]
    /\ UNCHANGED <<mStore, mRuns, mSaved, mLost>>

\* write has come to its end, with or without success
WriteEnds(r) ==
    \E at \in mLoops[r].then :
        mLoops' = [mLoops EXCEPT ![r].at = at, ![r].then = {},
                                 ![r].copy = None, ![r].record = None]

\* validateEgressPayload finds a key in the record that none may have
BlockWrite(r) ==
    /\ mLoops[r].at = "reading"
    /\ WriteEnds(r)
    /\ UNCHANGED <<mStore, mNotes, mRuns, mMade, mSaved, mLost>>

\* readAllSafe
ReadStore(r) ==
    /\ mLoops[r].at = "reading"
    /\ mLoops' = [mLoops EXCEPT ![r].at = "saving", ![r].copy = mStore]
    /\ UNCHANGED <<mStore, mNotes, mRuns, mMade, mSaved, mLost>>

\* chrome.storage.local.set, which may fail
SaveStore(r) ==
    LET copy == mLoops[r].copy
        record == mLoops[r].record
    IN  /\ mLoops[r].at = "saving"
        /\ WriteEnds(r)
        /\ \/ /\ mStore' = Written(copy, record)
              /\ mLost' = mLost \cup (mStore["FAILURE"] \ copy["FAILURE"])
              /\ mSaved' = mSaved \cup {f \in {record} : f.class = "FAILURE"}
           \/ UNCHANGED <<mStore, mSaved, mLost>>
        /\ UNCHANGED <<mNotes, mRuns, mMade>>

\* the worker is lost with all its loops and notes
WorkerDies ==
    /\ mNotes' = {}
    /\ mLoops' = [r \in 1 .. MemoryRuns |-> Idle]
    /\ UNCHANGED <<mStore, mRuns, mMade, mSaved, mLost>>

MemoryNext ==
    \/ StartRun \/ WorkerDies
    \/ \E r \in 1 .. MemoryRuns :
          \/ Recall(r) \/ NoteProgress(r) \/ PassOver(r) \/ LeaveMemory(r)
          \/ Remember(r) \/ BlockWrite(r) \/ ReadStore(r) \/ SaveStore(r)

MemorySpec == MemoryInit /\ [][MemoryNext]_memoryVars

-----------------------------------------------------------------------------
(* Properties.                                                             *)

\* A run that looks at a site recalls every failure any run has recorded
\* there, unless as many as a class holds were recorded since or the record
\* fell to another run's write that had read the store before it: neither a
\* success, which rewrites the failures too, nor the eviction, nor the loss of
\* the worker hides what is recent (memoryStore.ts, "oldest first").
FailuresAreRecalled ==
    [][\A r \in 1 .. MemoryRuns :
        mLoops[r].at = "top" /\ mLoops'[r].at = "judging" =>
            \A f \in mSaved : f.site = mLoops'[r].site =>
                \/ f \in mLoops'[r].hints
                \/ f \in mLost
                \/ Cardinality({g \in mSaved : g.createdAt > f.createdAt}) >= MaxKept]_memoryVars

=============================================================================
