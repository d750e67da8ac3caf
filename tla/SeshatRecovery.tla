--------------------------- MODULE SeshatRecovery ---------------------------
(***************************************************************************)
(* Rebuilding the index from the events table: RecoveryDatabase, driven by *)
(* the reindex function of the JNI bindings, and the Database opened after *)
(* it.  The loop pages through the messages from the newest to the oldest, *)
(* every page starting from the last event of the page before.             *)
(***************************************************************************)
EXTENDS Integers, FiniteSets

CONSTANTS
    Events,      \* rows of the events table
    EventIds,    \* Matrix event ids
    IdTables,    \* the ids that the events of a table may have
    Times,       \* server timestamps
    PageSize,    \* the limit of the reindex function's queries
    NoEvent,     \* there is no event to continue from
    CommitRate,  \* COMMIT_RATE
    MaxCrashes   \* bound of the model: times the process ends early

\* The type of an event decides whether load_all_events selects it, its source
\* whether event_from_json can parse it.
Kinds == {"message", "unparseable", "other"}

ASSUME EventsAssumption == IsFiniteSet(Events)
ASSUME IdAssumption == IdTables \subseteq [Events -> EventIds]
ASSUME TimesAssumption == Times \subseteq Nat
ASSUME PageSizeAssumption == PageSize \in Nat \ {0}
ASSUME NoEventAssumption == NoEvent \notin Events
ASSUME RateAssumption == CommitRate \in Nat \ {0}
ASSUME CrashesAssumption == MaxCrashes \in Nat

VARIABLES
    \* the events table, only read here: the columns the queries look at
    eventId,          \* the same for events of two rooms, maybe
    serverTs,
    kind,
    uncommitted,      \* events with a row in uncommitted_events
    reindexNeeded,    \* table reindex_needed
    indexFiles,       \* files of the index: "whole", "some" or "none"
    docs,             \* committed documents of every event
    buffer,           \* documents added and not committed
    addedEvents,      \* index::Writer::added_events
    stage,            \* the next step of reindex, or of the Database
    page,             \* what load_events_deserialized returned
    lastEvent,        \* events.last()
    reindexed,        \* RecoveryInfo::reindexed_events
    crashes,
    \* history, read by properties only
    blindPage,        \* a page of the last reindex had rows, but none that parses
    unasked           \* an unfinished reindex that reindex_needed did not ask for

table == <<eventId, serverTs, kind>>
index == <<docs, buffer, addedEvents>>
loop == <<page, lastEvent, reindexed, blindPage>>

vars == <<table, uncommitted, reindexNeeded, indexFiles, index, stage, loop, crashes,
          unasked>>

-----------------------------------------------------------------------------
Stage == {"closed", "opened", "deleting", "deleted", "loadFirst", "indexFirst",
          "load", "index", "commit", "forceCommit", "clearFlag", "database"}

Messages == {e \in Events : kind[e] \in {"message", "unparseable"}}

\* Mutant: the event to continue from is selected again.
ContinueAtEvent ==
    IF lastEvent = NoEvent THEN Messages
    ELSE {e \in Messages : serverTs[e] <= serverTs[lastEvent]}

\* Mutant: only older events are selected.
ContinueBeforeTime ==
    IF lastEvent = NoEvent THEN Messages
    ELSE {e \in Messages : serverTs[e] < serverTs[lastEvent]}

\* The WHERE clauses of load_all_events: another event of the same id is left out
\* as well, whatever its room.
Selectable ==
    IF lastEvent = NoEvent THEN Messages
    ELSE {e \in Messages : eventId[e] # eventId[lastEvent] /\ serverTs[e] <= serverTs[lastEvent]}

\* ORDER BY server_ts DESC LIMIT: nothing left out is newer than what is in.
\* Ties are broken as SQLite likes.
IsQueryResult(P) ==
    /\ P \subseteq Selectable
    /\ Cardinality(P) <= PageSize
    /\ P # Selectable => Cardinality(P) = PageSize
    /\ \A e \in P, f \in Selectable \ P : serverTs[f] <= serverTs[e]

Parsed(P) == {e \in P : kind[e] = "message"}

\* The last event of a page in the order of the query.
IsLast(e, P) ==
    \/ P = {} /\ e = NoEvent
    \/ e \in P /\ \A f \in P : serverTs[e] <= serverTs[f]

\* load_events_deserialized(PageSize, events.last()): what fails to parse is
\* filtered out, and events.last() is the last of the rest.
LoadPage ==
    \E P \in SUBSET Selectable :
        /\ IsQueryResult(P)
        /\ page' = Parsed(P)
        /\ IsLast(lastEvent', page')
        /\ blindPage' = (blindPage \/ (P # {} /\ page' = {}))

-----------------------------------------------------------------------------
(* The index writer.  With equal timestamps the loop may go on for ever: its *)
(* counters stop growing (a bound of the model) where no code or property     *)
(* tells larger values apart: several documents of an event, COMMIT_RATE      *)
(* events added, more events indexed than there are.                          *)

UpTo(limit, n) == IF n > limit THEN limit ELSE n

NoDocs == [e \in Events |-> 0]

Several == 2

Copies(e) == UpTo(Several, docs[e] + buffer[e])

\* Writer::add_event for every event of S.
AddDocs(S) ==
    /\ buffer' = [e \in Events |-> IF e \in S THEN UpTo(Several, buffer[e] + 1) ELSE buffer[e]]
    /\ addedEvents' = UpTo(CommitRate, addedEvents + Cardinality(S))
    /\ UNCHANGED docs

\* The index and buffer after a commit of tantivy.
CommitIndex ==
    /\ docs' = [e \in Events |-> Copies(e)]
    /\ buffer' = NoDocs
    /\ addedEvents' = 0

\* Writer::commit_helper; elapsed says that COMMIT_TIME has passed.
CommitHelper(force, elapsed) ==
    IF addedEvents > 0 /\ (force \/ addedEvents >= CommitRate \/ elapsed)
    THEN CommitIndex
    ELSE UNCHANGED index

-----------------------------------------------------------------------------
(* RecoveryDatabase, in the order in which reindex calls it.               *)

Step(from, to) == stage = from /\ stage' = to

\* Mutant: the count of an interrupted reindex goes on.
CountKept == reindexed

CountReset == 0

\* RecoveryDatabase::new: it does not look at reindex_needed.
OpenRecovery ==
    /\ Step("closed", "opened")
    /\ page' = {} /\ lastEvent' = NoEvent
    /\ reindexed' = CountReset
    /\ UNCHANGED <<table, uncommitted, reindexNeeded, indexFiles, index, blindPage,
                   crashes, unasked>>

\* shutdown, or the finalizer, before anything is deleted.
CloseRecovery ==
    /\ Step("opened", "closed")
    /\ UNCHANGED <<table, uncommitted, reindexNeeded, indexFiles, index, loop, crashes, unasked>>

\* delete_the_index removes the files of the index one by one.
DeleteSomeFiles ==
    /\ Step("opened", "deleting")
    /\ indexFiles' = "some"
    /\ unasked' = (unasked \/ ~reindexNeeded)
    /\ UNCHANGED <<table, uncommitted, reindexNeeded, index, loop, crashes>>

DeleteLastFile ==
    /\ Step("deleting", "deleted")
    /\ indexFiles' = "none"
    /\ docs' = NoDocs
    /\ blindPage' = FALSE
    /\ UNCHANGED <<table, uncommitted, reindexNeeded, buffer, addedEvents, page, lastEvent,
                   reindexed, crashes, unasked>>

OpenIndex ==
    /\ Step("deleted", "loadFirst")
    /\ indexFiles' = "whole"
    /\ UNCHANGED <<table, uncommitted, reindexNeeded, index, loop, crashes, unasked>>

LoadFirst ==
    /\ Step("loadFirst", "indexFirst")
    /\ LoadPage
    /\ UNCHANGED <<table, uncommitted, reindexNeeded, indexFiles, index, reindexed,
                   crashes, unasked>>

\* index_events.
IndexEvents ==
    /\ AddDocs(page)
    /\ reindexed' = UpTo(Cardinality(Events) + 1, reindexed + Cardinality(page))
    /\ UNCHANGED <<table, uncommitted, reindexNeeded, indexFiles, page, lastEvent,
                   blindPage, crashes, unasked>>

\* The first page is indexed without a commit.
IndexFirst == Step("indexFirst", "load") /\ IndexEvents

\* events.is_empty() ends the loop.
Load ==
    /\ stage = "load"
    /\ LoadPage
    /\ stage' = IF page' = {} THEN "forceCommit" ELSE "index"
    /\ UNCHANGED <<table, uncommitted, reindexNeeded, indexFiles, index, reindexed,
                   crashes, unasked>>

IndexPage == Step("index", "commit") /\ IndexEvents

CommitPage ==
    /\ Step("commit", "load")
    /\ \E elapsed \in BOOLEAN : CommitHelper(FALSE, elapsed)
    /\ UNCHANGED <<table, uncommitted, reindexNeeded, indexFiles, loop, crashes, unasked>>

\* Mutant: commit_and_close commits at the usual rate.
CloseUnforced == CommitHelper(FALSE, FALSE)

CloseForced == CommitHelper(TRUE, FALSE)

\* commit_and_close: the index is committed, then the flag is cleared.
ForceCommit ==
    /\ Step("forceCommit", "clearFlag")
    /\ CloseForced
    /\ UNCHANGED <<table, uncommitted, reindexNeeded, indexFiles, loop, crashes, unasked>>

ClearFlag ==
    /\ Step("clearFlag", "closed")
    /\ reindexNeeded' = FALSE
    /\ unasked' = FALSE
    /\ UNCHANGED <<table, uncommitted, indexFiles, index, loop, crashes>>

\* The process is killed, or a call of reindex fails and its unwrap ends it.
Crash ==
    /\ stage \notin {"closed", "database"}
    /\ crashes < MaxCrashes
    /\ crashes' = crashes + 1
    /\ stage' = "closed"
    /\ buffer' = NoDocs /\ addedEvents' = 0
    /\ UNCHANGED <<table, uncommitted, reindexNeeded, indexFiles, docs, loop,
                   unasked>>

-----------------------------------------------------------------------------
(* The Database afterwards.                                                *)

\* new_with_config answers ReindexError while the flag is set.  With some files
\* of an index left, tantivy may refuse to open it, or create
\* an empty one when the list of segments is gone.
OpenDatabase ==
    /\ Step("closed", "database")
    /\ ~reindexNeeded
    /\ indexFiles' = "whole"
    /\ docs' = IF indexFiles = "whole" THEN docs ELSE NoDocs
    /\ UNCHANGED <<table, uncommitted, reindexNeeded, buffer, addedEvents, loop, crashes, unasked>>

CloseDatabase ==
    /\ Step("database", "closed")
    /\ UNCHANGED <<table, uncommitted, reindexNeeded, indexFiles, index, loop, crashes, unasked>>

\* The first forced commit of a session: load_unprocessed_events adds what
\* uncommitted_events still lists, commits it and clears the table.
LoadUnprocessed ==
    /\ stage = "database"
    /\ docs' = [e \in Events |-> IF e \in uncommitted THEN UpTo(Several, docs[e] + 1) ELSE docs[e]]
    /\ uncommitted' = {}
    /\ UNCHANGED <<table, reindexNeeded, indexFiles, buffer, addedEvents, stage,
                   loop, crashes, unasked>>

-----------------------------------------------------------------------------
\* An index of an earlier version, complete but for the uncommitted events.
Init ==
    /\ eventId \in IdTables
    /\ serverTs \in [Events -> Times]
    /\ kind \in [Events -> Kinds]
    /\ uncommitted \in SUBSET Events
    /\ reindexNeeded \in BOOLEAN
    /\ indexFiles = "whole"
    /\ docs = [e \in Events |-> IF e \in uncommitted THEN 0 ELSE 1]
    /\ buffer = NoDocs /\ addedEvents = 0
    /\ stage = "closed"
    /\ page = {} /\ lastEvent = NoEvent
    /\ reindexed = 0
    /\ crashes = 0
    /\ blindPage = FALSE
    /\ unasked = FALSE

\* reindex, once it runs, to its end.
ReindexStep ==
    \/ DeleteLastFile \/ OpenIndex
    \/ LoadFirst \/ IndexFirst \/ Load \/ IndexPage \/ CommitPage
    \/ ForceCommit \/ ClearFlag

Next ==
    \/ OpenRecovery \/ CloseRecovery
    \/ DeleteSomeFiles \/ ReindexStep
    \/ Crash
    \/ OpenDatabase \/ LoadUnprocessed \/ CloseDatabase

Spec == Init /\ [][Next]_vars

\* reindex is one call: the thread in it keeps running.
FairSpec == Spec /\ WF_vars(ReindexStep)

-----------------------------------------------------------------------------
(* Properties.                                                             *)

\* The state is made of what the tables, the index and the loop can hold.
TypeOK ==
    /\ eventId \in IdTables
    /\ serverTs \in [Events -> Times]
    /\ kind \in [Events -> Kinds]
    /\ uncommitted \in SUBSET Events
    /\ reindexNeeded \in BOOLEAN
    /\ indexFiles \in {"whole", "some", "none"}
    /\ docs \in [Events -> 0..Several]
    /\ buffer \in [Events -> 0..Several]
    /\ addedEvents \in 0..CommitRate
    /\ stage \in Stage
    /\ page \in SUBSET Events
    /\ lastEvent \in Events \cup {NoEvent}
    /\ reindexed \in Nat
    /\ crashes \in Nat
    /\ blindPage \in BOOLEAN
    /\ unasked \in BOOLEAN

DistinctIds == \A e, f \in Events : eventId[e] = eventId[f] => e = f

DistinctTimes == \A e, f \in Messages : serverTs[e] = serverTs[f] => e = f

\* The messages that parse and whose id no other message has.
Singular ==
    {e \in Parsed(Messages) : \A f \in Messages : eventId[f] = eventId[e] => f = e}

\* A database opens only with an index that has every message that parses, or a
\* row that adds it: whatever crashed on the way, whatever timestamps tie.
\* The code does not keep this in three cases, which are left out: after a page of
\* which nothing parses; after a reindex that nothing asked for and that did not
\* end; and for a message whose id a message of another room has, which is skipped
\* for good when the other is the last of a page, because the query that goes on
\* from there leaves out that id in every room (the table's other messages are
\* still all there).
OpensComplete ==
    ~blindPage /\ ~unasked /\ stage = "database"
    => \A e \in Singular : docs[e] > 0 \/ e \in uncommitted

\* An event is indexed once if no two timestamps are equal, however often the
\* reindex was interrupted and started again.
IndexedOnce ==
    DistinctTimes /\ DistinctIds /\ stage \notin {"closed", "opened", "deleting", "database"}
    => \A e \in Events : Copies(e) <= 1

\* The progress shown to the user is the number of events indexed so far.
ProgressTold ==
    DistinctTimes /\ DistinctIds /\ stage \in {"load", "commit", "forceCommit", "clearFlag"}
    => reindexed = Cardinality({e \in Events : Copies(e) > 0})

\* Liveness: without ties a reindex that has begun ends.
ReindexEnds == DistinctTimes /\ stage = "deleting" ~> stage = "closed"

-----------------------------------------------------------------------------
(* The inductive invariant behind OpensComplete.                            *)

Rebuilding == {"deleting", "deleted", "loadFirst", "indexFirst", "load", "index",
               "commit", "forceCommit", "clearFlag"}

\* While the index is rebuilt, reindex_needed says so or nothing asked for it;
\* no database is open while it does.
RebuildKnown ==
    /\ stage \in Rebuilding => reindexNeeded \/ unasked
    /\ stage = "database" => ~reindexNeeded

\* added_events counts the buffered documents: none are left behind when it is 0.
BufferCounted == addedEvents = 0 => buffer = NoDocs

\* A reindex starts from the newest message and writes to a new index.
StartsAfresh ==
    /\ stage \in {"opened", "deleting", "deleted", "loadFirst"} => lastEvent = NoEvent
    /\ stage \in Rebuilding \ {"deleting", "deleted"} => indexFiles = "whole"

\* Between two queries what is not indexed will still be selected ...
AheadOrIndexed == \A e \in Singular : Copies(e) > 0 \/ e \in Selectable

\* ... or is in the page that is about to be indexed.
AheadOrInPage == \A e \in Singular : Copies(e) > 0 \/ e \in Selectable \/ e \in page

AllAdded == \A e \in Singular : Copies(e) > 0

AllIndexed == \A e \in Singular : docs[e] > 0

AllRecorded == \A e \in Singular : docs[e] > 0 \/ e \in uncommitted

LoopCovers ==
    ~blindPage
    => /\ stage \in {"load", "commit"} => AheadOrIndexed
       /\ stage \in {"indexFirst", "index"} => AheadOrInPage
       /\ stage = "forceCommit" => AllAdded
       /\ stage = "clearFlag" => AllIndexed
       /\ ~unasked /\ ~reindexNeeded => AllRecorded /\ indexFiles = "whole"

RecoveryInv == TypeOK /\ RebuildKnown /\ BufferCounted /\ StartsAfresh /\ LoopCovers

-----------------------------------------------------------------------------
(* The inductive invariant behind IndexedOnce and ProgressTold.             *)

\* Nothing is buffered outside of the loop, so that a new index starts empty.
BufferEmpty ==
    stage \in {"closed", "opened", "deleting", "deleted", "loadFirst", "clearFlag", "database"}
    => buffer = NoDocs

Indexed == {e \in Events : Copies(e) > 0}

\* What is indexed is not older than the event the next query continues from, so
\* that neither this page nor a later one has it again.
Behind(S) ==
    \A e \in S : e \in Messages /\ lastEvent \in Messages /\ serverTs[e] >= serverTs[lastEvent]

OnceInv ==
    DistinctTimes /\ DistinctIds
    => /\ stage \in {"opened", "deleting", "deleted", "loadFirst"} => reindexed = 0
       /\ stage \in {"deleted", "loadFirst"} => Indexed = {}
       /\ stage \in Rebuilding \ {"deleting"}
          => /\ \A e \in Events : Copies(e) <= 1
             /\ reindexed = Cardinality(Indexed)
       /\ stage \in {"indexFirst", "load", "index", "commit"} => Behind(Indexed)
       /\ stage \in {"indexFirst", "index"} => Behind(page) /\ page \cap Indexed = {}

ProgressInv == RecoveryInv /\ BufferEmpty /\ OnceInv
=============================================================================
