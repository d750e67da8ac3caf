------------------------ MODULE SeshatRecoveryProofs ------------------------
(***************************************************************************)
(* Proofs about SeshatRecovery: a database that opens has every message     *)
(* with an id of its own in its index, for every table of events, every way *)
(* in which SQLite may order equal timestamps, and every point at which a   *)
(* reindex may be cut.                                                      *)
(***************************************************************************)
EXTENDS SeshatRecovery, FiniteSetTheorems, TLAPS

\* A page has at most as many rows as the table, a number.
LEMMA PageCardinality ==
    ASSUME NEW P \in SUBSET Events
    PROVE  Cardinality(P) \in Nat
BY EventsAssumption, FS_Subset, FS_CardinalityType

\* A query without rows: nothing was left to select.
LEMMA EmptyResult ==
    ASSUME IsQueryResult({})
    PROVE  Selectable = {}
<1>1. Cardinality({}) = 0
    BY FS_EmptySet
<1>2. PageSize # 0
    BY PageSizeAssumption
<1> QED BY <1>1, <1>2 DEF IsQueryResult

\* What UpTo counts stays in its range, and counting on never returns to zero.
LEMMA UpToCounts ==
    ASSUME NEW limit \in Nat, NEW n \in Nat
    PROVE  /\ UpTo(limit, n) \in 0..limit
           /\ limit > 0 /\ n > 0 => UpTo(limit, n) > 0
BY DEF UpTo

-----------------------------------------------------------------------------
\* The types of LoadPage's results.
LEMMA LoadPageType ==
    ASSUME TypeOK, LoadPage
    PROVE  /\ page' \in SUBSET Events
           /\ lastEvent' \in Events \cup {NoEvent}
           /\ blindPage' \in BOOLEAN
<1>1. Selectable \subseteq Events
    BY DEF Selectable, Messages
<1>2. PICK P \in SUBSET Selectable :
        /\ page' = Parsed(P)
        /\ IsLast(lastEvent', page')
        /\ blindPage' = (blindPage \/ (P # {} /\ page' = {}))
    BY DEF LoadPage
<1>3. page' \in SUBSET Events
    BY <1>1, <1>2 DEF Parsed
<1>4. lastEvent' \in Events \cup {NoEvent}
    BY <1>2, <1>3 DEF IsLast
<1>5. blindPage' \in BOOLEAN
    BY <1>2 DEF TypeOK
<1> QED BY <1>3, <1>4, <1>5

\* The types of the index after documents are added ...
LEMMA AddDocsType ==
    ASSUME TypeOK, NEW S \in SUBSET Events, AddDocs(S)
    PROVE  /\ docs' \in [Events -> 0..Several]
           /\ buffer' \in [Events -> 0..Several]
           /\ addedEvents' \in 0..CommitRate
<1>1. docs' \in [Events -> 0..Several]
    BY DEF TypeOK, AddDocs
<1>2. \A e \in Events : UpTo(Several, buffer[e] + 1) \in 0..Several
    BY DEF TypeOK, UpTo, Several
<1>3. buffer' \in [Events -> 0..Several]
    BY <1>2 DEF TypeOK, AddDocs
<1>4. addedEvents' \in 0..CommitRate
    <2>1. Cardinality(S) \in Nat /\ addedEvents \in Nat /\ CommitRate \in Nat
        BY PageCardinality, RateAssumption DEF TypeOK
    <2>2. addedEvents + Cardinality(S) \in Nat
        BY <2>1
    <2>3. UpTo(CommitRate, addedEvents + Cardinality(S)) \in 0..CommitRate
        BY <2>1, <2>2, UpToCounts
    <2> QED BY <2>3 DEF AddDocs
<1> QED BY <1>1, <1>3, <1>4

\* ... and after a commit.
LEMMA CommitType ==
    ASSUME TypeOK, NEW force \in BOOLEAN, NEW elapsed \in BOOLEAN,
           CommitHelper(force, elapsed)
    PROVE  /\ docs' \in [Events -> 0..Several]
           /\ buffer' \in [Events -> 0..Several]
           /\ addedEvents' \in 0..CommitRate
<1>1. CASE CommitIndex
    <2>1. \A e \in Events : Copies(e) \in 0..Several
        BY DEF TypeOK, Copies, UpTo, Several
    <2>2. 0 \in 0..Several /\ 0 \in 0..CommitRate
        BY RateAssumption DEF Several
    <2> QED BY <1>1, <2>1, <2>2 DEF CommitIndex, NoDocs
<1>2. CASE UNCHANGED index
    BY <1>2 DEF index, TypeOK
<1> QED BY <1>1, <1>2 DEF CommitHelper

LEMMA EmptyIndexType ==
    NoDocs \in [Events -> 0..Several] /\ 0 \in 0..CommitRate
BY RateAssumption DEF NoDocs, Several

-----------------------------------------------------------------------------
(* The type invariant.                                                     *)

LEMMA InitType == Init => TypeOK
<1> SUFFICES ASSUME Init PROVE TypeOK
    OBVIOUS
<1>1. docs \in [Events -> 0..Several] /\ buffer \in [Events -> 0..Several]
    BY EmptyIndexType DEF Init, Several
<1>2. addedEvents \in 0..CommitRate
    BY EmptyIndexType DEF Init
<1> QED BY <1>1, <1>2 DEF Init, TypeOK, Stage

LEMMA IndexEventsType ==
    ASSUME TypeOK, IndexEvents, stage' \in Stage
    PROVE  TypeOK'
<1>1. /\ docs' \in [Events -> 0..Several]
      /\ buffer' \in [Events -> 0..Several]
      /\ addedEvents' \in 0..CommitRate
    BY AddDocsType DEF IndexEvents, TypeOK
<1>2. reindexed' \in Nat
    <2>1. Cardinality(page) \in Nat /\ Cardinality(Events) \in Nat
        BY PageCardinality DEF TypeOK
    <2>2. reindexed + Cardinality(page) \in Nat /\ Cardinality(Events) + 1 \in Nat
        BY <2>1 DEF TypeOK
    <2> QED BY <2>2, UpToCounts DEF IndexEvents
<1> QED BY <1>1, <1>2 DEF IndexEvents, TypeOK, table

LEMMA NextType == TypeOK /\ [Next]_vars => TypeOK'
<1> SUFFICES ASSUME TypeOK, [Next]_vars PROVE TypeOK'
    OBVIOUS
<1>1. CASE LoadFirst \/ Load
    <2>1. /\ page' \in SUBSET Events
          /\ lastEvent' \in Events \cup {NoEvent}
          /\ blindPage' \in BOOLEAN
        BY <1>1, LoadPageType DEF LoadFirst, Load
    <2>2. stage' \in Stage
        BY <1>1 DEF LoadFirst, Load, Step, Stage
    <2> QED BY <1>1, <2>1, <2>2 DEF LoadFirst, Load, TypeOK, table, index
<1>2. CASE IndexFirst \/ IndexPage
    BY <1>2, IndexEventsType DEF IndexFirst, IndexPage, Step, Stage
<1>3. CASE CommitPage \/ ForceCommit
    <2>1. /\ docs' \in [Events -> 0..Several]
          /\ buffer' \in [Events -> 0..Several]
          /\ addedEvents' \in 0..CommitRate
        BY <1>3, CommitType DEF CommitPage, ForceCommit, CloseForced
    <2> QED BY <1>3, <2>1 DEF CommitPage, ForceCommit, Step, Stage, TypeOK, table, loop
<1>4. CASE Crash
    BY <1>4, EmptyIndexType DEF Crash, TypeOK, Stage, table, loop
<1>5. CASE DeleteLastFile
    BY <1>5, EmptyIndexType DEF DeleteLastFile, Step, TypeOK, Stage, table
<1>6. CASE OpenDatabase
    BY <1>6, EmptyIndexType DEF OpenDatabase, Step, TypeOK, Stage, table, loop
<1>7. CASE LoadUnprocessed
    <2>1. \A e \in Events : UpTo(Several, docs[e] + 1) \in 0..Several
        BY DEF TypeOK, UpTo, Several
    <2>2. docs' \in [Events -> 0..Several]
        BY <1>7, <2>1 DEF LoadUnprocessed, TypeOK
    <2> QED BY <1>7, <2>2 DEF LoadUnprocessed, TypeOK, table, loop
<1>8. CASE OpenRecovery
    BY <1>8 DEF OpenRecovery, Step, CountReset, TypeOK, Stage, table, index
<1>9. CASE DeleteSomeFiles \/ OpenIndex \/ ClearFlag
    BY <1>9 DEF DeleteSomeFiles, OpenIndex, ClearFlag, Step, TypeOK, Stage, table, index, loop
<1>10. CASE CloseRecovery \/ CloseDatabase
    BY <1>10 DEF CloseRecovery, CloseDatabase, Step, TypeOK, Stage, table, index, loop
<1>11. CASE UNCHANGED vars
    BY <1>11 DEF vars, table, index, loop, TypeOK
<1> QED
    BY <1>1, <1>2, <1>3, <1>4, <1>5, <1>6, <1>7, <1>8, <1>9, <1>10, <1>11
    DEF Next, ReindexStep

\* The types of the tables, the index and the loop hold in every reachable
\* state of RecoveryDatabase and of the Database opened after it.
THEOREM RecoveryTypeCorrect == Spec => []TypeOK
<1>1. Init => TypeOK
    BY InitType
<1>2. TypeOK /\ [Next]_vars => TypeOK'
    BY NextType
<1> QED BY <1>1, <1>2, PTL DEF Spec

-----------------------------------------------------------------------------
(* The steps of the reindex loop.                                          *)

\* What a query does to the events still to index: they are in the page it
\* returns or will be selected by the next query.
LEMMA LoadPageCovers ==
    ASSUME TypeOK, ~blindPage', LoadPage, UNCHANGED table, UNCHANGED index,
           \A e \in Singular : Copies(e) > 0 \/ e \in Selectable
    PROVE  \A e \in Singular :
              Copies(e) > 0 \/ e \in page' \/ (page' # {} /\ e \in Selectable')
<1> SUFFICES ASSUME NEW e \in Singular, ~(Copies(e) > 0)
             PROVE  e \in page' \/ (page' # {} /\ e \in Selectable')
    OBVIOUS
<1>1. PICK P \in SUBSET Selectable :
        /\ IsQueryResult(P)
        /\ page' = Parsed(P)
        /\ IsLast(lastEvent', page')
        /\ blindPage' = (blindPage \/ (P # {} /\ page' = {}))
    BY DEF LoadPage
<1>2. e \in Selectable /\ e \in Events /\ kind[e] = "message"
    BY DEF Singular, Parsed, Messages
<1>3. P # {}
    BY <1>1, <1>2, EmptyResult
<1>4. page' # {}
    BY <1>1, <1>3
<1>5. CASE e \in P
    BY <1>1, <1>2, <1>5 DEF Parsed
<1>6. CASE e \notin P
    <2>1. lastEvent' \in page' /\ lastEvent' \in P /\ lastEvent' \in Events
        BY <1>1, <1>4 DEF IsLast, Parsed, Selectable, Messages
    <2>2. lastEvent' # NoEvent
        BY <2>1, NoEventAssumption
    <2>3. serverTs[e] <= serverTs[lastEvent']
        BY <1>1, <1>2, <1>6, <2>1 DEF IsQueryResult
    <2>4. lastEvent' \in Messages /\ eventId[e] # eventId[lastEvent']
        BY <1>2, <1>6, <2>1 DEF Singular, Selectable
    <2>5. serverTs' = serverTs /\ eventId' = eventId /\ Messages' = Messages
        BY DEF table, Messages
    <2>6. e \in Messages'
        BY <1>2, <2>5 DEF Messages
    <2>7. e \in Selectable'
        BY <2>2, <2>3, <2>4, <2>5, <2>6 DEF Selectable
    <2> QED BY <1>4, <2>7
<1> QED BY <1>5, <1>6

\* What index_events adds has a document.
LEMMA IndexEventsCovers ==
    ASSUME TypeOK, IndexEvents, NEW e \in Events, Copies(e) > 0 \/ e \in page
    PROVE  Copies(e)' > 0
<1>1. docs[e] \in Nat /\ buffer[e] \in Nat /\ docs' = docs
    BY DEF TypeOK, IndexEvents, AddDocs, Several
<1>2. CASE e \in page
    <2>1. buffer'[e] = UpTo(Several, buffer[e] + 1)
        BY <1>2 DEF IndexEvents, AddDocs
    <2>2. buffer'[e] > 0 /\ buffer'[e] \in Nat
        BY <1>1, <2>1 DEF UpTo, Several
    <2> QED BY <1>1, <2>2 DEF Copies, UpTo, Several
<1>3. CASE e \notin page
    <2>1. buffer'[e] = buffer[e]
        BY <1>3 DEF IndexEvents, AddDocs
    <2> QED BY <1>1, <1>3, <2>1 DEF Copies
<1> QED BY <1>2, <1>3

\* A commit loses no document ...
LEMMA CommitKeepsCopies ==
    ASSUME TypeOK, NEW force \in BOOLEAN, NEW elapsed \in BOOLEAN,
           CommitHelper(force, elapsed), NEW e \in Events, Copies(e) > 0
    PROVE  Copies(e)' > 0
<1>1. CASE CommitIndex
    <2>1. docs'[e] = Copies(e) /\ buffer'[e] = 0
        BY <1>1 DEF CommitIndex, NoDocs
    <2>2. Copies(e) \in Nat
        BY DEF TypeOK, Copies, UpTo, Several
    <2> QED BY <2>1, <2>2 DEF Copies, UpTo, Several
<1>2. CASE UNCHANGED index
    BY <1>2 DEF index, Copies
<1> QED BY <1>1, <1>2 DEF CommitHelper

-----------------------------------------------------------------------------
(* The inductive invariant, part by part.                                  *)

LEMMA InitInv == Init => RecoveryInv
<1> SUFFICES ASSUME Init PROVE RecoveryInv
    OBVIOUS
<1>1. TypeOK
    BY InitType
<1>2. RebuildKnown /\ BufferCounted /\ StartsAfresh
    BY DEF Init, RebuildKnown, BufferCounted, StartsAfresh, Rebuilding
<1>3. LoopCovers
    <2>1. \A e \in Singular : e \in Events
        BY DEF Singular, Parsed, Messages
    <2>2. AllRecorded
        BY <2>1 DEF Init, AllRecorded
    <2> QED BY <2>2 DEF Init, LoopCovers
<1> QED BY <1>1, <1>2, <1>3 DEF RecoveryInv

LEMMA NextRebuildKnown ==
    ASSUME RebuildKnown, [Next]_vars
    PROVE  RebuildKnown'
<1>1. CASE DeleteSomeFiles
    BY <1>1 DEF DeleteSomeFiles, Step, RebuildKnown, Rebuilding
<1>2. CASE ClearFlag \/ Crash
    BY <1>2 DEF ClearFlag, Crash, Step, RebuildKnown, Rebuilding
<1>3. CASE \/ OpenRecovery \/ CloseRecovery \/ DeleteLastFile \/ OpenIndex
           \/ LoadFirst \/ IndexFirst \/ Load \/ IndexPage \/ CommitPage \/ ForceCommit
    <2>1. UNCHANGED <<reindexNeeded, unasked>>
        BY <1>3 DEF OpenRecovery, CloseRecovery, DeleteLastFile, OpenIndex, LoadFirst,
                    IndexFirst, Load, IndexPage, IndexEvents, CommitPage, ForceCommit
    <2>2. stage' # "database" /\ (stage' \in Rebuilding => stage \in Rebuilding)
        BY <1>3 DEF OpenRecovery, CloseRecovery, DeleteLastFile, OpenIndex, LoadFirst,
                    IndexFirst, Load, IndexPage, CommitPage, ForceCommit, Step, Rebuilding
    <2> QED BY <2>1, <2>2 DEF RebuildKnown
<1>4. CASE OpenDatabase \/ LoadUnprocessed \/ CloseDatabase
    BY <1>4 DEF OpenDatabase, LoadUnprocessed, CloseDatabase, Step, RebuildKnown, Rebuilding
<1>5. CASE UNCHANGED vars
    BY <1>5 DEF vars, RebuildKnown
<1> QED BY <1>1, <1>2, <1>3, <1>4, <1>5 DEF Next, ReindexStep

\* Adding documents counts them.
LEMMA AddDocsCounted ==
    ASSUME TypeOK, BufferCounted, NEW S \in SUBSET Events, AddDocs(S)
    PROVE  BufferCounted'
<1> SUFFICES ASSUME addedEvents' = 0 PROVE buffer' = NoDocs
    BY DEF BufferCounted, NoDocs
<1>1. addedEvents \in Nat /\ Cardinality(S) \in Nat /\ IsFiniteSet(S)
    BY PageCardinality, EventsAssumption, FS_Subset DEF TypeOK
<1>2. addedEvents + Cardinality(S) = 0
    BY <1>1, RateAssumption DEF AddDocs, UpTo
<1>3. addedEvents = 0 /\ Cardinality(S) = 0
    BY <1>1, <1>2
<1>4. S = {}
    BY <1>1, <1>3, FS_EmptySet
<1> QED BY <1>3, <1>4 DEF AddDocs, BufferCounted, NoDocs

LEMMA NextBufferCounted ==
    ASSUME TypeOK, BufferCounted, [Next]_vars
    PROVE  BufferCounted'
<1>1. CASE IndexFirst \/ IndexPage
    BY <1>1, AddDocsCounted DEF IndexFirst, IndexPage, IndexEvents, TypeOK
<1>2. CASE CommitPage \/ ForceCommit
    BY <1>2 DEF CommitPage, ForceCommit, CloseForced, CommitHelper, CommitIndex, index,
                BufferCounted, NoDocs
<1>3. CASE Crash
    BY <1>3 DEF Crash, BufferCounted, NoDocs
<1>4. CASE \/ OpenRecovery \/ CloseRecovery \/ DeleteSomeFiles \/ DeleteLastFile
           \/ OpenIndex \/ LoadFirst \/ Load \/ ClearFlag
           \/ OpenDatabase \/ LoadUnprocessed \/ CloseDatabase \/ UNCHANGED vars
    <2>1. UNCHANGED <<buffer, addedEvents>>
        BY <1>4 DEF OpenRecovery, CloseRecovery, DeleteSomeFiles, DeleteLastFile, OpenIndex,
                    LoadFirst, Load, ClearFlag, OpenDatabase, LoadUnprocessed,
                    CloseDatabase, vars, index
    <2> QED BY <2>1 DEF BufferCounted, NoDocs
<1> QED BY <1>1, <1>2, <1>3, <1>4 DEF Next, ReindexStep

LEMMA NextStartsAfresh ==
    ASSUME StartsAfresh, [Next]_vars
    PROVE  StartsAfresh'
<1>1. CASE OpenRecovery \/ CloseRecovery \/ DeleteSomeFiles \/ DeleteLastFile \/ OpenIndex
    BY <1>1 DEF OpenRecovery, CloseRecovery, DeleteSomeFiles, DeleteLastFile, OpenIndex,
                Step, loop, StartsAfresh, Rebuilding
<1>2. CASE LoadFirst \/ IndexFirst \/ Load \/ IndexPage
    BY <1>2 DEF LoadFirst, IndexFirst, Load, IndexPage, IndexEvents, Step, StartsAfresh,
                Rebuilding
<1>3. CASE CommitPage \/ ForceCommit \/ ClearFlag \/ Crash
    BY <1>3 DEF CommitPage, ForceCommit, ClearFlag, Crash, Step, StartsAfresh, Rebuilding
<1>4. CASE OpenDatabase \/ LoadUnprocessed \/ CloseDatabase
    BY <1>4 DEF OpenDatabase, LoadUnprocessed, CloseDatabase, Step, StartsAfresh, Rebuilding
<1>5. CASE UNCHANGED vars
    BY <1>5 DEF vars, loop, StartsAfresh
<1> QED BY <1>1, <1>2, <1>3, <1>4, <1>5 DEF Next, ReindexStep

\* The events of the table, and which of them a query can select, depend on
\* nothing that changes outside of a query.
LEMMA TableFixed ==
    ASSUME UNCHANGED table
    PROVE  /\ Singular' = Singular
           /\ lastEvent' = lastEvent => Selectable' = Selectable
BY DEF table, Singular, Parsed, Messages, Selectable

LEMMA NextLoopCovers ==
    ASSUME RecoveryInv, RebuildKnown', [Next]_vars
    PROVE  LoopCovers'
<1> SUFFICES ASSUME ~blindPage'
             PROVE  /\ stage' \in {"load", "commit"} => AheadOrIndexed'
                    /\ stage' \in {"indexFirst", "index"} => AheadOrInPage'
                    /\ stage' = "forceCommit" => AllAdded'
                    /\ stage' = "clearFlag" => AllIndexed'
                    /\ ~unasked' /\ ~reindexNeeded' => AllRecorded' /\ indexFiles' = "whole"
    BY DEF LoopCovers
<1> USE DEF RecoveryInv
<1>1. UNCHANGED table
    BY DEF Next, ReindexStep, OpenRecovery, CloseRecovery, DeleteSomeFiles, DeleteLastFile,
           OpenIndex, LoadFirst, IndexFirst, Load, IndexPage, IndexEvents, CommitPage,
           ForceCommit, ClearFlag, Crash, OpenDatabase, LoadUnprocessed, CloseDatabase, vars
<1>2. /\ Singular' = Singular
      /\ lastEvent' = lastEvent => Selectable' = Selectable
    BY <1>1, TableFixed
<1>3. \A e \in Singular : e \in Events /\ e \in Messages
    BY DEF Singular, Parsed, Messages
<1>4. CASE DeleteSomeFiles \/ DeleteLastFile \/ OpenIndex
    BY <1>4 DEF DeleteSomeFiles, DeleteLastFile, OpenIndex, Step, RebuildKnown, Rebuilding
<1>5. CASE LoadFirst \/ Load
    <2>1. ~blindPage /\ UNCHANGED <<index, unasked, reindexNeeded>> /\ LoadPage
        BY <1>5 DEF LoadFirst, Load, LoadPage
    <2>2. \A e \in Singular : Copies(e) > 0 \/ e \in Selectable
        <3>1. CASE LoadFirst
            BY <3>1, <1>3 DEF LoadFirst, Step, StartsAfresh, Selectable
        <3>2. CASE Load
            BY <3>2, <2>1 DEF Load, LoopCovers, AheadOrIndexed
        <3> QED BY <1>5, <3>1, <3>2
    <2>3. \A e \in Singular :
            Copies(e) > 0 \/ e \in page' \/ (page' # {} /\ e \in Selectable')
        BY <1>1, <2>1, <2>2, LoadPageCovers
    <2>4. \A e \in Events : Copies(e)' = Copies(e)
        BY <2>1 DEF index, Copies
    <2>5. stage' \in {"indexFirst", "index"} => AheadOrInPage'
        BY <1>2, <1>3, <2>3, <2>4 DEF AheadOrInPage
    <2>6. stage' = "forceCommit" => page' = {}
        BY <1>5 DEF LoadFirst, Load, Step
    <2>7. stage' = "forceCommit" => AllAdded'
        BY <1>2, <1>3, <2>3, <2>4, <2>6 DEF AllAdded
    <2>8. stage \in Rebuilding /\ stage' \in {"indexFirst", "index", "forceCommit"}
        BY <1>5 DEF LoadFirst, Load, Step, Rebuilding
    <2> QED BY <2>1, <2>5, <2>7, <2>8 DEF RebuildKnown
<1>6. CASE IndexFirst \/ IndexPage
    <2>1. /\ IndexEvents /\ ~blindPage
          /\ UNCHANGED <<lastEvent, unasked, reindexNeeded>>
          /\ stage \in {"indexFirst", "index"} /\ stage' \in {"load", "commit"}
        BY <1>6 DEF IndexFirst, IndexPage, IndexEvents, Step
    <2>2. AheadOrInPage
        BY <2>1 DEF LoopCovers
    <2>3. AheadOrIndexed'
        <3> SUFFICES ASSUME NEW e \in Singular
                     PROVE  Copies(e)' > 0 \/ e \in Selectable'
            BY <1>2 DEF AheadOrIndexed
        <3> QED BY <1>2, <1>3, <2>1, <2>2, IndexEventsCovers DEF AheadOrInPage
    <2> QED BY <2>1, <2>3 DEF RebuildKnown, Rebuilding
<1>7. CASE CommitPage
    <2>1. /\ ~blindPage /\ stage = "commit" /\ stage' = "load"
          /\ UNCHANGED <<lastEvent, unasked, reindexNeeded>>
        BY <1>7 DEF CommitPage, Step, loop
    <2>2. PICK elapsed \in BOOLEAN : CommitHelper(FALSE, elapsed)
        BY <1>7 DEF CommitPage
    <2>3. AheadOrIndexed
        BY <2>1 DEF LoopCovers
    <2>4. AheadOrIndexed'
        <3> SUFFICES ASSUME NEW e \in Singular
                     PROVE  Copies(e)' > 0 \/ e \in Selectable'
            BY <1>2 DEF AheadOrIndexed
        <3> QED BY <1>2, <1>3, <2>1, <2>2, <2>3, CommitKeepsCopies DEF AheadOrIndexed
    <2> QED BY <2>1, <2>4 DEF RebuildKnown, Rebuilding
<1>8. CASE ForceCommit
    <2>1. /\ ~blindPage /\ stage = "forceCommit" /\ stage' = "clearFlag"
          /\ UNCHANGED <<unasked, reindexNeeded>>
          /\ CommitHelper(TRUE, FALSE)
        BY <1>8 DEF ForceCommit, CloseForced, Step, loop
    <2>2. AllAdded
        BY <2>1 DEF LoopCovers
    <2>3. AllIndexed'
        <3> SUFFICES ASSUME NEW e \in Singular
                     PROVE  docs'[e] > 0
            BY <1>2 DEF AllIndexed
        <3>1. Copies(e) > 0 /\ e \in Events
            BY <1>3, <2>2 DEF AllAdded
        <3>2. CASE addedEvents > 0
            BY <2>1, <3>1, <3>2 DEF CommitHelper, CommitIndex
        <3>3. CASE ~(addedEvents > 0)
            <4>1. addedEvents = 0 /\ docs' = docs
                BY <2>1, <3>3, RateAssumption DEF TypeOK, CommitHelper, index
            <4>2. buffer[e] = 0 /\ docs[e] \in Nat
                BY <3>1, <4>1 DEF BufferCounted, NoDocs, TypeOK, Several
            <4> QED BY <3>1, <4>1, <4>2 DEF Copies, UpTo, Several
        <3> QED BY <3>2, <3>3
    <2> QED BY <2>1, <2>3 DEF RebuildKnown, Rebuilding
<1>9. CASE ClearFlag
    <2>1. ~blindPage /\ stage = "clearFlag" /\ stage' = "closed" /\ UNCHANGED <<docs, indexFiles>>
        BY <1>9 DEF ClearFlag, Step, loop, index
    <2>2. AllIndexed /\ indexFiles = "whole"
        BY <2>1 DEF LoopCovers, StartsAfresh, Rebuilding
    <2> QED BY <1>2, <2>1, <2>2 DEF AllIndexed, AllRecorded
<1>10. CASE Crash
    <2>1. /\ ~blindPage /\ stage' = "closed"
          /\ UNCHANGED <<docs, uncommitted, indexFiles, unasked, reindexNeeded>>
        BY <1>10 DEF Crash, loop
    <2> QED BY <1>2, <2>1 DEF LoopCovers, AllRecorded
<1>11. CASE OpenRecovery \/ CloseRecovery \/ CloseDatabase
    <2>1. /\ ~blindPage /\ stage' \in {"opened", "closed"}
          /\ UNCHANGED <<docs, uncommitted, indexFiles, unasked, reindexNeeded>>
        BY <1>11 DEF OpenRecovery, CloseRecovery, CloseDatabase, Step, loop, index
    <2> QED BY <1>2, <2>1 DEF LoopCovers, AllRecorded
<1>12. CASE OpenDatabase
    <2>1. /\ ~blindPage /\ stage' = "database" /\ indexFiles' = "whole"
          /\ UNCHANGED <<uncommitted, unasked, reindexNeeded>>
          /\ indexFiles = "whole" => docs' = docs
        BY <1>12 DEF OpenDatabase, Step, loop
    <2> QED BY <1>2, <2>1 DEF LoopCovers, AllRecorded
<1>13. CASE LoadUnprocessed
    <2>1. /\ ~blindPage /\ stage = "database" /\ stage' = stage
          /\ UNCHANGED <<indexFiles, unasked, reindexNeeded>>
        BY <1>13 DEF LoadUnprocessed, loop
    <2>2. \A e \in Events : docs[e] > 0 \/ e \in uncommitted => docs'[e] > 0
        <3> SUFFICES ASSUME NEW e \in Events, docs[e] > 0 \/ e \in uncommitted
                     PROVE  docs'[e] > 0
            OBVIOUS
        <3>1. docs[e] \in Nat
            BY DEF TypeOK, Several
        <3> QED BY <1>13, <3>1 DEF LoadUnprocessed, UpTo, Several
    <2> QED BY <1>2, <1>3, <2>1, <2>2 DEF LoopCovers, AllRecorded
<1>14. CASE UNCHANGED vars
    <2>1. UNCHANGED <<blindPage, stage, page, lastEvent, docs, buffer, uncommitted, indexFiles,
                      unasked, reindexNeeded>>
        BY <1>14 DEF vars, loop, index
    <2>2. \A e \in Events : Copies(e)' = Copies(e)
        BY <2>1 DEF Copies
    <2> QED
        BY <1>2, <1>3, <2>1, <2>2
        DEF LoopCovers, AheadOrIndexed, AheadOrInPage, AllAdded, AllIndexed, AllRecorded
<1> QED
    BY <1>4, <1>5, <1>6, <1>7, <1>8, <1>9, <1>10, <1>11, <1>12, <1>13, <1>14
    DEF Next, ReindexStep

\* The inductive invariant of the reindex: what is not indexed yet is still ahead
\* of the query, and reindex_needed stays until the index is complete.
THEOREM RecoveryInvariant == Spec => []RecoveryInv
<1>1. Init => RecoveryInv
    BY InitInv
<1>2. RecoveryInv /\ [Next]_vars => RecoveryInv'
    <2> SUFFICES ASSUME RecoveryInv, [Next]_vars PROVE RecoveryInv'
        OBVIOUS
    <2>1. TypeOK'
        BY NextType DEF RecoveryInv
    <2>2. RebuildKnown'
        BY NextRebuildKnown DEF RecoveryInv
    <2>3. BufferCounted' /\ StartsAfresh'
        BY NextBufferCounted, NextStartsAfresh DEF RecoveryInv
    <2>4. LoopCovers'
        BY <2>2, NextLoopCovers
    <2> QED BY <2>1, <2>2, <2>3, <2>4 DEF RecoveryInv
<1> QED BY <1>1, <1>2, PTL DEF Spec

\* Whatever interrupts a reindex, and however timestamps tie, a database opens
\* only if every message that parses, and whose id no other message has, is in its
\* index or still recorded in uncommitted_events (delete_the_index, reindex,
\* commit_and_close, new_with_config), unless a page was blind or the reindex was
\* not asked for.  Of messages that share an id nothing is claimed.
THEOREM RecoveryComplete == Spec => []OpensComplete
<1>1. RecoveryInv => OpensComplete
    <2> SUFFICES ASSUME RecoveryInv, ~blindPage, ~unasked, stage = "database"
                 PROVE  \A e \in Singular : docs[e] > 0 \/ e \in uncommitted
        BY DEF OpensComplete
    <2> QED BY DEF RecoveryInv, RebuildKnown, LoopCovers, AllRecorded
<1> QED BY <1>1, RecoveryInvariant, PTL

-----------------------------------------------------------------------------
(* Without ties no event is indexed twice, and the progress is what is indexed. *)

LEMMA NextBufferEmpty ==
    ASSUME TypeOK, BufferCounted, BufferEmpty, [Next]_vars
    PROVE  BufferEmpty'
<1>1. CASE ForceCommit
    <2>1. CommitHelper(TRUE, FALSE)
        BY <1>1 DEF ForceCommit, CloseForced
    <2>2. addedEvents \in Nat
        BY RateAssumption DEF TypeOK
    <2>3. buffer' = NoDocs
        BY <2>1, <2>2 DEF CommitHelper, CommitIndex, index, BufferCounted
    <2> QED BY <2>3 DEF BufferEmpty, NoDocs
<1>2. CASE Crash
    BY <1>2 DEF Crash, BufferEmpty, NoDocs
<1>3. CASE LoadFirst \/ IndexFirst \/ Load \/ IndexPage \/ CommitPage
    BY <1>3 DEF LoadFirst, IndexFirst, Load, IndexPage, CommitPage, Step, BufferEmpty
<1>4. CASE OpenRecovery \/ CloseRecovery \/ DeleteSomeFiles \/ DeleteLastFile \/ OpenIndex
    BY <1>4 DEF OpenRecovery, CloseRecovery, DeleteSomeFiles, DeleteLastFile, OpenIndex, Step,
                index, BufferEmpty, NoDocs
<1>5. CASE ClearFlag \/ OpenDatabase \/ LoadUnprocessed \/ CloseDatabase
    BY <1>5 DEF ClearFlag, OpenDatabase, LoadUnprocessed, CloseDatabase, Step, index,
                BufferEmpty, NoDocs
<1>6. CASE UNCHANGED vars
    BY <1>6 DEF vars, index, BufferEmpty, NoDocs
<1> QED BY <1>1, <1>2, <1>3, <1>4, <1>5, <1>6 DEF Next, ReindexStep

\* A query selects nothing that is indexed, and goes on behind it.
LEMMA LoadPageBehind ==
    ASSUME TypeOK, DistinctIds, DistinctTimes, LoadPage, UNCHANGED table,
           NEW S \in SUBSET Events, Behind(S) \/ S = {}
    PROVE  /\ Behind(page)' /\ page' \cap S = {}
           /\ page' # {} => \A e \in S : /\ e \in Messages' /\ lastEvent' \in Messages'
                                         /\ serverTs'[e] >= serverTs'[lastEvent']
           /\ page' \in SUBSET Events
<1>1. PICK P \in SUBSET Selectable :
        /\ page' = Parsed(P)
        /\ IsLast(lastEvent', page')
    BY DEF LoadPage
<1>2. Messages' = Messages /\ serverTs' = serverTs
    BY DEF table, Messages
<1>3. \A e \in Events : serverTs[e] \in Nat
    BY TimesAssumption DEF TypeOK
<1>4. page' \subseteq Selectable /\ Selectable \subseteq Messages /\ Messages \subseteq Events
    BY <1>1 DEF Parsed, Selectable, Messages
<1>5. ASSUME NEW e \in page'
      PROVE  /\ lastEvent' \in page' /\ lastEvent' \in Messages /\ e \in Messages
             /\ serverTs[e] >= serverTs[lastEvent']
    <2>1. lastEvent' \in page' /\ serverTs'[lastEvent'] <= serverTs'[e]
        BY <1>1, <1>5, <1>2 DEF IsLast
    <2> QED BY <2>1, <1>2, <1>3, <1>4
<1>6. Behind(page)'
    BY <1>2, <1>5 DEF Behind
<1>7. ASSUME NEW e \in S, Behind(S)
      PROVE  /\ e \in Messages /\ e \notin page'
             /\ page' # {} => serverTs[e] >= serverTs[lastEvent']
    <2>1. /\ e \in Messages /\ lastEvent \in Messages /\ lastEvent # NoEvent
          /\ serverTs[e] >= serverTs[lastEvent]
        BY <1>7, <1>4, NoEventAssumption DEF Behind
    <2>2. e \notin Selectable
        <3>1. serverTs[e] <= serverTs[lastEvent] => e = lastEvent
            BY <2>1, <1>3, <1>4 DEF DistinctTimes
        <3> QED BY <2>1, <3>1 DEF Selectable
    <2>3. ASSUME NEW f \in page'
          PROVE  serverTs[f] <= serverTs[lastEvent]
        BY <2>1, <1>4 DEF Selectable
    <2>4. page' # {} => serverTs[lastEvent'] <= serverTs[lastEvent]
        BY <1>5, <2>3
    <2>5. page' # {} => lastEvent' \in Events
        BY <1>5, <1>4
    <2> QED BY <2>1, <2>2, <2>4, <2>5, <1>3, <1>4
<1>8. page' \in SUBSET Events
    BY <1>4
<1>9. S # {} => Behind(S)
    OBVIOUS
<1> QED BY <1>2, <1>5, <1>6, <1>7, <1>8, <1>9

\* index_events adds one document of every event of the page, and counts them.
LEMMA IndexEventsOnce ==
    ASSUME TypeOK, IndexEvents, page \cap Indexed = {}, \A e \in Events : Copies(e) <= 1,
           reindexed = Cardinality(Indexed)
    PROVE  /\ \A e \in Events : Copies(e)' <= 1
           /\ Indexed' = Indexed \cup page
           /\ reindexed' = Cardinality(Indexed')
<1>1. \A e \in Events : docs[e] \in Nat /\ buffer[e] \in Nat /\ docs' = docs
    BY DEF TypeOK, IndexEvents, AddDocs, Several
<1>2. ASSUME NEW e \in Events
      PROVE  Copies(e)' = IF e \in page THEN 1 ELSE Copies(e)
    <2>1. CASE e \in page
        <3>1. docs[e] = 0 /\ buffer[e] = 0
            BY <2>1, <1>1 DEF Indexed, Copies, UpTo, Several
        <3>2. buffer'[e] = 1
            BY <2>1, <3>1 DEF IndexEvents, AddDocs, UpTo, Several
        <3> QED BY <2>1, <3>1, <3>2, <1>1 DEF Copies, UpTo, Several
    <2>2. CASE e \notin page
        BY <2>2, <1>1 DEF IndexEvents, AddDocs, Copies
    <2> QED BY <2>1, <2>2
<1>3. Indexed' = Indexed \cup page
    BY <1>2 DEF Indexed, TypeOK
<1>4. /\ IsFiniteSet(Indexed) /\ IsFiniteSet(page)
      /\ Cardinality(Indexed) \in Nat /\ Cardinality(page) \in Nat
    <2>1. Indexed \in SUBSET Events /\ page \in SUBSET Events
        BY DEF Indexed, TypeOK
    <2> QED BY <2>1, PageCardinality, EventsAssumption, FS_Subset
<1>5. Cardinality(Indexed \cup page) = Cardinality(Indexed) + Cardinality(page)
    <2>1. Indexed \cap page = {}
        OBVIOUS
    <2>2. Cardinality(Indexed \cap page) = 0
        BY <2>1, FS_EmptySet
    <2>3. Cardinality(Indexed \cup page)
            = Cardinality(Indexed) + Cardinality(page) - Cardinality(Indexed \cap page)
        BY <1>4, FS_Union
    <2> QED BY <1>4, <2>2, <2>3
<1>6. Cardinality(Indexed \cup page) <= Cardinality(Events) /\ Cardinality(Events) \in Nat
    <2>1. Indexed \cup page \subseteq Events
        BY DEF Indexed, TypeOK
    <2> QED BY <2>1, EventsAssumption, FS_Subset, FS_CardinalityType
<1>7. reindexed' = UpTo(Cardinality(Events) + 1, reindexed + Cardinality(page))
    BY DEF IndexEvents
<1>8. reindexed' = Cardinality(Indexed \cup page)
    BY <1>4, <1>5, <1>6, <1>7 DEF UpTo
<1> QED BY <1>2, <1>3, <1>8

LEMMA NextOnce ==
    ASSUME RecoveryInv, BufferEmpty, OnceInv, [Next]_vars
    PROVE  OnceInv'
<1> USE DEF RecoveryInv
<1>1. UNCHANGED table
    BY DEF Next, ReindexStep, OpenRecovery, CloseRecovery, DeleteSomeFiles, DeleteLastFile,
           OpenIndex, LoadFirst, IndexFirst, Load, IndexPage, IndexEvents, CommitPage,
           ForceCommit, ClearFlag, Crash, OpenDatabase, LoadUnprocessed, CloseDatabase, vars
<1>2. Messages' = Messages /\ serverTs' = serverTs /\ eventId' = eventId
    BY <1>1 DEF table, Messages
<1> SUFFICES ASSUME DistinctTimes, DistinctIds
             PROVE  /\ stage' \in {"opened", "deleting", "deleted", "loadFirst"} => reindexed' = 0
                    /\ stage' \in {"deleted", "loadFirst"} => Indexed' = {}
                    /\ stage' \in Rebuilding \ {"deleting"}
                       => /\ \A e \in Events : Copies(e)' <= 1
                          /\ reindexed' = Cardinality(Indexed')
                    /\ stage' \in {"indexFirst", "load", "index", "commit"} => Behind(Indexed)'
                    /\ stage' \in {"indexFirst", "index"}
                       => Behind(page)' /\ page' \cap Indexed' = {}
    BY <1>2 DEF OnceInv, DistinctTimes, DistinctIds
<1>3. /\ stage \in {"opened", "deleting", "deleted", "loadFirst"} => reindexed = 0
      /\ stage \in {"deleted", "loadFirst"} => Indexed = {}
      /\ stage \in Rebuilding \ {"deleting"}
         => /\ \A e \in Events : Copies(e) <= 1
            /\ reindexed = Cardinality(Indexed)
      /\ stage \in {"indexFirst", "load", "index", "commit"} => Behind(Indexed)
      /\ stage \in {"indexFirst", "index"} => Behind(page) /\ page \cap Indexed = {}
    BY DEF OnceInv
<1>4. Cardinality({}) = 0
    BY FS_EmptySet
<1>5. CASE OpenRecovery \/ CloseRecovery \/ Crash \/ OpenDatabase \/ LoadUnprocessed \/ CloseDatabase
    BY <1>5 DEF OpenRecovery, CloseRecovery, Crash, OpenDatabase, LoadUnprocessed, CloseDatabase,
                Step, CountReset, Rebuilding
<1>6. CASE DeleteSomeFiles
    BY <1>6, <1>3 DEF DeleteSomeFiles, Step, loop, Rebuilding
<1>7. CASE DeleteLastFile
    <2>1. buffer' = NoDocs /\ docs' = NoDocs
        BY <1>7 DEF DeleteLastFile, Step, BufferEmpty
    <2>2. \A e \in Events : Copies(e)' = 0
        BY <2>1 DEF NoDocs, Copies, UpTo, Several
    <2>3. Indexed' = {}
        BY <2>2 DEF Indexed
    <2> QED BY <1>3, <1>4, <1>7, <2>2, <2>3 DEF DeleteLastFile, Step, Rebuilding
<1>8. CASE OpenIndex \/ ClearFlag
    <2>1. UNCHANGED <<docs, buffer, reindexed>> /\ (stage' = "closed" \/ stage' = "loadFirst")
        BY <1>8 DEF OpenIndex, ClearFlag, Step, index, loop
    <2>2. Indexed' = Indexed /\ \A e \in Events : Copies(e)' = Copies(e)
        BY <2>1 DEF Indexed, Copies
    <2> QED BY <1>3, <1>8, <2>1, <2>2 DEF OpenIndex, ClearFlag, Step, Rebuilding
<1>9. CASE LoadFirst \/ Load
    <2>1. /\ LoadPage /\ UNCHANGED <<docs, buffer, reindexed>>
          /\ stage \in {"loadFirst", "load"} /\ stage' \in {"indexFirst", "index", "forceCommit"}
          /\ stage' = "forceCommit" <=> (stage = "load" /\ page' = {})
          /\ stage' = "indexFirst" <=> stage = "loadFirst"
        BY <1>9 DEF LoadFirst, Load, Step, index
    <2>2. Indexed' = Indexed /\ \A e \in Events : Copies(e)' = Copies(e)
        BY <2>1 DEF Indexed, Copies
    <2>3. Indexed \in SUBSET Events /\ (Behind(Indexed) \/ Indexed = {})
        BY <1>3, <2>1 DEF Indexed
    <2>4. /\ Behind(page)' /\ page' \cap Indexed = {}
          /\ page' # {} => \A e \in Indexed : /\ e \in Messages' /\ lastEvent' \in Messages'
                                              /\ serverTs'[e] >= serverTs'[lastEvent']
        BY <1>1, <2>1, <2>3, LoadPageBehind
    <2>5. stage' \in {"indexFirst", "index"} => page' # {} \/ Indexed' = {}
        BY <1>3, <2>1, <2>2
    <2>6. stage' \in {"indexFirst", "index"} => Behind(Indexed)'
        BY <2>2, <2>4, <2>5 DEF Behind
    <2>7. stage \in Rebuilding \ {"deleting"}
        BY <2>1 DEF Rebuilding
    <2> QED BY <1>3, <2>1, <2>2, <2>4, <2>6, <2>7
<1>10. CASE IndexFirst \/ IndexPage
    <2>1. /\ IndexEvents /\ lastEvent' = lastEvent
          /\ stage \in {"indexFirst", "index"} /\ stage' \in {"load", "commit"}
        BY <1>10 DEF IndexFirst, IndexPage, IndexEvents, Step
    <2>2. /\ page \cap Indexed = {} /\ \A e \in Events : Copies(e) <= 1
          /\ reindexed = Cardinality(Indexed)
          /\ Behind(Indexed) /\ Behind(page)
        BY <1>3, <2>1 DEF Rebuilding
    <2>3. /\ \A e \in Events : Copies(e)' <= 1
          /\ Indexed' = Indexed \cup page
          /\ reindexed' = Cardinality(Indexed')
        BY <2>1, <2>2, IndexEventsOnce
    <2>4. Behind(Indexed)'
        BY <1>2, <2>1, <2>2, <2>3 DEF Behind
    <2> QED BY <2>1, <2>3, <2>4
<1>11. CASE CommitPage \/ ForceCommit
    <2>1. /\ stage \in {"commit", "forceCommit"} /\ stage' \in {"load", "clearFlag"}
          /\ stage' = "load" => stage = "commit"
          /\ UNCHANGED <<lastEvent, reindexed>>
          /\ \E force, elapsed \in BOOLEAN : CommitHelper(force, elapsed)
        BY <1>11 DEF CommitPage, ForceCommit, CloseForced, Step, loop
    <2>2. \A e \in Events : Copies(e)' = Copies(e)
        <3> SUFFICES ASSUME NEW e \in Events PROVE Copies(e)' = Copies(e)
            OBVIOUS
        <3>1. CASE CommitIndex
            <4>1. docs'[e] = Copies(e) /\ buffer'[e] = 0
                BY <3>1 DEF CommitIndex, NoDocs
            <4>2. Copies(e) \in 0..Several
                BY DEF TypeOK, Copies, UpTo, Several
            <4> QED BY <4>1, <4>2 DEF Copies, UpTo, Several
        <3>2. CASE UNCHANGED index
            BY <3>2 DEF index, Copies
        <3> QED BY <2>1, <3>1, <3>2 DEF CommitHelper
    <2>3. Indexed' = Indexed
        BY <2>2 DEF Indexed
    <2>4. stage \in Rebuilding \ {"deleting"}
        BY <2>1 DEF Rebuilding
    <2> QED BY <1>2, <1>3, <2>1, <2>2, <2>3, <2>4 DEF Behind
<1>12. CASE UNCHANGED vars
    <2>1. UNCHANGED <<stage, page, lastEvent, reindexed, docs, buffer>>
        BY <1>12 DEF vars, index, loop
    <2>2. Indexed' = Indexed /\ \A e \in Events : Copies(e)' = Copies(e)
        BY <2>1 DEF Indexed, Copies
    <2> QED BY <1>2, <1>3, <2>1, <2>2 DEF Behind
<1> QED
    BY <1>5, <1>6, <1>7, <1>8, <1>9, <1>10, <1>11, <1>12 DEF Next, ReindexStep

\* The inductive invariant behind the next two: what is indexed is behind the query.
THEOREM ProgressInvariant == Spec => []ProgressInv
<1>1. Init => ProgressInv
    <2> SUFFICES ASSUME Init PROVE ProgressInv
        OBVIOUS
    <2>1. RecoveryInv
        BY InitInv
    <2>2. BufferEmpty /\ OnceInv
        BY DEF Init, BufferEmpty, OnceInv, Rebuilding
    <2> QED BY <2>1, <2>2 DEF ProgressInv
<1>2. ProgressInv /\ RecoveryInv' /\ [Next]_vars => ProgressInv'
    BY NextBufferEmpty, NextOnce DEF ProgressInv, RecoveryInv
<1> QED BY <1>1, <1>2, RecoveryInvariant, PTL DEF Spec

\* The new index never has a second document of an event, however often the reindex
\* was cut short and begun again, if the messages' timestamps differ.
THEOREM EventsIndexedOnce == Spec => []IndexedOnce
<1>1. ProgressInv => IndexedOnce
    BY DEF ProgressInv, RecoveryInv, TypeOK, OnceInv, IndexedOnce, Stage, Rebuilding
<1> QED BY <1>1, ProgressInvariant, PTL

\* What n_get_info answers is the number of events that the new index has.
THEOREM ProgressIsTold == Spec => []ProgressTold
<1>1. ProgressInv => ProgressTold
    BY DEF ProgressInv, OnceInv, ProgressTold, Indexed, Rebuilding
<1> QED BY <1>1, ProgressInvariant, PTL

-----------------------------------------------------------------------------
(* The measure behind ReindexEnds.                                          *)

\* The messages that are older than the event the next query continues from.
Older ==
    IF lastEvent = NoEvent THEN Messages
    ELSE {e \in Messages : serverTs[e] < serverTs[lastEvent]}

\* How far a reindex is from its end: three steps for every page that an older
\* message may still fill.
StepsLeft ==
    LET pages(S) == 3 * Cardinality(S) IN
    CASE stage = "deleting" -> pages(Messages) + 8
      [] stage = "deleted" -> pages(Messages) + 7
      [] stage = "loadFirst" -> pages(Messages) + 6
      [] stage \in {"indexFirst", "index"} -> pages(Older) + 5
      [] stage = "commit" -> pages(Older) + 4
      [] stage = "load" -> pages(Older) + 3
      [] stage = "forceCommit" -> 2
      [] stage = "clearFlag" -> 1
      [] OTHER -> 0

\* Without ties every step of a reindex brings its end nearer, by a natural number:
\* it cannot go on for ever.
ReindexNearsEnd ==
    [][DistinctTimes /\ stage \in Rebuilding
       => StepsLeft' \in Nat /\ StepsLeft' < StepsLeft]_vars

\* No step changes the events.
LEMMA EventsFixed == [Next]_vars => UNCHANGED table /\ Messages' = Messages
<1> SUFFICES ASSUME [Next]_vars PROVE UNCHANGED table /\ Messages' = Messages
    OBVIOUS
<1>1. UNCHANGED table
    BY DEF Next, ReindexStep, OpenRecovery, CloseRecovery, DeleteSomeFiles, DeleteLastFile,
           OpenIndex, LoadFirst, IndexFirst, IndexEvents, Load, IndexPage, CommitPage,
           ForceCommit, ClearFlag, Crash, OpenDatabase, LoadUnprocessed, CloseDatabase, vars
<1> QED BY <1>1 DEF Messages, table

\* The loop continues from a message.
LastKnown == lastEvent \in Messages \cup {NoEvent}

LEMMA OlderCounts ==
    ASSUME TypeOK
    PROVE  /\ IsFiniteSet(Messages) /\ IsFiniteSet(Older) /\ Older \subseteq Messages
           /\ Cardinality(Messages) \in Nat /\ Cardinality(Older) \in Nat
           /\ Cardinality(Older) <= Cardinality(Messages)
<1>1. Messages \subseteq Events /\ Older \subseteq Messages
    BY DEF Messages, Older
<1>2. IsFiniteSet(Messages)
    BY <1>1, EventsAssumption, FS_Subset
<1> QED BY <1>1, <1>2, FS_Subset, FS_CardinalityType

LEMMA NextLastKnown == TypeOK /\ LastKnown /\ [Next]_vars => LastKnown'
<1> SUFFICES ASSUME TypeOK, LastKnown, [Next]_vars PROVE LastKnown'
    OBVIOUS
<1>1. Messages' = Messages
    BY EventsFixed
<1>2. CASE LoadPage
    <2>1. lastEvent' = NoEvent \/ lastEvent' \in Parsed(Selectable)
        BY <1>2 DEF LoadPage, IsLast, Parsed
    <2> QED BY <1>1, <2>1 DEF LastKnown, Parsed, Selectable
<1>3. CASE lastEvent' = NoEvent \/ lastEvent' = lastEvent
    BY <1>1, <1>3 DEF LastKnown
<1> QED
    BY <1>2, <1>3
    DEF Next, ReindexStep, OpenRecovery, CloseRecovery, DeleteSomeFiles, DeleteLastFile, OpenIndex,
        LoadFirst, IndexFirst, IndexEvents, Load, IndexPage, CommitPage, ForceCommit, ClearFlag,
        Crash, OpenDatabase, LoadUnprocessed, CloseDatabase, loop, vars

\* A page with an event leaves fewer older ones: its last event was one of them.
LEMMA LoadPageOlder ==
    ASSUME TypeOK, LastKnown, DistinctTimes, LoadPage, UNCHANGED table
    PROVE  /\ Cardinality(Older') \in Nat
           /\ Cardinality(Older') <= Cardinality(Messages)
           /\ page' # {} => Cardinality(Older') < Cardinality(Older)
<1>1. Messages' = Messages /\ serverTs' = serverTs
    BY DEF Messages, table
<1>2. Older' \subseteq Messages
    BY <1>1 DEF Older
<1>3. Cardinality(Older') \in Nat /\ Cardinality(Older') <= Cardinality(Messages)
    BY <1>2, OlderCounts, FS_Subset, FS_CardinalityType
<1>4. Messages \subseteq Events /\ \A e \in Events : serverTs[e] \in Nat
    BY TimesAssumption DEF TypeOK, Messages
<1>5. ASSUME page' # {} PROVE Cardinality(Older') < Cardinality(Older)
    <2>1. lastEvent' \in Selectable /\ lastEvent' \in Messages
        BY <1>5 DEF LoadPage, IsLast, Parsed, Selectable
    <2>2. lastEvent' # NoEvent
        BY <1>4, <2>1, NoEventAssumption
    <2>3. lastEvent' \in Older
        <3>1. CASE lastEvent = NoEvent
            BY <2>1, <3>1 DEF Older
        <3>2. CASE lastEvent # NoEvent
            <4>1. lastEvent \in Messages /\ lastEvent' # lastEvent
                  /\ serverTs[lastEvent'] <= serverTs[lastEvent]
                BY <2>1, <3>2 DEF LastKnown, Selectable
            <4>2. serverTs[lastEvent'] # serverTs[lastEvent]
                BY <2>1, <4>1 DEF DistinctTimes
            <4> QED BY <1>4, <2>1, <3>2, <4>1, <4>2 DEF Older
        <3> QED BY <3>1, <3>2
    <2>4. Older' = {e \in Messages : serverTs[e] < serverTs[lastEvent']}
        BY <1>1, <2>2 DEF Older
    <2>5. Older' \subseteq Older
        <3>1. CASE lastEvent = NoEvent
            BY <1>2, <3>1 DEF Older
        <3>2. CASE lastEvent # NoEvent
            <4>1. lastEvent \in Messages /\ serverTs[lastEvent'] < serverTs[lastEvent]
                BY <2>3, <3>2 DEF LastKnown, Older
            <4> QED BY <1>4, <2>1, <2>4, <3>2, <4>1 DEF Older
        <3> QED BY <3>1, <3>2
    <2>6. Older' # Older
        BY <1>4, <2>1, <2>3, <2>4
    <2>7. Cardinality(Older') <= Cardinality(Older) /\ Cardinality(Older') # Cardinality(Older)
        BY <2>5, <2>6, OlderCounts, FS_Subset
    <2> QED BY <1>3, <2>7, OlderCounts
<1> QED BY <1>3, <1>5

LEMMA NextNearsEnd ==
    ASSUME TypeOK, LastKnown, DistinctTimes, stage \in Rebuilding, Next
    PROVE  StepsLeft' \in Nat /\ StepsLeft' < StepsLeft
<1>1. Messages' = Messages /\ UNCHANGED table
    BY EventsFixed
<1>2. /\ Cardinality(Messages) \in Nat /\ Cardinality(Older) \in Nat
      /\ Cardinality(Older) <= Cardinality(Messages)
    BY OlderCounts
<1>3. lastEvent' = lastEvent => Older' = Older
    BY <1>1 DEF Older, table
<1>4. CASE DeleteLastFile
    BY <1>1, <1>2, <1>4 DEF DeleteLastFile, Step, StepsLeft
<1>5. CASE OpenIndex
    BY <1>1, <1>2, <1>5 DEF OpenIndex, Step, StepsLeft
<1>6. CASE LoadFirst
    <2>1. stage = "loadFirst" /\ stage' = "indexFirst"
        BY <1>6 DEF LoadFirst, Step
    <2>2. Cardinality(Older') \in Nat /\ Cardinality(Older') <= Cardinality(Messages)
        BY <1>1, <1>6, LoadPageOlder DEF LoadFirst
    <2> QED BY <1>2, <2>1, <2>2 DEF StepsLeft
<1>7. CASE IndexFirst
    BY <1>2, <1>3, <1>7 DEF IndexFirst, IndexEvents, Step, StepsLeft
<1>8. CASE Load
    <2>1. stage = "load" /\ stage' = IF page' = {} THEN "forceCommit" ELSE "index"
        BY <1>8 DEF Load
    <2>2. Cardinality(Older') \in Nat /\ (page' # {} => Cardinality(Older') < Cardinality(Older))
        BY <1>1, <1>8, LoadPageOlder DEF Load
    <2> QED BY <1>2, <2>1, <2>2 DEF StepsLeft
<1>9. CASE IndexPage
    BY <1>2, <1>3, <1>9 DEF IndexPage, IndexEvents, Step, StepsLeft
<1>10. CASE CommitPage
    BY <1>2, <1>3, <1>10 DEF CommitPage, Step, StepsLeft, loop
<1>11. CASE ForceCommit \/ ClearFlag
    BY <1>11 DEF ForceCommit, ClearFlag, Step, StepsLeft
<1>12. CASE Crash
    <2>1. stage' = "closed"
        BY <1>12 DEF Crash
    <2>2. StepsLeft' = 0
        BY <2>1 DEF StepsLeft
    <2>3. StepsLeft \in Nat /\ StepsLeft > 0
        BY <1>2 DEF StepsLeft, Rebuilding
    <2> QED BY <2>2, <2>3
<1> QED
    BY <1>4, <1>5, <1>6, <1>7, <1>8, <1>9, <1>10, <1>11, <1>12
    DEF Next, ReindexStep, OpenRecovery, CloseRecovery, DeleteSomeFiles, OpenDatabase,
        LoadUnprocessed, CloseDatabase, Step, Rebuilding

\* A reindex of a table whose timestamps differ runs down: every step of it, a crash
\* included, brings its end nearer, and there is no infinite way down.
THEOREM ReindexRunsDown == Spec => ReindexNearsEnd
<1>1. Init => LastKnown
    BY DEF Init, LastKnown
<1>2. TypeOK /\ LastKnown /\ [Next]_vars => LastKnown'
    BY NextLastKnown
<1>3. TypeOK /\ LastKnown /\ [Next]_vars
      => [DistinctTimes /\ stage \in Rebuilding
          => StepsLeft' \in Nat /\ StepsLeft' < StepsLeft]_vars
    BY NextNearsEnd
<1> QED BY <1>1, <1>2, <1>3, RecoveryTypeCorrect, PTL DEF Spec, ReindexNearsEnd
=============================================================================
