------------------------- MODULE SeshatStoreProofs -------------------------
(***************************************************************************)
(* What holds of SeshatStore for every value of its constants, the bounds  *)
(* included: Spec keeps its types, no stored event is lost, an answered    *)
(* write stays, and no event is indexed more often than sessions and       *)
(* failures account for.  The store keeps the promises of SeshatLifecycle: *)
(* its steps, crashes and failures included, are steps of the promise or   *)
(* change nothing of it.  And what its answers mean: a forced commit that  *)
(* says Ok has indexed everything, and delete_event says what is left of a *)
(* deletion.                                                               *)
(***************************************************************************)
EXTENDS SeshatStoreLifecycle, FiniteSetTheorems, TLAPS

\* What is known of the types of a reachable state.
Typed == TypeOK /\ MessageFitsStage /\ RowsFinite

-----------------------------------------------------------------------------
(* Lemmas on the operators the specification is built from.                *)

\* The empty sequence is a sequence over every set.
LEMMA EmptyIsSeq == ASSUME NEW S PROVE <<>> \in Seq(S)
  OBVIOUS

\* The elements of a sequence are elements of the set it is made of.
LEMMA ElementsType == ASSUME NEW S, NEW s \in Seq(S) PROVE Elements(s) \subseteq S
  BY DEF Elements

\* The parts of a page have the types add_historic_events gives them.
LEMMA PagesTyped == \A p \in Pages : /\ p.events \in Seq(Events)
                                     /\ p.new \subseteq Checkpoints
                                     /\ p.old \subseteq Checkpoints
  BY PageAssumption DEF PageType

\* The type of a message tells its fields.
LEMMA MessageKinds ==
  ASSUME NEW m \in Message
  PROVE  /\ m.type = "Event" => m \in EventMessage
         /\ m.type = "Write" => m \in WriteMessage
         /\ m.type = "HistoricEvents" => m \in HistoricMessage
         /\ m.type = "Delete" => m \in DeleteMessage
  BY DEF Message, EventMessage, WriteMessage, HistoricMessage, DeleteMessage,
         ShutDownMessage

\* The events of finitely many rows are finitely many.
LEMMA RowEventsFinite ==
  ASSUME NEW R, IsFiniteSet(R)
  PROVE  IsFiniteSet({r.event : r \in R})
  <1> DEFINE T == {r.event : r \in R}
             f == [r \in R |-> r.event]
  <1>1. f \in Surjection(R, T)
    BY DEF Surjection
  <1> QED
    BY <1>1, FS_Surjection

\* add_event of finitely many events keeps the types of the index, and only
\* adding nothing leaves added_events at 0.
LEMMA AddDocsProps ==
  ASSUME IndexType, NEW S, IsFiniteSet(S), AddDocs(S)
  PROVE  /\ IndexType'
         /\ addedEvents' = 0 => addedEvents = 0 /\ buffer' = buffer
         /\ docs' = docs
         /\ \A e \in Events : /\ Copies(e)' >= Copies(e)
                              /\ e \in S => Copies(e)' > 0
  <1>1. Cardinality(S) \in Nat /\ (Cardinality(S) = 0 => S = {})
    BY FS_CardinalityType, FS_EmptySet
  <1>2. addedEvents' \in Nat /\ (addedEvents' = 0 => addedEvents = 0 /\ S = {})
    BY <1>1 DEF AddDocs, IndexType
  <1>3. docs' \in [Events -> Nat] /\ buffer' \in [Events -> Nat]
    BY DEF AddDocs, IndexType
  <1>4. S = {} => buffer' = buffer
    BY DEF AddDocs, IndexType
  <1>5. docs' = docs /\ \A e \in Events : buffer'[e] = IF e \in S THEN buffer[e] + 1 ELSE buffer[e]
    BY DEF AddDocs
  <1>6. \A e \in Events : /\ Copies(e)' >= Copies(e)
                          /\ e \in S => Copies(e)' > 0
    BY <1>5 DEF IndexType, Copies
  <1> QED
    BY <1>2, <1>3, <1>4, <1>5, <1>6 DEF IndexType

\* commit_helper keeps the number of documents of every event, and never
\* takes a committed one back.
LEMMA CommitHelperProps ==
  ASSUME IndexType, NEW force, NEW elapsed, CommitHelper(force, elapsed)
  PROVE  /\ IndexType'
         /\ \A e \in Events : Copies(e)' = Copies(e) /\ docs'[e] >= docs[e]
         /\ IF CommitDue(force, elapsed)
            THEN buffer' = NoDocs
            ELSE buffer' = buffer /\ addedEvents' = addedEvents
  BY DEF CommitHelper, CommitIndex, IndexType, NoDocs, index, Copies

\* Deleting an id commits the documents of every other event.
LEMMA DeleteDocsProps ==
  ASSUME IndexType, NEW id, DeleteDocs(id)
  PROVE  /\ IndexType'
         /\ buffer' = NoDocs
         /\ \A e \in Events \ WithId(id) : Copies(e)' = Copies(e) /\ docs'[e] = Copies(e)
  BY DEF DeleteDocs, IndexType, NoDocs, Copies, WithId

\* One round of write_events_helper that saves an event.
Saving == SaveEvent \/ SaveEventWithNul

\* What the two have in common, and what a NUL adds: rows S of the id are deleted,
\* to which nothing refers, and their documents stay.
LEMMA SavingFacts ==
  ASSUME Saving
  PROVE  /\ stage = "save" /\ batch # <<>>
         /\ ~Stored(Head(batch))
         /\ AddDocs({Head(batch)})
         /\ batch' = Tail(batch)
         /\ \E n \in {1} \cup {r.id + 1 : r \in uncommittedTable \cup txRows} :
               /\ \A r \in uncommittedTable \cup txRows : r.id < n
               /\ txRows' = txRows \cup {[id |-> n, event |-> Head(batch)]}
         /\ \E S \in SUBSET events :
               /\ erasing' = erasing \cup S /\ orphaned' = orphaned \cup S
               /\ \A r \in uncommittedTable \cup txRows : r.event \notin S
               /\ IF S = {} THEN failures' \in {failures, failures + 1}
                            ELSE failures' = failures + 1
         /\ UNCHANGED <<events, uncommittedTable, pendingTable, checkpoints, docs, queue,
                        uncommittedEvents, pendingEvents, loadedUnprocessed, message, stage,
                        deleting, result, batchEvents, channel, handle, opens, crashes,
                        acked, readded, erased, loadFailed>>
  <1>1. CASE SaveEvent
    <2>1. /\ erasing' = erasing \cup {} /\ orphaned' = orphaned \cup {}
          /\ failures' = failures
      BY <1>1 DEF SaveEvent, history, bounds
    <2> QED
      BY <1>1, <2>1 DEF SaveEvent, InsertRow, NextRowId, AddDocs, tables, memory, client,
                        bounds, history
  <1>2. CASE SaveEventWithNul
    <2> DEFINE sameId == events \cap WithId(IdOf[Head(batch)])
    <2>1. /\ erasing' = erasing \cup sameId /\ orphaned' = orphaned \cup sameId
          /\ ~ForeignKeyHeld(IdOf[Head(batch)])
          /\ \A r \in txRows : IdOf[r.event] # IdOf[Head(batch)]
          /\ failures' = failures + 1
      BY <1>2 DEF SaveEventWithNul
    <2>2. \A r \in uncommittedTable \cup txRows : r.event \notin sameId
      BY <2>1 DEF ForeignKeyHeld, WithId
    <2>3. sameId \in SUBSET events
      OBVIOUS
    <2>4. \E S \in SUBSET events :
             /\ erasing' = erasing \cup S /\ orphaned' = orphaned \cup S
             /\ \A r \in uncommittedTable \cup txRows : r.event \notin S
             /\ failures' = failures + 1
      <3> HIDE DEF sameId
      <3> QED
        BY <2>1, <2>2, <2>3
    <2>5. /\ stage = "save" /\ batch # <<>>
          /\ ~Stored(Head(batch))
          /\ InsertRow(Head(batch))
          /\ AddDocs({Head(batch)})
          /\ batch' = Tail(batch)
          /\ UNCHANGED <<tables, memory, message, stage, deleting, result, batchEvents, client,
                         opens, crashes, acked, readded, erased, loadFailed>>
      BY <1>2 DEF SaveEventWithNul
    <2> QED
      BY <2>4, <2>5 DEF InsertRow, NextRowId, AddDocs, tables, memory, client
  <1> QED
    BY <1>1, <1>2 DEF Saving

-----------------------------------------------------------------------------
(* Types.                                                                  *)

LEMMA TypedInit == Init => Typed
  <1> SUFFICES ASSUME Init PROVE Typed
    OBVIOUS
  <1>1. TablesType
    BY DEF Init, TablesType
  <1>2. IndexType
    BY DEF Init, IndexType, NoDocs
  <1>3. MemoryType
    <2>1. queue \in Seq(Events)
      BY DEF Init
    <2>2. uncommittedEvents \subseteq Nat /\ pendingEvents \in SUBSET EventIds
      BY DEF Init
    <2>3. loadedUnprocessed \in BOOLEAN
      BY DEF Init
    <2> QED
      BY <2>1, <2>2, <2>3 DEF MemoryType
  <1>4. HandlerType
    BY DEF Init, HandlerType, Stage, Result
  <1>5. ClientType
    BY DEF Init, ClientType
  <1>6. HistoryType
    BY DEF Init, HistoryType
  <1>7. MessageFitsStage /\ RowsFinite
    BY FS_EmptySet DEF Init, MessageFitsStage, RowsFinite
  <1> QED
    BY <1>1, <1>2, <1>3, <1>4, <1>5, <1>6, <1>7 DEF Typed, TypeOK

\* Only the transactions of the writer change the tables.
LEMMA TablesTyped == ASSUME Typed, [Next]_vars PROVE TablesType'
  <1> USE DEF Typed, TypeOK, TablesType
  <1>1. CASE CommitTransaction
    <2>1. ReplacedCheckpoints \subseteq Checkpoints
      <3>1. CASE message.type = "HistoricEvents"
        <4>1. message \in HistoricMessage
           BY <1>1, <3>1 DEF CommitTransaction, MessageFitsStage, WriteMessage
        <4> QED
           BY <4>1, PagesTyped DEF ReplacedCheckpoints, HistoricMessage
      <3> QED
        BY <3>1 DEF ReplacedCheckpoints
    <2> QED
      BY <1>1, <2>1 DEF CommitTransaction, HandlerType, Row
  <1>2. CASE MarkEventsAsIndexed
    BY <1>2 DEF MarkEventsAsIndexed, RowsNotIndexed
  <1>3. CASE MarkEventsAsDeleted \/ DeleteMark
    BY <1>3 DEF MarkEventsAsDeleted, DeleteMark, PendingNotDeleted
  <1>4. CASE DeleteRow
    BY <1>4 DEF DeleteRow, MessageFitsStage, DeleteMessage, DeletionRecorded
  <1>5. CASE UNCHANGED tables
    BY <1>5 DEF tables
  <1> QED
    BY <1>1, <1>2, <1>3, <1>4, <1>5
    DEF Next, ClientStep, WriterStep, vars, AddEvent, Commit, AddHistoricEvents,
        DeleteEvent, ClientSends, ShutDown, Drop, ReceiveEvent, ReceiveWrite,
        ReceiveHistoricEvents, ReceiveDelete, StopWriting, Stop, LoadUncommittedEvents,
        LoadPendingDeletionEvents, DeleteLoaded, EndLoad, BeginTransaction, SaveEvent,
        SaveEventWithNul, SkipEvent, WriteIndexCommit, DeleteRefused, DeleteFromIndex,
        DeleteIndexCommit, Reply, StorageError, WriterPanics, Crash, Open

LEMMA IndexTyped == ASSUME Typed, [Next]_vars PROVE IndexType'
  <1> USE DEF Typed, TypeOK
  <1>1. CASE LoadUncommittedEvents
    BY <1>1, AddDocsProps, RowEventsFinite DEF LoadUncommittedEvents, RowsFinite
  <1>2. CASE Saving
    BY <1>2, SavingFacts, AddDocsProps, FS_Singleton
  <1>3. CASE DeleteLoaded \/ DeleteFromIndex
    BY <1>3, DeleteDocsProps DEF DeleteLoaded, DeleteFromIndex
  <1>4. CASE WriteIndexCommit \/ DeleteIndexCommit
    BY <1>4, CommitHelperProps DEF WriteIndexCommit, DeleteIndexCommit
  <1>5. CASE Stop
    BY <1>5 DEF Stop, IndexType, NoDocs
  <1>6. CASE UNCHANGED index
    BY <1>6 DEF index, IndexType
  <1> QED
    BY <1>1, <1>2, <1>3, <1>4, <1>5, <1>6
    DEF Next, ClientStep, WriterStep, vars, AddEvent, Commit, AddHistoricEvents,
        DeleteEvent, ClientSends, ShutDown, Drop, ReceiveEvent, ReceiveWrite,
        ReceiveHistoricEvents, ReceiveDelete, StopWriting, LoadPendingDeletionEvents,
        EndLoad, BeginTransaction, Saving, SkipEvent, CommitTransaction, MarkEventsAsIndexed,
        MarkEventsAsDeleted, DeleteRow, DeleteRefused, DeleteMark, Reply, StorageError,
        WriterPanics, Crash, Open

LEMMA MemoryTyped == ASSUME Typed, [Next]_vars PROVE MemoryType'
  <1> USE DEF Typed, TypeOK, MemoryType
  <1>1. CASE ReceiveEvent
    <2>1. Head(channel) \in EventMessage
      BY <1>1, MessageKinds DEF ReceiveEvent, Receive, ClientType
    <2>2. queue' \in Seq(Events)
      BY <1>1, <2>1 DEF ReceiveEvent, EventMessage
    <2> QED
      BY <1>1, <2>2 DEF ReceiveEvent
  <1>2. CASE ReceiveWrite
    BY <1>2 DEF ReceiveWrite
  <1>3. CASE LoadUncommittedEvents
    BY <1>3 DEF LoadUncommittedEvents, TablesType, Row
  <1>4. CASE EndLoad
    BY <1>4 DEF EndLoad, TablesType
  <1>5. CASE BeginTransaction
    <2>1. queue' = <<>> \/ queue' = queue
      BY <1>5 DEF BeginTransaction
    <2>2. queue' \in Seq(Events)
      BY <2>1, EmptyIsSeq
    <2>3. UNCHANGED <<uncommittedEvents, pendingEvents, loadedUnprocessed>>
      BY <1>5 DEF BeginTransaction
    <2> QED
      BY <2>2, <2>3
  <1>6. CASE CommitTransaction
    BY <1>6 DEF CommitTransaction, HandlerType, Row
  <1>7. CASE MarkEventsAsIndexed \/ MarkEventsAsDeleted \/ DeleteMark
    BY <1>7 DEF MarkEventsAsIndexed, MarkEventsAsDeleted, DeleteMark
  <1>8. CASE DeleteFromIndex
    BY <1>8 DEF DeleteFromIndex, MessageFitsStage, DeleteMessage
  <1>9. CASE Stop
    <2>1. queue' \in Seq(Events)
      BY <1>9, EmptyIsSeq DEF Stop
    <2>2. uncommittedEvents' \subseteq Nat /\ pendingEvents' \in SUBSET EventIds
      BY <1>9 DEF Stop
    <2>3. loadedUnprocessed' \in BOOLEAN
      BY <1>9 DEF Stop
    <2> QED
      BY <2>1, <2>2, <2>3 DEF MemoryType
  <1>10. CASE UNCHANGED memory
    BY <1>10 DEF memory
  <1> QED
    BY <1>1, <1>2, <1>3, <1>4, <1>5, <1>6, <1>7, <1>8, <1>9, <1>10
    DEF Next, ClientStep, WriterStep, vars, AddEvent, Commit, AddHistoricEvents,
        DeleteEvent, ClientSends, ShutDown, Drop, ReceiveHistoricEvents, ReceiveDelete,
        StopWriting, LoadPendingDeletionEvents, DeleteLoaded, SaveEvent, SaveEventWithNul,
        SkipEvent, WriteIndexCommit, DeleteRow, DeleteRefused, DeleteIndexCommit, Reply,
        StorageError, WriterPanics, Crash, Open

LEMMA HandlerTyped == ASSUME Typed, [Next]_vars PROVE HandlerType'
  <1> USE DEF Typed, TypeOK, HandlerType
  <1>1. ASSUME NEW s \in Stage, HandleFrom(s), channel # <<>>
        PROVE  HandlerType'
    <2>1. Head(channel) \in Message
      BY <1>1 DEF ClientType
    <2> QED
      BY <1>1, <2>1 DEF HandleFrom
  <1>2. CASE ReceiveWrite \/ ReceiveHistoricEvents \/ ReceiveDelete
    BY <1>1, <1>2 DEF ReceiveWrite, ReceiveHistoricEvents, ReceiveDelete, Receive, Stage
  <1>3. CASE LoadUncommittedEvents \/ DeleteLoaded \/ EndLoad
    BY <1>3 DEF LoadUncommittedEvents, DeleteLoaded, EndLoad, Stage
  <1>4. CASE LoadPendingDeletionEvents
    BY <1>4 DEF LoadPendingDeletionEvents, TablesType, Stage
  <1>5. CASE BeginTransaction
    <2>1. batch' \in Seq(Events)
      <3>1. CASE message.type = "Write"
        BY <1>5, <3>1 DEF BeginTransaction, MemoryType
      <3>2. CASE message.type # "Write"
        <4>1. message \in HistoricMessage
          BY <1>5, <3>2 DEF BeginTransaction, MessageFitsStage, WriteMessage
        <4> QED
          BY <1>5, <3>2, <4>1, PagesTyped DEF BeginTransaction, HistoricMessage
      <3> QED
        BY <3>1, <3>2
    <2>2. batchEvents' \in SUBSET Events
      BY <1>5, <2>1, ElementsType DEF BeginTransaction
    <2> QED
      BY <1>5, <2>1, <2>2 DEF BeginTransaction, Stage
  <1>6. CASE Saving
    <2>1. Head(batch) \in Events /\ batch' \in Seq(Events)
      BY <1>6, SavingFacts
    <2>2. \A r \in uncommittedTable \cup txRows : r.id \in Nat
      BY DEF TablesType, Row
    <2>3. txRows' \in SUBSET Row
      <3>1. PICK n \in {1} \cup {r.id + 1 : r \in uncommittedTable \cup txRows} :
                txRows' = txRows \cup {[id |-> n, event |-> Head(batch)]}
        BY <1>6, SavingFacts
      <3>2. n \in Nat
        BY <2>2
      <3> QED
        BY <2>1, <3>1, <3>2 DEF Row
    <2>4. erasing' \in SUBSET Events
      BY <1>6, SavingFacts DEF TablesType
    <2> QED
      BY <1>6, <2>1, <2>3, <2>4, SavingFacts
  <1>7. CASE SkipEvent
    BY <1>7 DEF SkipEvent
  <1>8. CASE CommitTransaction
    BY <1>8 DEF CommitTransaction, WriteResult, Stage, Result
  <1>9. CASE WriteIndexCommit \/ MarkEventsAsIndexed \/ MarkEventsAsDeleted
    BY <1>9 DEF WriteIndexCommit, MarkEventsAsIndexed, MarkEventsAsDeleted, Stage
  <1>10. CASE DeleteRow \/ DeleteRefused \/ DeleteFromIndex \/ DeleteIndexCommit
              \/ DeleteMark
    BY <1>10 DEF DeleteRow, DeleteRefused, DeleteFromIndex, DeleteIndexCommit,
                 DeleteMark, Stage, Result
  <1>11. CASE Reply
    BY <1>11 DEF Reply, Stage, Result
  <1>12. CASE StorageError
    BY <1>12 DEF StorageError, Stage, Result
  <1>13. CASE Stop
    BY <1>13 DEF Stop, Stage, Result
  <1>14. CASE Open
    BY <1>14 DEF Open, Stage
  <1>15. CASE UNCHANGED handler
    BY <1>15 DEF handler
  <1> QED
    BY <1>2, <1>3, <1>4, <1>5, <1>6, <1>7, <1>8, <1>9, <1>10, <1>11, <1>12, <1>13,
       <1>14, <1>15
    DEF Next, ClientStep, WriterStep, vars, AddEvent, Commit, AddHistoricEvents,
        DeleteEvent, ClientSends, ShutDown, Drop, ReceiveEvent, StopWriting, Saving,
        WriterPanics, Crash

LEMMA ClientTyped == ASSUME Typed, [Next]_vars PROVE ClientType'
  <1> USE DEF Typed, TypeOK, ClientType
  <1>1. CASE ClientStep
    <2>1. ASSUME NEW m \in Message, Send(m) PROVE channel' \in Seq(Message)
      BY <2>1 DEF Send
    <2>2. CASE \E m \in Message : ClientSends(m)
      BY <2>1, <2>2 DEF ClientSends, bounds
    <2>3. CASE ShutDown
      BY <2>1, <2>3 DEF ShutDown, Message, ShutDownMessage, bounds
    <2>4. CASE Drop
      BY <2>4 DEF Drop, bounds
    <2>5. (AddEvent \/ Commit \/ AddHistoricEvents \/ DeleteEvent)
          => \E m \in Message : ClientSends(m)
      BY DEF AddEvent, Commit, AddHistoricEvents, DeleteEvent, Message, EventMessage,
             WriteMessage, HistoricMessage, DeleteMessage
    <2> QED
      BY <1>1, <2>2, <2>3, <2>4, <2>5 DEF ClientStep
  <1>2. CASE ReceiveEvent \/ ReceiveWrite \/ ReceiveHistoricEvents \/ ReceiveDelete
    BY <1>2 DEF ReceiveEvent, ReceiveWrite, ReceiveHistoricEvents, ReceiveDelete,
                Receive, bounds
  <1>3. CASE StopWriting \/ WriterPanics \/ Crash
    <2>1. channel' \in Seq(Message) /\ handle' \in {"open", "dropped"}
      BY <1>3, EmptyIsSeq DEF StopWriting, WriterPanics, Crash, Stop
    <2>2. opens' \in Nat /\ crashes' \in Nat /\ failures' \in Nat
      BY <1>3 DEF StopWriting, WriterPanics, Crash, bounds
    <2> QED
      BY <2>1, <2>2
  <1>4. CASE StorageError \/ Open
    BY <1>4 DEF StorageError, Open, client
  <1>5. CASE SaveEventWithNul
    BY <1>5 DEF SaveEventWithNul, client
  <1>6. CASE UNCHANGED <<client, bounds>>
    BY <1>6 DEF client, bounds
  <1> QED
    BY <1>1, <1>2, <1>3, <1>4, <1>5, <1>6
    DEF Next, WriterStep, vars, LoadUncommittedEvents,
        LoadPendingDeletionEvents, DeleteLoaded, EndLoad, BeginTransaction, SaveEvent,
        SkipEvent, CommitTransaction, WriteIndexCommit, MarkEventsAsIndexed,
        MarkEventsAsDeleted, DeleteRow, DeleteRefused, DeleteFromIndex,
        DeleteIndexCommit, DeleteMark, Reply

LEMMA HistoryTyped == ASSUME Typed, [Next]_vars PROVE HistoryType'
  <1> USE DEF Typed, TypeOK, HistoryType
  <1>1. CASE CommitTransaction
    BY <1>1 DEF CommitTransaction, HandlerType, Row
  <1>2. CASE DeleteLoaded \/ DeleteRow \/ DeleteFromIndex
    BY <1>2 DEF DeleteLoaded, DeleteRow, DeleteFromIndex
  <1>3. CASE Reply
    BY <1>3 DEF Reply, HandlerType
  <1>4. CASE StorageError
    <2>1. orphaned' \in SUBSET Events
      BY <1>4 DEF StorageError, HandlerType, Row
    <2>2. loadFailed' \in BOOLEAN
      BY <1>4 DEF StorageError
    <2> QED
      BY <1>4, <2>1, <2>2 DEF StorageError
  <1>5. CASE Open
    BY <1>5 DEF Open
  <1>6. CASE Saving
    BY <1>6, SavingFacts DEF TablesType
  <1>7. CASE UNCHANGED history
    BY <1>7 DEF history
  <1> QED
    BY <1>1, <1>2, <1>3, <1>4, <1>5, <1>6, <1>7
    DEF Next, ClientStep, WriterStep, vars, AddEvent, Commit, AddHistoricEvents, Saving,
        DeleteEvent, ClientSends, ShutDown, Drop, ReceiveEvent, ReceiveWrite,
        ReceiveHistoricEvents, ReceiveDelete, StopWriting, Stop, LoadUncommittedEvents,
        LoadPendingDeletionEvents, EndLoad, BeginTransaction, SkipEvent,
        WriteIndexCommit, MarkEventsAsIndexed, MarkEventsAsDeleted, DeleteRefused,
        DeleteIndexCommit, DeleteMark, WriterPanics, Crash

\* A handler's message is of the kind it was received for.
LEMMA MessageTyped == ASSUME Typed, [Next]_vars PROVE MessageFitsStage'
  <1> USE DEF Typed, TypeOK, MessageFitsStage
  <1>1. CASE ReceiveWrite \/ ReceiveHistoricEvents \/ ReceiveDelete
    <2>1. Head(channel) \in Message
      BY <1>1 DEF ClientType, ReceiveWrite, ReceiveHistoricEvents, ReceiveDelete, Receive
    <2>2. CASE ReceiveWrite
      BY <2>1, <2>2, MessageKinds DEF ReceiveWrite, Receive, HandleFrom
    <2>3. CASE ReceiveHistoricEvents
      BY <2>1, <2>3, MessageKinds DEF ReceiveHistoricEvents, Receive, HandleFrom
    <2>4. CASE ReceiveDelete
      BY <2>1, <2>4, MessageKinds DEF ReceiveDelete, Receive, HandleFrom
    <2> QED
      BY <1>1, <2>2, <2>3, <2>4
  <1>2. CASE LoadUncommittedEvents \/ LoadPendingDeletionEvents \/ DeleteLoaded \/ EndLoad
    BY <1>2 DEF LoadUncommittedEvents, LoadPendingDeletionEvents, DeleteLoaded, EndLoad
  <1>3. CASE BeginTransaction \/ SaveEvent \/ SaveEventWithNul \/ SkipEvent
             \/ CommitTransaction \/ WriteIndexCommit \/ MarkEventsAsIndexed
             \/ MarkEventsAsDeleted
    BY <1>3 DEF BeginTransaction, SaveEvent, SaveEventWithNul, SkipEvent,
                CommitTransaction, WriteIndexCommit, MarkEventsAsIndexed,
                MarkEventsAsDeleted
  <1>4. CASE DeleteRow \/ DeleteRefused \/ DeleteFromIndex \/ DeleteIndexCommit
             \/ DeleteMark
    BY <1>4 DEF DeleteRow, DeleteRefused, DeleteFromIndex, DeleteIndexCommit, DeleteMark
  <1>5. CASE Reply \/ StorageError \/ Stop \/ Open
    BY <1>5 DEF Reply, StorageError, Stop, Open
  <1>6. CASE UNCHANGED handler
    BY <1>6 DEF handler
  <1> QED
    BY <1>1, <1>2, <1>3, <1>4, <1>5, <1>6
    DEF Next, ClientStep, WriterStep, vars, AddEvent, Commit, AddHistoricEvents,
        DeleteEvent, ClientSends, ShutDown, Drop, ReceiveEvent, StopWriting,
        WriterPanics, Crash

LEMMA RowsStayFinite == ASSUME Typed, [Next]_vars PROVE RowsFinite'
  <1> USE DEF Typed, RowsFinite
  <1>1. CASE Saving
    <2>1. PICK row : txRows' = txRows \cup {row}
      BY <1>1, SavingFacts
    <2>2. IsFiniteSet(txRows')
      BY <2>1, FS_AddElement
    <2> QED
      BY <1>1, <2>2, SavingFacts
  <1>2. CASE CommitTransaction
    BY <1>2, FS_Union, FS_EmptySet DEF CommitTransaction
  <1>3. CASE MarkEventsAsIndexed
    BY <1>3, FS_Subset DEF MarkEventsAsIndexed, RowsNotIndexed
  <1>4. CASE uncommittedTable' = uncommittedTable /\ txRows' \in {txRows, {}}
    BY <1>4, FS_EmptySet
  <1> QED
    BY <1>1, <1>2, <1>3, <1>4
    DEF Next, ClientStep, WriterStep, vars, AddEvent, Commit, AddHistoricEvents,
        DeleteEvent, ClientSends, ShutDown, Drop, ReceiveEvent, ReceiveWrite,
        ReceiveHistoricEvents, ReceiveDelete, HandleFrom, StopWriting, Stop,
        LoadUncommittedEvents, LoadPendingDeletionEvents, DeleteLoaded, EndLoad,
        BeginTransaction, Saving, SkipEvent, WriteIndexCommit, MarkEventsAsDeleted, DeleteRow,
        DeleteRefused, DeleteFromIndex, DeleteIndexCommit, DeleteMark, Reply,
        StorageError, WriterPanics, Crash, Open, tables, handler

LEMMA TypedNext == Typed /\ [Next]_vars => Typed'
  BY TablesTyped, IndexTyped, MemoryTyped, HandlerTyped, ClientTyped, HistoryTyped,
     MessageTyped, RowsStayFinite
  DEF Typed, TypeOK

\* The types of the tables, the index, the writer and its messages hold in
\* every reachable state, for any events, pages and bounds.
THEOREM TypeCorrect == Spec => []TypeOK
  <1>1. Typed => TypeOK
    BY DEF Typed
  <1> QED
    BY TypedInit, TypedNext, <1>1, PTL DEF Spec

-----------------------------------------------------------------------------
(* No stored event is lost.                                                *)

LEMMA StoreInvInit == Init => StoreInv
  <1> SUFFICES ASSUME Init PROVE StoreInv
    OBVIOUS
  <1>1. Typed
    BY TypedInit
  <1>2. /\ RowsSound /\ ErasingSound /\ MarkableRowsHaveDocs /\ BufferCounted
        /\ DeletionsSound /\ NoEventLost
    BY DEF Init, RowsSound, ErasingSound, MarkableRowsHaveDocs, BufferCounted,
           DeletionsSound, NoEventLost
  <1> QED
    BY <1>1, <1>2 DEF StoreInv, Typed

\* A row's event is stored and its id is not used twice.
LEMMA RowsSoundNext == ASSUME StoreInv, [Next]_vars PROVE RowsSound'
  <1> USE DEF StoreInv, RowsSound
  <1>1. CASE Saving
    <2>1. PICK n : /\ \A r \in uncommittedTable \cup txRows : r.id < n
                   /\ txRows' = txRows \cup {[id |-> n, event |-> Head(batch)]}
      BY <1>1, SavingFacts
    <2>2. \A r \in uncommittedTable : r.id \in Nat /\ r.id # n
      BY <2>1 DEF TypeOK, TablesType, Row
    <2> QED
      BY <1>1, <2>1, <2>2, SavingFacts
  <1>2. CASE CommitTransaction
    BY <1>2 DEF CommitTransaction, ErasingSound
  <1>3. CASE MarkEventsAsIndexed
    BY <1>3 DEF MarkEventsAsIndexed, RowsNotIndexed
  <1>4. CASE DeleteRow
    BY <1>4 DEF DeleteRow, ForeignKeyHeld, WithId
  <1>5. CASE StorageError \/ Stop
    BY <1>5 DEF StorageError, Stop, tables
  <1>6. CASE /\ UNCHANGED <<events, uncommittedTable, txRows, erasing>>
             /\ stage' = stage \/ stage # "save"
    BY <1>6
  <1> QED
    BY <1>1, <1>2, <1>3, <1>4, <1>5, <1>6
    DEF Next, ClientStep, WriterStep, vars, AddEvent, Commit, AddHistoricEvents,
        DeleteEvent, ClientSends, ShutDown, Drop, ReceiveEvent, ReceiveWrite,
        ReceiveHistoricEvents, ReceiveDelete, Receive, HandleFrom, StopWriting,
        LoadUncommittedEvents, LoadPendingDeletionEvents, DeleteLoaded, EndLoad,
        BeginTransaction, Saving, SkipEvent, WriteIndexCommit, MarkEventsAsDeleted,
        DeleteRefused, DeleteFromIndex, DeleteIndexCommit, DeleteMark, Reply,
        WriterPanics, Crash, Open, tables, handler

\* A transaction deletes only rows to which no row of uncommitted_events refers.
LEMMA ErasingSoundNext == ASSUME StoreInv, [Next]_vars PROVE ErasingSound'
  <1> USE DEF StoreInv, ErasingSound
  <1>1. CASE Saving
    BY <1>1, SavingFacts
  <1>2. CASE erasing' = {}
    BY <1>2
  <1>3. CASE /\ erasing' = erasing
             /\ stage # "save" \/ UNCHANGED <<events, uncommittedTable, orphaned>>
    BY <1>3 DEF RowsSound
  <1> QED
    BY <1>1, <1>2, <1>3
    DEF Next, ClientStep, WriterStep, vars, AddEvent, Commit, AddHistoricEvents,
        DeleteEvent, ClientSends, ShutDown, Drop, ReceiveEvent, ReceiveWrite,
        ReceiveHistoricEvents, ReceiveDelete, Receive, HandleFrom, StopWriting, Stop,
        LoadUncommittedEvents, LoadPendingDeletionEvents, DeleteLoaded, EndLoad,
        BeginTransaction, Saving, SkipEvent, CommitTransaction, WriteIndexCommit,
        MarkEventsAsIndexed, MarkEventsAsDeleted, DeleteRow, DeleteRefused,
        DeleteFromIndex, DeleteIndexCommit, DeleteMark, Reply, StorageError,
        WriterPanics, Crash, Open, tables, handler, history

\* Every document of an id whose deletion is executed belongs to an event that
\* is not stored, or that was added again.
LEMMA DeletedDocsNotNeeded ==
  ASSUME StoreInv
  PROVE  /\ DeleteLoaded
            => \E id \in EventIds :
                  DeleteDocs(id) /\ \A e \in events : e \in WithId(id) => e \in readded
         /\ DeleteFromIndex
            => /\ DeleteDocs(message.id)
               /\ \A e \in events : e \notin WithId(message.id)
  <1>1. ASSUME DeleteLoaded
        PROVE  \E id \in EventIds :
                  DeleteDocs(id) /\ \A e \in events : e \in WithId(id) => e \in readded
    <2>1. PICK id \in deleting : DeleteDocs(id)
      BY <1>1 DEF DeleteLoaded
    <2>2. id \in pendingTable /\ id \in EventIds
      BY <1>1, <2>1 DEF DeleteLoaded, StoreInv, DeletionsSound, TypeOK, HandlerType
    <2> QED
      BY <2>1, <2>2 DEF StoreInv, DeletionsSound, WithId
  <1>2. ASSUME DeleteFromIndex
        PROVE  DeleteDocs(message.id) /\ \A e \in events : e \notin WithId(message.id)
    BY <1>2 DEF DeleteFromIndex, StoreInv, DeletionsSound
  <1> QED
    BY <1>1, <1>2

\* What mark_events_as_indexed will take for indexed has a document.
LEMMA MarkableNext == ASSUME StoreInv, [Next]_vars PROVE MarkableRowsHaveDocs'
  <1> USE DEF StoreInv, MarkableRowsHaveDocs
  <1> DEFINE Kept(e) == Copies(e)' = Copies(e)
  <1>1. IndexType /\ \A r \in uncommittedTable \cup txRows : r.event \in Events
    BY DEF TypeOK, TablesType, HandlerType, Row
  <1>2. CASE LoadUncommittedEvents
    <2> DEFINE S == {r.event : r \in uncommittedTable}
    <2>1. AddDocs(S) /\ IsFiniteSet(S) /\ txRows' = {} /\ uncommittedTable' = uncommittedTable
      BY <1>2, RowEventsFinite DEF LoadUncommittedEvents, RowsFinite, RowsSound, tables
    <2>2. \A e \in Events : e \in S => Copies(e)' > 0
      <3> HIDE DEF S
      <3> QED
        BY <1>1, <2>1, AddDocsProps
    <2> QED
      BY <1>1, <2>1, <2>2
  <1>3. CASE Saving
    <2>1. PICK e0 \in Events : e0 = Head(batch)
      BY <1>3, SavingFacts DEF TypeOK, HandlerType
    <2>2. PICK n : txRows' = txRows \cup {[id |-> n, event |-> e0]}
      BY <1>3, <2>1, SavingFacts
    <2>3. AddDocs({e0}) /\ IsFiniteSet({e0})
      BY <1>3, <2>1, SavingFacts, FS_Singleton
    <2>4. Copies(e0)' > 0 /\ \A e \in Events : Copies(e)' >= Copies(e)
      BY <1>1, <2>3, AddDocsProps
    <2>5. \A e \in Events : Copies(e) > 0 => Copies(e)' > 0
      <3>1. \A e \in Events : Copies(e) \in Nat /\ Copies(e)' \in Nat
        BY <1>1, IndexTyped DEF Typed, IndexType, Copies
      <3> QED
        BY <2>4, <3>1
    <2>6. UNCHANGED <<uncommittedTable, uncommittedEvents, readded>>
      BY <1>3, SavingFacts
    <2> HIDE DEF MarkableRowsHaveDocs
    <2>7. \A r \in txRows' : Copies(r.event)' > 0
      BY <1>1, <2>2, <2>4, <2>5 DEF MarkableRowsHaveDocs
    <2>8. \A r \in uncommittedTable' :
             r.id \in uncommittedEvents' => Copies(r.event)' > 0 \/ r.event \in readded'
      BY <1>1, <2>5, <2>6 DEF MarkableRowsHaveDocs
    <2> QED
      BY <2>7, <2>8 DEF MarkableRowsHaveDocs
  <1>4. CASE CommitTransaction
    <2>1. /\ uncommittedTable' = uncommittedTable \cup txRows
          /\ uncommittedEvents' = uncommittedEvents \cup {r.id : r \in txRows}
          /\ txRows' = {}
          /\ readded \ erasing \subseteq readded'
          /\ \A e : Kept(e)
      BY <1>4 DEF CommitTransaction, index, Copies
    <2>2. ASSUME NEW r \in uncommittedTable', r.id \in uncommittedEvents'
          PROVE  Copies(r.event) > 0 \/ r.event \in readded \ erasing
      BY <2>1, <2>2 DEF RowsSound, ErasingSound
    <2> QED
      BY <2>1, <2>2
  <1>5. CASE WriteIndexCommit \/ DeleteIndexCommit
    <2>1. \A e \in Events : Kept(e)
      BY <1>1, <1>5, CommitHelperProps DEF WriteIndexCommit, DeleteIndexCommit
    <2> QED
      BY <1>1, <1>5, <2>1 DEF WriteIndexCommit, DeleteIndexCommit, tables, memory, history
  <1>6. CASE DeleteLoaded \/ DeleteFromIndex
    <2>1. PICK id : DeleteDocs(id) /\ \A e \in events : e \in WithId(id) => e \in readded
      BY <1>6, DeletedDocsNotNeeded
    <2>2. \A e \in Events \ WithId(id) : Kept(e)
      BY <1>1, <2>1, DeleteDocsProps
    <2>3. txRows' = {} /\ UNCHANGED <<uncommittedTable, uncommittedEvents, readded>>
      BY <1>6 DEF DeleteLoaded, DeleteFromIndex, RowsSound, tables, memory
    <2> QED
      BY <1>1, <2>1, <2>2, <2>3 DEF RowsSound
  <1>7. CASE MarkEventsAsIndexed \/ StorageError \/ Stop
    <2>1. CASE MarkEventsAsIndexed
      BY <2>1 DEF MarkEventsAsIndexed, RowsSound
    <2>2. CASE StorageError
      BY <2>2 DEF StorageError, tables, index, memory, Copies
    <2>3. CASE Stop
      BY <2>3 DEF Stop
    <2> QED
      BY <1>7, <2>1, <2>2, <2>3
  <1>8. CASE DeleteRow
    <2>1. \A r \in uncommittedTable : r.event \notin WithId(message.id)
      BY <1>8 DEF DeleteRow, ForeignKeyHeld, WithId
    <2> QED
      BY <1>8, <2>1 DEF DeleteRow, index, memory, Copies
  <1>9. CASE UNCHANGED <<index, uncommittedTable, uncommittedEvents, txRows, readded>>
    BY <1>9 DEF index, Copies
  <1> QED
    BY <1>2, <1>3, <1>4, <1>5, <1>6, <1>7, <1>8, <1>9
    DEF Next, ClientStep, WriterStep, vars, AddEvent, Commit, AddHistoricEvents,
        DeleteEvent, ClientSends, ShutDown, Drop, ReceiveEvent, ReceiveWrite,
        ReceiveHistoricEvents, ReceiveDelete, Receive, HandleFrom, StopWriting,
        LoadPendingDeletionEvents, EndLoad, BeginTransaction, Saving, SkipEvent,
        MarkEventsAsDeleted, DeleteRefused, DeleteMark, Reply, WriterPanics, Crash,
        Open, tables, memory, handler, history

\* added_events = 0 means that nothing is buffered, also after force_commit
\* took that for a commit.
LEMMA BufferNext == ASSUME StoreInv, [Next]_vars PROVE BufferCounted'
  <1> USE DEF StoreInv, BufferCounted
  <1>1. IndexType
    BY DEF TypeOK
  <1>2. CASE LoadUncommittedEvents
    <2>1. addedEvents' = 0 => addedEvents = 0 /\ buffer' = buffer
      BY <1>1, <1>2, AddDocsProps, RowEventsFinite DEF LoadUncommittedEvents, RowsFinite
    <2> QED
      BY <1>2, <2>1 DEF LoadUncommittedEvents, NoDocs
  <1>3. CASE Saving
    <2>1. PICK e0 : e0 = Head(batch)
      OBVIOUS
    <2>2. AddDocs({e0}) /\ IsFiniteSet({e0})
      BY <1>3, <2>1, SavingFacts, FS_Singleton
    <2>3. addedEvents' = 0 => addedEvents = 0 /\ buffer' = buffer
      BY <1>1, <2>2, AddDocsProps
    <2> QED
      BY <1>3, <2>3, SavingFacts DEF NoDocs
  <1>4. CASE DeleteLoaded \/ DeleteFromIndex
    BY <1>4 DEF DeleteLoaded, DeleteFromIndex, DeleteDocs, NoDocs
  <1>5. CASE WriteIndexCommit
    <2>1. PICK elapsed \in BOOLEAN :
             /\ CommitHelper(Forced, elapsed)
             /\ stage' = IF Forced \/ CommitDue(FALSE, elapsed) THEN "markIndexed" ELSE "reply"
      BY <1>5 DEF WriteIndexCommit, Committed
    <2>2. CASE CommitDue(Forced, elapsed)
      BY <2>1, <2>2 DEF CommitHelper, CommitIndex, NoDocs
    <2>3. CASE ~CommitDue(Forced, elapsed)
      <3>1. buffer' = buffer /\ addedEvents' = addedEvents
        BY <2>1, <2>3 DEF CommitHelper, index
      <3>2. stage' = "markIndexed" => Forced
        BY <2>1, <2>3 DEF CommitDue
      <3>3. Forced => addedEvents = 0
        BY <1>1, <2>3 DEF CommitDue, IndexType
      <3> QED
        BY <3>1, <3>2, <3>3 DEF NoDocs
    <2> QED
      BY <2>2, <2>3
  <1>6. CASE DeleteIndexCommit
    BY <1>6 DEF DeleteIndexCommit, CommitHelper, CommitIndex, index, NoDocs
  <1>7. CASE Stop
    BY <1>7 DEF Stop, NoDocs
  <1>8. CASE UNCHANGED index /\ (stage' = stage \/ stage' # "markIndexed")
    BY <1>8 DEF index, NoDocs
  <1> QED
    BY <1>2, <1>3, <1>4, <1>5, <1>6, <1>7, <1>8
    DEF Next, ClientStep, WriterStep, vars, AddEvent, Commit, AddHistoricEvents,
        DeleteEvent, ClientSends, ShutDown, Drop, ReceiveEvent, ReceiveWrite,
        ReceiveHistoricEvents, ReceiveDelete, HandleFrom, StopWriting,
        LoadPendingDeletionEvents, EndLoad, BeginTransaction, Saving, SkipEvent,
        CommitTransaction, MarkEventsAsIndexed, MarkEventsAsDeleted, DeleteRow,
        DeleteRefused, DeleteMark, Reply, StorageError, WriterPanics, Crash, Open, handler

\* What is about to be deleted from the index is not stored, unless readded.
LEMMA DeletionsNext == ASSUME StoreInv, [Next]_vars PROVE DeletionsSound'
  <1> USE DEF StoreInv, DeletionsSound
  <1>1. CASE LoadPendingDeletionEvents
    BY <1>1 DEF LoadPendingDeletionEvents, tables, history
  <1>2. CASE DeleteLoaded
    BY <1>2 DEF DeleteLoaded, tables
  <1>3. CASE CommitTransaction
    BY <1>3 DEF CommitTransaction
  <1>4. CASE MarkEventsAsDeleted \/ DeleteMark
    BY <1>4 DEF MarkEventsAsDeleted, DeleteMark, PendingNotDeleted, history
  <1>5. CASE DeleteRow
    BY <1>5 DEF DeleteRow, DeletionRecorded, WithId, TypeOK, TablesType
  <1>6. CASE /\ events' = events /\ pendingTable' = pendingTable
             /\ readded' = readded
             /\ \/ stage' \notin {"deleteLoaded", "deleteDocs"}
                \/ UNCHANGED <<stage, message, deleting>>
    BY <1>6 DEF WithId
  <1> QED
    BY <1>1, <1>2, <1>3, <1>4, <1>5, <1>6
    DEF Next, ClientStep, WriterStep, vars, AddEvent, Commit, AddHistoricEvents,
        DeleteEvent, ClientSends, ShutDown, Drop, ReceiveEvent, ReceiveWrite,
        ReceiveHistoricEvents, ReceiveDelete, HandleFrom, StopWriting, Stop,
        LoadUncommittedEvents, EndLoad, BeginTransaction, SaveEvent, SaveEventWithNul,
        SkipEvent, WriteIndexCommit, MarkEventsAsIndexed, DeleteRefused, DeleteFromIndex,
        DeleteIndexCommit, Reply, StorageError, WriterPanics, Crash, Open, tables,
        handler, history

\* A row leaves uncommitted_events only once its event is in the index.
LEMMA NoEventLostNext == ASSUME StoreInv, [Next]_vars PROVE NoEventLost'
  <1> USE DEF StoreInv, NoEventLost
  <1>1. IndexType /\ events \subseteq Events
    BY DEF TypeOK, TablesType
  <1>2. CASE CommitTransaction
    BY <1>2 DEF CommitTransaction, HasRow, index
  <1>3. CASE MarkEventsAsIndexed
    <2>1. \A r \in uncommittedTable :
             r.id \in uncommittedEvents => docs[r.event] > 0 \/ r.event \in readded
      <3>1. buffer = NoDocs /\ \A r \in uncommittedTable : r.event \in Events
        BY <1>3 DEF MarkEventsAsIndexed, BufferCounted, TypeOK, TablesType, Row
      <3>2. \A r \in uncommittedTable : Copies(r.event) = docs[r.event]
        BY <1>1, <3>1 DEF Copies, NoDocs, IndexType
      <3> QED
        BY <3>2 DEF MarkableRowsHaveDocs
    <2> QED
      BY <1>3, <2>1 DEF MarkEventsAsIndexed, RowsNotIndexed, HasRow, index, history
  <1>4. CASE WriteIndexCommit \/ DeleteIndexCommit
    <2>1. \A e \in Events : docs'[e] >= docs[e] /\ docs[e] \in Nat /\ docs'[e] \in Nat
      BY <1>1, <1>4, CommitHelperProps DEF WriteIndexCommit, DeleteIndexCommit, IndexType
    <2>2. \A e \in Events : docs[e] > 0 => docs'[e] > 0
      BY <2>1
    <2> QED
      BY <1>1, <1>4, <2>2 DEF WriteIndexCommit, DeleteIndexCommit, HasRow, tables, history
  <1>5. CASE DeleteLoaded \/ DeleteFromIndex
    <2>1. PICK id : DeleteDocs(id) /\ \A e \in events : e \in WithId(id) => e \in readded
      BY <1>5, DeletedDocsNotNeeded
    <2>2. \A e \in Events \ WithId(id) : docs[e] > 0 => docs'[e] > 0
      <3>1. \A e \in Events \ WithId(id) : docs'[e] = docs[e] + buffer[e]
        BY <1>1, <2>1, DeleteDocsProps DEF Copies
      <3> QED
        BY <1>1, <3>1 DEF IndexType
    <2>3. UNCHANGED <<events, uncommittedTable, readded>>
      BY <1>5 DEF DeleteLoaded, DeleteFromIndex, tables
    <2> QED
      BY <1>1, <2>1, <2>2, <2>3 DEF HasRow
  <1>6. CASE DeleteRow
    BY <1>6 DEF DeleteRow, HasRow, index
  <1>7. CASE docs' = docs /\ UNCHANGED <<events, uncommittedTable, readded>>
    BY <1>7 DEF HasRow
  <1> QED
    BY <1>2, <1>3, <1>4, <1>5, <1>6, <1>7
    DEF Next, ClientStep, WriterStep, vars, AddEvent, Commit, AddHistoricEvents,
        DeleteEvent, ClientSends, ShutDown, Drop, ReceiveEvent, ReceiveWrite,
        ReceiveHistoricEvents, ReceiveDelete, StopWriting, Stop, LoadUncommittedEvents,
        AddDocs, LoadPendingDeletionEvents, EndLoad, BeginTransaction, SaveEvent,
        SaveEventWithNul, SkipEvent, MarkEventsAsDeleted, DeleteRefused, DeleteMark, Reply,
        StorageError,
        WriterPanics, Crash, Open, tables, index, history

LEMMA StoreInvNext == StoreInv /\ [Next]_vars => StoreInv'
  <1> SUFFICES ASSUME StoreInv, [Next]_vars PROVE StoreInv'
    OBVIOUS
  <1>1. Typed
    BY DEF StoreInv, Typed
  <1>2. Typed'
    BY <1>1, TypedNext
  <1>3. /\ RowsSound' /\ ErasingSound' /\ MarkableRowsHaveDocs' /\ BufferCounted'
        /\ DeletionsSound' /\ NoEventLost'
    BY RowsSoundNext, ErasingSoundNext, MarkableNext, BufferNext, DeletionsNext,
       NoEventLostNext
  <1> QED
    BY <1>2, <1>3 DEF StoreInv, Typed

\* The inductive invariant holds in every reachable state.
THEOREM StoreInvariant == Spec => []StoreInv
  BY StoreInvInit, StoreInvNext, PTL DEF Spec

\* Whatever is killed or fails between the SQLite commit, the index commit and
\* mark_events_as_indexed, an event in the events table is in the index or has
\* a row from which a later session indexes it, unless it was saved while a
\* deletion of its id was pending.
THEOREM StoredEventsSurvive == Spec => []NoEventLost
  <1>1. StoreInv => NoEventLost
    BY DEF StoreInv
  <1> QED
    BY StoreInvariant, <1>1, PTL

\* No step takes the last document of a stored event out of the index.
LEMMA SearchableStep ==
  ASSUME StoreInv, [Next]_vars
  PROVE  \A e \in events \cap events' : docs[e] > 0 => docs'[e] > 0 \/ e \in readded
  <1> USE DEF StoreInv
  <1>1. IndexType /\ events \subseteq Events
    BY DEF TypeOK, TablesType
  <1>2. CASE WriteIndexCommit \/ DeleteIndexCommit
    <2>1. \A e \in Events : docs'[e] >= docs[e] /\ docs[e] \in Nat /\ docs'[e] \in Nat
      BY <1>1, <1>2, CommitHelperProps DEF WriteIndexCommit, DeleteIndexCommit, IndexType
    <2> QED
      BY <1>1, <2>1
  <1>3. CASE DeleteLoaded \/ DeleteFromIndex
    <2>1. PICK id : DeleteDocs(id) /\ \A e \in events : e \in WithId(id) => e \in readded
      BY <1>3, DeletedDocsNotNeeded
    <2>2. \A e \in Events \ WithId(id) : docs'[e] = docs[e] + buffer[e]
      BY <1>1, <2>1, DeleteDocsProps DEF Copies
    <2> QED
      BY <1>1, <2>1, <2>2 DEF IndexType
  <1>4. CASE docs' = docs
    BY <1>4
  <1> QED
    BY <1>2, <1>3, <1>4
    DEF Next, ClientStep, WriterStep, vars, AddEvent, Commit, AddHistoricEvents,
        DeleteEvent, ClientSends, ShutDown, Drop, ReceiveEvent, ReceiveWrite,
        ReceiveHistoricEvents, ReceiveDelete, StopWriting, Stop, LoadUncommittedEvents,
        AddDocs, LoadPendingDeletionEvents, EndLoad, BeginTransaction, SaveEvent,
        SaveEventWithNul, SkipEvent, CommitTransaction, MarkEventsAsIndexed,
        MarkEventsAsDeleted, DeleteRow, DeleteRefused, DeleteMark, Reply, StorageError,
        WriterPanics, Crash, Open, index

\* What a search can find it finds until it is deleted: neither a crash nor a
\* restart nor the load of unprocessed events takes it out of the index.
THEOREM SearchableEventsStay == Spec => SearchableUntilDeleted
  <1>1. StoreInv /\ [Next]_vars
        => [\A e \in events \cap events' : docs[e] > 0 => docs'[e] > 0 \/ e \in readded]_vars
    BY SearchableStep
  <1> QED
    BY StoreInvariant, <1>1, PTL DEF Spec, SearchableUntilDeleted

-----------------------------------------------------------------------------
(* What an answered write stored stays.                                    *)

\* The elements of a sequence are its head and those of its tail.
LEMMA ElementsOfTail ==
  ASSUME NEW S, NEW s \in Seq(S), s # <<>>
  PROVE  \A e \in Elements(s) : e = Head(s) \/ e \in Elements(Tail(s))
  <1> SUFFICES ASSUME NEW k \in 1 .. Len(s), k # 1
               PROVE  s[k] \in Elements(Tail(s))
    BY DEF Elements
  <1>1. k - 1 \in 1 .. Len(Tail(s)) /\ Tail(s)[k - 1] = s[k]
    OBVIOUS
  <1> QED
    BY <1>1 DEF Elements

\* Every event of a write is saved or was stored, until the answer.
LEMMA BatchStoredNext ==
  ASSUME TypeOK, BatchStored, [Next]_vars
  PROVE  BatchStored'
  <1> USE DEF BatchStored
  <1>1. batch \in Seq(Events)
    BY DEF TypeOK, HandlerType
  <1>2. CASE BeginTransaction
    BY <1>2 DEF BeginTransaction
  <1>3. CASE Saving
    <2>1. /\ stage = "save" /\ stage' = "save" /\ batch # <<>>
          /\ batch' = Tail(batch)
          /\ UNCHANGED <<events, batchEvents>>
          /\ \E row : row.event = Head(batch) /\ txRows' = txRows \cup {row}
          /\ erasing \subseteq erasing'
      BY <1>3, SavingFacts
    <2>2. \A e : Stored(e) \/ e = Head(batch) => Stored(e)' \/ e \in erasing'
      BY <2>1 DEF Stored
    <2>3. \A e \in Elements(batch) : e = Head(batch) \/ e \in Elements(batch')
      BY <1>1, <2>1, ElementsOfTail
    <2> QED
      BY <2>1, <2>2, <2>3
  <1>4. CASE SkipEvent
    <2>1. /\ stage = "save" /\ stage' = "save" /\ batch # <<>>
          /\ batch' = Tail(batch)
          /\ UNCHANGED <<events, txRows, erasing, batchEvents>>
          /\ Stored(Head(batch))
      BY <1>4 DEF SkipEvent, tables
    <2>2. \A e : Stored(e) => Stored(e)'
      BY <2>1 DEF Stored
    <2>3. \A e \in Elements(batch) : e = Head(batch) \/ e \in Elements(batch')
      BY <1>1, <2>1, ElementsOfTail
    <2> QED
      BY <2>1, <2>2, <2>3
  <1>5. CASE CommitTransaction
    <2>1. /\ stage = "save" /\ stage' = "indexCommit" /\ batch = <<>>
          /\ events' = (events \ erasing) \cup {r.event : r \in txRows}
          /\ erased' = (erased \cup erasing) \ {r.event : r \in txRows}
          /\ batchEvents' = batchEvents
      BY <1>5 DEF CommitTransaction, AllSaved
    <2>2. Elements(batch) = {}
      BY <2>1 DEF Elements
    <2> QED
      BY <2>1, <2>2 DEF Stored
  <1>6. CASE WriteIndexCommit \/ MarkEventsAsIndexed \/ MarkEventsAsDeleted
    BY <1>6 DEF WriteIndexCommit, MarkEventsAsIndexed, MarkEventsAsDeleted, tables, history
  <1>7. CASE \/ DeleteRow \/ DeleteRefused \/ DeleteFromIndex \/ DeleteIndexCommit
             \/ DeleteMark
    BY <1>7 DEF DeleteRow, DeleteRefused, DeleteFromIndex, DeleteIndexCommit, DeleteMark
  <1>8. CASE Reply \/ StorageError \/ Stop \/ Open
    BY <1>8 DEF Reply, StorageError, Stop, Open
  <1>9. CASE /\ batchEvents' = batchEvents
             /\ \/ stage = "idle"
                \/ stage' \in {"loadPending", "deleteLoaded", "begin"}
             /\ stage' \notin {"save", "indexCommit", "markIndexed", "markDeleted", "reply"}
    BY <1>9
  <1>10. CASE UNCHANGED <<stage, batch, batchEvents, txRows, erasing, events, erased, result>>
    BY <1>10 DEF Stored
  <1> HIDE DEF BatchStored
  <1> QED
    BY <1>2, <1>3, <1>4, <1>5, <1>6, <1>7, <1>8, <1>9, <1>10
    DEF Next, ClientStep, WriterStep, vars, AddEvent, Commit, AddHistoricEvents,
        DeleteEvent, ClientSends, ShutDown, Drop, ReceiveEvent, ReceiveWrite,
        ReceiveHistoricEvents, ReceiveDelete, Receive, HandleFrom, StopWriting,
        LoadUncommittedEvents, LoadPendingDeletionEvents, DeleteLoaded, EndLoad, Saving,
        WriterPanics, Crash, tables, handler, history

\* An event leaves the acknowledged ones with the events of its id, which alone are
\* taken out of the store, but for those that a NUL erases.
LEMMA AckedNext ==
  ASSUME BatchStored, AckedEventsStored, [Next]_vars
  PROVE  AckedEventsStored'
  <1> USE DEF AckedEventsStored
  <1>1. CASE CommitTransaction
    BY <1>1 DEF CommitTransaction
  <1>2. CASE DeleteRow
    BY <1>2 DEF DeleteRow
  <1>3. CASE Reply
    BY <1>3 DEF Reply, BatchStored, tables
  <1>4. CASE UNCHANGED <<events, acked, erased>>
    BY <1>4
  <1> QED
    BY <1>1, <1>2, <1>3, <1>4
    DEF Next, ClientStep, WriterStep, vars, AddEvent, Commit, AddHistoricEvents,
        DeleteEvent, ClientSends, ShutDown, Drop, ReceiveEvent, ReceiveWrite,
        ReceiveHistoricEvents, ReceiveDelete, StopWriting, Stop, LoadUncommittedEvents,
        LoadPendingDeletionEvents, DeleteLoaded, EndLoad, BeginTransaction, SaveEvent,
        SaveEventWithNul, SkipEvent, WriteIndexCommit, MarkEventsAsIndexed,
        MarkEventsAsDeleted, DeleteRefused, DeleteFromIndex, DeleteIndexCommit, DeleteMark,
        StorageError, WriterPanics, Crash, Open, tables, history

\* The checkpoints change only in the transaction that stores the page.
LEMMA CheckpointStep ==
  ASSUME BatchStored, [Next]_vars
  PROVE  checkpoints' # checkpoints => batchEvents \subseteq events' \cup erased'
  <1>1. CASE CommitTransaction
    <2>1. /\ stage = "save" /\ batch = <<>>
          /\ events' = (events \ erasing) \cup {r.event : r \in txRows}
          /\ erased' = (erased \cup erasing) \ {r.event : r \in txRows}
      BY <1>1 DEF CommitTransaction, AllSaved
    <2>2. Elements(batch) = {}
      BY <2>1 DEF Elements
    <2> QED
      BY <2>1, <2>2 DEF BatchStored, Stored
  <1>2. CASE checkpoints' = checkpoints
    BY <1>2
  <1> QED
    BY <1>1, <1>2
    DEF Next, ClientStep, WriterStep, vars, AddEvent, Commit, AddHistoricEvents,
        DeleteEvent, ClientSends, ShutDown, Drop, ReceiveEvent, ReceiveWrite,
        ReceiveHistoricEvents, ReceiveDelete, StopWriting, Stop, LoadUncommittedEvents,
        LoadPendingDeletionEvents, DeleteLoaded, EndLoad, BeginTransaction, SaveEvent,
        SaveEventWithNul, SkipEvent, WriteIndexCommit, MarkEventsAsIndexed,
        MarkEventsAsDeleted, DeleteRow, DeleteRefused, DeleteFromIndex, DeleteIndexCommit,
        DeleteMark, Reply, StorageError, WriterPanics, Crash, Open, tables

LEMMA BatchInvariant == Spec => [](BatchStored /\ AckedEventsStored)
  <1>1. Init => BatchStored /\ AckedEventsStored
    BY DEF Init, BatchStored, AckedEventsStored
  <1>2. TypeOK /\ BatchStored /\ AckedEventsStored /\ [Next]_vars
        => (BatchStored /\ AckedEventsStored)'
    BY BatchStoredNext, AckedNext
  <1> QED
    BY TypeCorrect, <1>1, <1>2, PTL DEF Spec

\* Once a write was answered with Ok its events stay in the store, whatever is
\* killed or fails afterwards, until they are deleted: by delete_event, or by
\* save_event, which deletes an id in every room when it meets a NUL in an event of it.
THEOREM AckedEventsStay == Spec => []AckedEventsStored
  BY BatchInvariant, PTL

\* A crawler's checkpoint moves only in one transaction with the events of its page,
\* those excepted that a NUL in another event of their id has erased.
THEOREM CheckpointsMoveWithPages == Spec => CheckpointMovesWithPage
  <1>1. BatchStored /\ [Next]_vars
        => [checkpoints' # checkpoints => batchEvents \subseteq events' \cup erased']_vars
    BY CheckpointStep
  <1> QED
    BY BatchInvariant, <1>1, PTL DEF Spec, CheckpointMovesWithPage

-----------------------------------------------------------------------------
(* The invariant of the promises.                                          *)

Inv == StoreInv /\ PromiseInv

\* Documents that were only committed, or not touched, are as covered as before.
LEMMA CopiesKept ==
  ASSUME Inv, UNCHANGED <<events, txRows, erasing, pendingTable, orphaned>>,
         \A e \in Events : Copies(e)' = Copies(e) \/ (Stored(e) /\ Stored(e)')
  PROVE  /\ DanglingDocsCovered'
         /\ \A id : Cleared(id) => Cleared(id)'
  BY DEF Inv, PromiseInv, DanglingDocsCovered, Cleared, Copies, Stored, WithId

LEMMA PromiseInvInit == Init => PromiseInv
  BY DEF Init, PromiseInv, DanglingDocsCovered, CommittedDocsCovered, PendingCleared, NoDocs

\* The load of unprocessed events adds documents of stored events only.
LEMMA CoveredByLoad == ASSUME Inv, LoadUncommittedEvents PROVE PromiseInv'
  <1> DEFINE S == {r.event : r \in uncommittedTable}
  <1>1. AddDocs(S) /\ S \subseteq events
    BY DEF LoadUncommittedEvents, Inv, StoreInv, RowsSound
  <1>2. /\ UNCHANGED <<events, txRows, erasing, pendingTable, orphaned, pendingEvents, message>>
        /\ docs' = docs
        /\ stage = "loadUncommitted" /\ stage' = "loadPending"
        /\ erasing = {}
    BY DEF LoadUncommittedEvents, tables, AddDocs, history, Inv, StoreInv, RowsSound
  <1>3. \A e \in Events : Copies(e)' = Copies(e) \/ (Stored(e) /\ Stored(e)')
    <2>1. \A e \in Events \ S : buffer'[e] = buffer[e]
      BY <1>1 DEF AddDocs
    <2> QED
      BY <1>1, <1>2, <2>1 DEF Copies, Stored
  <1>4. DanglingDocsCovered' /\ \A id : Cleared(id) => Cleared(id)'
    BY <1>2, <1>3, CopiesKept
  <1>5. CommittedDocsCovered'
    BY <1>2 DEF Inv, PromiseInv, CommittedDocsCovered
  <1>6. PendingCleared'
    BY <1>2, <1>4 DEF Inv, PromiseInv, PendingCleared
  <1> QED
    BY <1>4, <1>5, <1>6 DEF PromiseInv

\* An event that is being saved is stored, in the open transaction; one whose row is
\* deleted on the way is orphaned.
LEMMA CoveredBySave == ASSUME Inv, Saving PROVE PromiseInv'
  <1>1. PICK e0 : e0 = Head(batch)
    OBVIOUS
  <1>2. AddDocs({e0}) /\ \E row : row.event = e0 /\ txRows' = txRows \cup {row}
    BY <1>1, SavingFacts
  <1>3. /\ UNCHANGED <<events, pendingTable, pendingEvents, message, stage>>
        /\ docs' = docs /\ stage = "save"
        /\ \E S : erasing' = erasing \cup S /\ orphaned' = orphaned \cup S
    BY SavingFacts
  <1>4. \A e : Stored(e) \/ e \in orphaned => Stored(e)' \/ e \in orphaned'
    BY <1>2, <1>3 DEF Stored
  <1>5. Stored(e0)'
    BY <1>2 DEF Stored
  <1>6. \A e \in Events : e # e0 => Copies(e)' = Copies(e)
    BY <1>2, <1>3 DEF AddDocs, Copies
  <1>7. DanglingDocsCovered'
    BY <1>3, <1>4, <1>5, <1>6 DEF Inv, PromiseInv, DanglingDocsCovered, Copies
  <1>8. CommittedDocsCovered'
    BY <1>3 DEF Inv, PromiseInv, CommittedDocsCovered
  <1>9. PendingCleared'
    <2>1. \A id : Cleared(id) => Cleared(id)'
      BY <1>3, <1>4, <1>5, <1>6 DEF Cleared, WithId
    <2> QED
      BY <1>3, <2>1 DEF Inv, PromiseInv, PendingCleared
  <1> QED
    BY <1>7, <1>8, <1>9 DEF PromiseInv

\* Its transaction changes what stores the events, not which are stored.  What it
\* deletes is orphaned.
LEMMA CoveredByCommit == ASSUME Inv, CommitTransaction PROVE PromiseInv'
  <1>1. /\ events' = (events \ erasing) \cup {r.event : r \in txRows}
        /\ txRows' = {} /\ erasing' = {}
        /\ stage = "save" /\ stage' = "indexCommit"
        /\ UNCHANGED <<docs, buffer, pendingTable, orphaned, pendingEvents, message>>
    BY DEF CommitTransaction, index
  <1>2. \A e : Stored(e)' <=> Stored(e)
    BY <1>1 DEF Stored
  <1>3. DanglingDocsCovered'
    BY <1>1, <1>2 DEF Inv, PromiseInv, DanglingDocsCovered
  <1>4. CommittedDocsCovered'
    BY <1>1 DEF Inv, StoreInv, ErasingSound, PromiseInv, CommittedDocsCovered
  <1>5. PendingCleared'
    <2>1. \A id : Cleared(id) => Cleared(id)'
      BY <1>1, <1>2 DEF Cleared, Copies
    <2> QED
      BY <1>1, <2>1 DEF Inv, PromiseInv, PendingCleared
  <1> QED
    BY <1>3, <1>4, <1>5 DEF PromiseInv

\* A commit of the index makes documents durable that were covered in the buffer.
LEMMA CoveredByIndexCommit ==
  ASSUME Inv, WriteIndexCommit \/ DeleteIndexCommit
  PROVE  PromiseInv' /\ \A e \in Events : docs[e] > 0 => docs'[e] > 0
  <1>1. IndexType
    BY DEF Inv, StoreInv, TypeOK
  <1>2. /\ IndexType'
        /\ \A e \in Events : Copies(e)' = Copies(e) /\ docs'[e] >= docs[e]
    BY <1>1, CommitHelperProps DEF WriteIndexCommit, DeleteIndexCommit
  <1>3. /\ UNCHANGED <<events, txRows, erasing, pendingTable, orphaned, pendingEvents, message>>
        /\ txRows = {} /\ erasing = {}
        /\ stage' \notin {"deleteLoaded", "deleteDocs"}
        /\ stage # "deleteDocs"
    BY DEF WriteIndexCommit, DeleteIndexCommit, tables, memory, history, Inv, StoreInv,
           RowsSound
  <1>4. DanglingDocsCovered' /\ \A id : Cleared(id) => Cleared(id)'
    BY <1>2, <1>3, CopiesKept
  <1>5. CommittedDocsCovered'
    <2>1. \A e \in Events : docs'[e] > 0 => (docs[e] + buffer[e])' > 0
      BY <1>2 DEF IndexType
    <2> QED
      BY <1>3, <1>4, <2>1 DEF DanglingDocsCovered, CommittedDocsCovered, Stored
  <1>6. PendingCleared'
    BY <1>3, <1>4 DEF Inv, PromiseInv, PendingCleared
  <1>7. \A e \in Events : docs[e] > 0 => docs'[e] > 0
    BY <1>1, <1>2 DEF IndexType
  <1> QED
    BY <1>4, <1>5, <1>6, <1>7 DEF PromiseInv

\* A deletion in the index leaves nothing of its id and touches no other.
LEMMA DeletionInIndex ==
  ASSUME Inv, NEW id, DeleteDocs(id), txRows = {}, erasing = {},
         UNCHANGED <<events, txRows, erasing, pendingTable>>,
         orphaned' = orphaned \ WithId(id)
  PROVE  /\ DanglingDocsCovered' /\ CommittedDocsCovered'
         /\ Cleared(id)'
         /\ \A other : Cleared(other) => Cleared(other)'
         /\ \A e \in WithId(id) : docs'[e] = 0
         /\ \A e \in Events : docs'[e] > 0
               => e \notin WithId(id)
                  /\ (e \in events \/ IdOf[e] \in pendingTable \/ e \in orphaned)
  <1>1. IndexType
    BY DEF Inv, StoreInv, TypeOK
  <1>2. \A e \in WithId(id) : docs'[e] = 0 /\ Copies(e)' = 0
    BY DEF DeleteDocs, Copies, WithId, NoDocs
  <1>3. \A e \in Events \ WithId(id) : Copies(e)' = Copies(e) /\ docs'[e] = Copies(e)
    BY <1>1, DeleteDocsProps
  <1>4. \A e : Stored(e)' <=> Stored(e)
    BY DEF Stored
  <1>5. \A e \in Events : Copies(e)' > 0 =>
           /\ e \notin WithId(id)
           /\ Stored(e)' \/ IdOf[e] \in pendingTable' \/ e \in orphaned'
    BY <1>2, <1>3, <1>4 DEF Inv, PromiseInv, DanglingDocsCovered, Copies
  <1>6. DanglingDocsCovered'
    BY <1>5 DEF DanglingDocsCovered, Copies
  <1>7. \A e \in Events : docs'[e] > 0 => Copies(e)' > 0
    BY <1>2, <1>3
  <1>8. CommittedDocsCovered'
    BY <1>5, <1>7 DEF CommittedDocsCovered, Stored
  <1>9. Cleared(id)' /\ \A other : Cleared(other) => Cleared(other)'
    <2>1. \A e \in Events : Copies(e)' > 0 => e \notin WithId(id) /\ Copies(e) > 0
      BY <1>3, <1>5
    <2>2. \A e \in Events : e \in orphaned /\ e \notin WithId(id) => e \in orphaned'
      OBVIOUS
    <2> QED
      BY <1>4, <2>1, <2>2 DEF Cleared, WithId
  <1>10. \A e \in Events : docs'[e] > 0
            => e \notin WithId(id) /\ (e \in events \/ IdOf[e] \in pendingTable \/ e \in orphaned)
    BY <1>5, <1>7 DEF Stored
  <1> QED
    BY <1>2, <1>6, <1>8, <1>9, <1>10

LEMMA CoveredByDeletions ==
  ASSUME Inv, DeleteLoaded \/ DeleteFromIndex
  PROVE  PromiseInv'
  <1>1. /\ txRows = {} /\ erasing = {}
        /\ UNCHANGED <<events, txRows, erasing, pendingTable, message>>
    BY DEF DeleteLoaded, DeleteFromIndex, tables, Inv, StoreInv, RowsSound
  <1>2. CASE DeleteLoaded
    <2>1. PICK id \in deleting : /\ DeleteDocs(id)
                                 /\ deleting' = deleting \ {id}
                                 /\ orphaned' = orphaned \ WithId(id)
      BY <1>2 DEF DeleteLoaded
    <2>2. /\ DanglingDocsCovered' /\ CommittedDocsCovered'
          /\ Cleared(id)'
          /\ \A other : Cleared(other) => Cleared(other)'
      BY <1>1, <2>1, DeletionInIndex
    <2>3. stage = "deleteLoaded" /\ stage' = stage /\ pendingEvents' = pendingEvents
      BY <1>2 DEF DeleteLoaded, memory
    <2>4. PendingCleared'
      BY <1>1, <2>1, <2>2, <2>3 DEF Inv, PromiseInv, PendingCleared
    <2> QED
      BY <2>2, <2>4 DEF PromiseInv
  <1>3. CASE DeleteFromIndex
    <2>1. /\ DeleteDocs(message.id)
          /\ orphaned' = orphaned \ WithId(message.id)
          /\ pendingEvents' = pendingEvents \cup {message.id}
          /\ stage = "deleteDocs" /\ stage' = "deleteCommit"
      BY <1>3 DEF DeleteFromIndex
    <2>2. /\ DanglingDocsCovered' /\ CommittedDocsCovered'
          /\ Cleared(message.id)'
          /\ \A other : Cleared(other) => Cleared(other)'
      BY <1>1, <2>1, DeletionInIndex
    <2>3. PendingCleared'
      BY <1>1, <2>1, <2>2 DEF Inv, PromiseInv, PendingCleared
    <2> QED
      BY <2>2, <2>3 DEF PromiseInv
  <1> QED
    BY <1>2, <1>3

\* The rows of the first transaction go, and the deletion is recorded with them.
LEMMA CoveredByDeleteRow == ASSUME Inv, DeleteRow PROVE PromiseInv'
  <1>1. /\ events' = events \ WithId(message.id)
        /\ pendingTable' = pendingTable \cup {message.id}
        /\ stage = "deleteRow" /\ stage' = "deleteDocs"
        /\ txRows = {} /\ erasing = {}
        /\ UNCHANGED <<docs, buffer, txRows, erasing, orphaned, pendingEvents, message>>
    BY DEF DeleteRow, DeletionRecorded, index, memory, Inv, StoreInv, RowsSound
  <1>2. \A e \in Events : Stored(e) => Stored(e)' \/ IdOf[e] \in pendingTable'
    BY <1>1 DEF Stored, WithId
  <1>3. DanglingDocsCovered'
    BY <1>1, <1>2 DEF Inv, PromiseInv, DanglingDocsCovered
  <1>4. CommittedDocsCovered'
    BY <1>1 DEF Inv, PromiseInv, CommittedDocsCovered, WithId
  <1>5. PendingCleared'
    <2>1. \A id : id # message.id /\ Cleared(id) => Cleared(id)'
      BY <1>1 DEF Cleared, Copies, Stored, WithId
    <2> QED
      BY <1>1, <2>1 DEF Inv, PromiseInv, PendingCleared
  <1> QED
    BY <1>3, <1>4, <1>5 DEF PromiseInv

\* Of an id that is taken out of pending_deletion_events nothing is left.
LEMMA CoveredByMark ==
  ASSUME Inv, MarkEventsAsDeleted \/ DeleteMark
  PROVE  /\ PromiseInv'
         /\ \A e \in Events : docs[e] > 0 /\ IdOf[e] \in pendingEvents
                                => e \in events \/ e \in orphaned
  <1>1. /\ pendingTable' = pendingTable \ pendingEvents
        /\ pendingEvents' = {}
        /\ stage \in {"markDeleted", "deleteMark"} /\ stage' = "reply"
        /\ txRows = {} /\ erasing = {}
        /\ UNCHANGED <<events, docs, buffer, txRows, erasing, orphaned, message>>
    BY DEF MarkEventsAsDeleted, DeleteMark, PendingNotDeleted, index, handler, history,
           Inv, StoreInv, RowsSound
  <1>2. \A id \in pendingEvents : Cleared(id)
    BY <1>1 DEF Inv, PromiseInv, PendingCleared
  <1>3. \A e \in Events : Copies(e) > 0 /\ IdOf[e] \in pendingEvents
                            => e \in events \/ e \in orphaned
    BY <1>1, <1>2 DEF Cleared, WithId, Stored
  <1>4. \A e \in Events : docs[e] > 0 => Copies(e) > 0
    BY DEF Inv, StoreInv, TypeOK, IndexType, Copies
  <1>5. DanglingDocsCovered'
    BY <1>1, <1>3 DEF Inv, PromiseInv, DanglingDocsCovered, Copies, Stored
  <1>6. CommittedDocsCovered'
    BY <1>1, <1>3, <1>4 DEF Inv, PromiseInv, CommittedDocsCovered
  <1>7. PendingCleared'
    BY <1>1 DEF PendingCleared
  <1> QED
    BY <1>3, <1>4, <1>5, <1>6, <1>7 DEF PromiseInv

\* A rolled back transaction leaves documents, a dead process leaves committed ones.
LEMMA CoveredByTrouble == ASSUME Inv, StorageError \/ Stop PROVE PromiseInv'
  <1>1. IndexType
    BY DEF Inv, StoreInv, TypeOK
  <1>2. CASE StorageError
    <2>1. /\ UNCHANGED <<events, docs, buffer, pendingTable, pendingEvents, message>>
          /\ txRows' = {} /\ erasing' = {}
          /\ orphaned' = orphaned \cup {r.event : r \in txRows}
          /\ stage # "deleteDocs" /\ stage' = "reply"
      BY <1>2 DEF StorageError, Fallible, tables, index, memory
    <2>2. \A e : Stored(e) \/ e \in orphaned => Stored(e)' \/ e \in orphaned'
      BY <2>1 DEF Stored
    <2>3. DanglingDocsCovered'
      BY <2>1, <2>2 DEF Inv, PromiseInv, DanglingDocsCovered
    <2>4. CommittedDocsCovered'
      BY <2>1 DEF Inv, PromiseInv, CommittedDocsCovered
    <2>5. PendingCleared'
      <3>1. \A id : Cleared(id) => Cleared(id)'
        BY <2>1, <2>2 DEF Cleared, Copies
      <3> QED
        BY <2>1, <3>1 DEF Inv, PromiseInv, PendingCleared
    <2> QED
      BY <2>3, <2>4, <2>5 DEF PromiseInv
  <1>3. CASE Stop
    <2>1. /\ UNCHANGED <<events, docs, pendingTable, orphaned>>
          /\ txRows' = {} /\ erasing' = {} /\ buffer' = NoDocs /\ pendingEvents' = {}
          /\ stage' = "stopped"
      BY <1>3 DEF Stop, tables, history
    <2>2. CommittedDocsCovered'
      BY <2>1 DEF Inv, PromiseInv, CommittedDocsCovered
    <2>3. \A e \in Events : docs'[e] + buffer'[e] = docs'[e]
      BY <1>1, <2>1 DEF NoDocs, IndexType
    <2>4. DanglingDocsCovered'
      BY <2>1, <2>2, <2>3 DEF DanglingDocsCovered, CommittedDocsCovered, Stored
    <2>5. PendingCleared'
      BY <2>1 DEF PendingCleared
    <2> QED
      BY <2>2, <2>4, <2>5 DEF PromiseInv
  <1> QED
    BY <1>2, <1>3

\* The ids to delete are read from the table, and when all of them are deleted
\* the whole table is cleared.
LEMMA CoveredByLoadedDeletions ==
  ASSUME Inv, LoadPendingDeletionEvents \/ EndLoad
  PROVE  PromiseInv'
  <1>1. /\ UNCHANGED <<events, docs, buffer, txRows, erasing, pendingTable, orphaned, message>>
        /\ stage # "deleteDocs" /\ stage' # "deleteDocs"
    BY DEF LoadPendingDeletionEvents, EndLoad, tables, index, history
  <1>2. \A e : Stored(e)' <=> Stored(e)
    BY <1>1 DEF Stored
  <1>3. DanglingDocsCovered' /\ CommittedDocsCovered' /\ \A id : Cleared(id) => Cleared(id)'
    BY <1>1, <1>2
    DEF Inv, PromiseInv, DanglingDocsCovered, CommittedDocsCovered, Cleared, Copies
  <1>4. PendingCleared'
    <2>1. CASE LoadPendingDeletionEvents
      <3>1. pendingEvents' = pendingEvents /\ deleting' = pendingTable'
        BY <1>1, <2>1 DEF LoadPendingDeletionEvents, memory
      <3> QED
        BY <1>1, <1>3, <3>1 DEF Inv, PromiseInv, PendingCleared
    <2>2. CASE EndLoad
      <3>1. /\ pendingEvents' = pendingEvents \cup pendingTable
            /\ stage = "deleteLoaded" /\ deleting = {} /\ stage' = "begin"
        BY <2>2 DEF EndLoad
      <3> QED
        BY <1>1, <1>3, <3>1 DEF Inv, PromiseInv, PendingCleared
    <2> QED
      BY <2>1, <2>2
  <1> QED
    BY <1>3, <1>4 DEF PromiseInv

\* What none of the remaining steps touches, but for the stages that they reach.
durable == <<events, uncommittedTable, pendingTable, docs, readded, orphaned>>

\* All other steps.
Quiet ==
    /\ UNCHANGED <<durable, buffer, txRows, erasing, pendingEvents, deleting>>
    /\ \/ UNCHANGED <<stage, message>>
       \/ stage \notin {"deleteLoaded", "deleteDocs"} /\ stage' \notin {"deleteLoaded", "deleteDocs"}

LEMMA CoveredByQuiet == ASSUME Inv, Quiet PROVE PromiseInv'
  <1>1. \A e : Stored(e)' <=> Stored(e)
    BY DEF Quiet, durable, Stored
  <1>2. \A id : Cleared(id) => Cleared(id)'
    BY <1>1 DEF Quiet, durable, Cleared, Copies
  <1> QED
    BY <1>1, <1>2 DEF Quiet, durable, Inv, PromiseInv, DanglingDocsCovered,
                      CommittedDocsCovered, PendingCleared

\* Every step is one of the above.
LEMMA StepKinds ==
  ASSUME [Next]_vars
  PROVE  \/ LoadUncommittedEvents \/ LoadPendingDeletionEvents \/ DeleteLoaded \/ EndLoad
         \/ Saving \/ CommitTransaction \/ WriteIndexCommit \/ MarkEventsAsIndexed
         \/ MarkEventsAsDeleted \/ DeleteRow \/ DeleteFromIndex \/ DeleteIndexCommit
         \/ DeleteMark \/ StorageError \/ Stop
         \/ Quiet
  <1>1. CASE ClientStep
    BY <1>1 DEF ClientStep, AddEvent, Commit, AddHistoricEvents, DeleteEvent, ClientSends,
                ShutDown, Drop, Quiet, durable, tables, index, memory, handler, history
  <1>2. CASE ReceiveEvent \/ ReceiveWrite \/ ReceiveHistoricEvents \/ ReceiveDelete
    BY <1>2 DEF ReceiveEvent, ReceiveWrite, ReceiveHistoricEvents, ReceiveDelete, Receive,
                HandleFrom, Quiet, durable, tables, index, memory, handler, history
  <1>3. CASE BeginTransaction \/ SkipEvent \/ DeleteRefused \/ Reply
    BY <1>3 DEF BeginTransaction, SkipEvent, DeleteRefused, Reply, Quiet, durable, tables,
                index, memory, history
  <1>4. CASE Open \/ UNCHANGED vars
    BY <1>4 DEF Open, vars, Quiet, durable, tables, index, memory, handler, history
  <1> QED
    BY <1>1, <1>2, <1>3, <1>4
    DEF Next, WriterStep, Saving, StopWriting, WriterPanics, Crash

\* Marking rows as indexed changes uncommitted_events only.
LEMMA CoveredByMarkIndexed == ASSUME Inv, MarkEventsAsIndexed PROVE PromiseInv'
  <1>1. /\ UNCHANGED <<events, docs, buffer, txRows, erasing, pendingTable, orphaned,
                       pendingEvents, message>>
        /\ stage # "deleteDocs" /\ stage' = "markDeleted"
    BY DEF MarkEventsAsIndexed, index, history
  <1>2. \A e : Stored(e)' <=> Stored(e)
    BY <1>1 DEF Stored
  <1>3. \A id : Cleared(id) => Cleared(id)'
    BY <1>1, <1>2 DEF Cleared, Copies
  <1> QED
    BY <1>1, <1>2, <1>3 DEF Inv, PromiseInv, DanglingDocsCovered, CommittedDocsCovered,
                            PendingCleared

LEMMA InvNext == Inv /\ [Next]_vars => Inv'
  <1> SUFFICES ASSUME Inv, [Next]_vars PROVE Inv'
    OBVIOUS
  <1>1. StoreInv'
    BY StoreInvNext DEF Inv
  <1>2. PromiseInv'
    BY StepKinds, CoveredByLoad, CoveredBySave, CoveredByCommit, CoveredByIndexCommit,
       CoveredByDeletions, CoveredByDeleteRow, CoveredByMark, CoveredByMarkIndexed,
       CoveredByTrouble, CoveredByLoadedDeletions, CoveredByQuiet
  <1> QED
    BY <1>1, <1>2 DEF Inv

LEMMA Invariance == Spec => []Inv
  <1>1. Init => Inv
    BY StoreInvInit, PromiseInvInit DEF Inv
  <1> QED
    BY <1>1, InvNext, PTL DEF Spec

\* A document of an event that is not stored is going to be deleted, in every
\* session and after every crash, unless a failed write left it, or save_event, which
\* deletes rows of an id because of a NUL and leaves their documents.
THEOREM DocumentsCovered == Spec => []DanglingDocsCovered
  <1>1. Inv => DanglingDocsCovered
    BY DEF Inv, PromiseInv
  <1> QED
    BY Invariance, <1>1, PTL

-----------------------------------------------------------------------------
(* The refinement.                                                         *)

LEMMA PromiseInit == Init => Lifecycle!LifecycleInit
  BY DEF Init, Lifecycle!LifecycleInit, Findable, RowEvents, NoDocs

\* The transaction of a write stores its events, and loses those a NUL erased, which
\* nothing owes.
LEMMA CommitStores ==
  ASSUME Inv, CommitTransaction
  PROVE  \E S, E \in SUBSET Events : Lifecycle!Store(S, E)
  <1> DEFINE S == {r.event : r \in txRows}
  <1>1. S \in SUBSET Events /\ erasing \in SUBSET Events
    BY DEF Inv, StoreInv, TypeOK, HandlerType, Row
  <1>2. /\ events' = (events \ erasing) \cup S
        /\ readded' = (readded \ erasing) \cup {e \in S : IdOf[e] \in pendingTable}
        /\ uncommittedTable' = uncommittedTable \cup txRows
        /\ UNCHANGED <<docs, pendingTable, orphaned>>
    BY DEF CommitTransaction, index
  <1>3. RowEvents' = RowEvents \cup S
    BY <1>2 DEF RowEvents
  <1>4. readded' = (readded \ erasing) \cup (S \cap Lifecycle!Leaving)
    BY <1>1, <1>2 DEF Lifecycle!Leaving
  <1>5. Findable' = Findable
    BY <1>2 DEF Findable
  <1>6. erasing \subseteq orphaned \ RowEvents
    BY DEF Inv, StoreInv, ErasingSound, RowEvents
  <1> HIDE DEF S
  <1>7. Lifecycle!Store(S, erasing)
    BY <1>2, <1>3, <1>4, <1>5, <1>6 DEF Lifecycle!Store
  <1> QED
    BY <1>1, <1>7

\* A commit of the index shows what is stored or covered.
LEMMA IndexCommitShows ==
  ASSUME Inv, WriteIndexCommit \/ DeleteIndexCommit
  PROVE  \E S \in SUBSET Events : Lifecycle!Show(S)
  <1>1. UNCHANGED <<events, uncommittedTable, pendingTable, readded, orphaned>>
    BY DEF WriteIndexCommit, DeleteIndexCommit, tables, history
  <1>2. PromiseInv' /\ Findable \subseteq Findable'
    BY CoveredByIndexCommit DEF Findable
  <1>3. Findable' \subseteq events \cup Lifecycle!Leaving \cup orphaned
    BY <1>1, <1>2 DEF PromiseInv, CommittedDocsCovered, Findable, Lifecycle!Leaving
  <1>4. Findable' \in SUBSET Events
    BY DEF Findable
  <1>5. RowEvents' = RowEvents
    BY <1>1 DEF RowEvents
  <1>6. Lifecycle!Show(Findable')
    BY <1>1, <1>2, <1>3, <1>5 DEF Lifecycle!Show
  <1> QED
    BY <1>4, <1>6

\* mark_events_as_indexed settles what it takes out of uncommitted_events.
LEMMA MarkSettles ==
  ASSUME Inv, MarkEventsAsIndexed
  PROVE  \E S \in SUBSET Events : Lifecycle!Settle(S)
  <1>1. /\ uncommittedTable' = RowsNotIndexed
        /\ buffer = NoDocs
        /\ UNCHANGED <<events, docs, pendingTable, readded, orphaned>>
    BY DEF MarkEventsAsIndexed, index, history, Inv, StoreInv, BufferCounted
  <1>2. \A r \in uncommittedTable : r.event \in Events
    BY DEF Inv, StoreInv, TypeOK, TablesType, Row
  <1>3. \A r \in uncommittedTable :
           r.id \in uncommittedEvents => r.event \in Findable \cup readded
    <2>1. \A e \in Events : Copies(e) > 0 => docs[e] > 0
      BY <1>1 DEF Copies, NoDocs, Inv, StoreInv, TypeOK, IndexType
    <2> QED
      BY <1>2, <2>1 DEF Inv, StoreInv, MarkableRowsHaveDocs, Findable
  <1> DEFINE S == RowEvents \ RowEvents'
  <1>4. S \subseteq Findable \cup readded
    BY <1>1, <1>3 DEF RowEvents, RowsNotIndexed
  <1>5. RowEvents' \subseteq RowEvents
    BY <1>1 DEF RowEvents, RowsNotIndexed
  <1>6. S \in SUBSET Events /\ RowEvents' = RowEvents \ S
    BY <1>2, <1>5 DEF RowEvents
  <1>7. Findable' = Findable
    BY <1>1 DEF Findable
  <1> HIDE DEF S
  <1>8. Lifecycle!Settle(S)
    BY <1>1, <1>4, <1>6, <1>7 DEF Lifecycle!Settle
  <1> QED
    BY <1>6, <1>8

\* The first transaction of a deletion, which the foreign key of
\* uncommitted_events keeps away from events that are owed.
LEMMA DeleteRowDeletes ==
  ASSUME Inv, DeleteRow
  PROVE  \E id \in EventIds : Lifecycle!Delete(id)
  <1>1. message.id \in EventIds
    BY DEF DeleteRow, Inv, StoreInv, MessageFitsStage, DeleteMessage
  <1>2. WithId(message.id) = Lifecycle!SameId(message.id)
    BY DEF WithId, Lifecycle!SameId
  <1>3. RowEvents \cap WithId(message.id) = {}
    BY DEF DeleteRow, ForeignKeyHeld, RowEvents, WithId
  <1>4. /\ events' = events \ WithId(message.id)
        /\ pendingTable' = pendingTable \cup {message.id}
        /\ readded' = readded \ WithId(message.id)
        /\ UNCHANGED <<uncommittedTable, docs, orphaned>>
    BY DEF DeleteRow, DeletionRecorded, index
  <1>5. Findable' = Findable /\ RowEvents' = RowEvents
    BY <1>4 DEF Findable, RowEvents
  <1>6. Lifecycle!Delete(message.id)
    BY <1>2, <1>3, <1>4, <1>5 DEF Lifecycle!Delete
  <1> QED
    BY <1>1, <1>6

\* The deletions in the index.
LEMMA DeletionHides ==
  ASSUME Inv, DeleteLoaded \/ DeleteFromIndex
  PROVE  \E id \in EventIds, S \in SUBSET Events : Lifecycle!Hide(id, S)
  <1>1. PICK id \in EventIds : /\ DeleteDocs(id)
                               /\ id \in pendingTable
                               /\ orphaned' = orphaned \ WithId(id)
    <2>1. CASE DeleteLoaded
      <3>1. PICK id \in deleting : DeleteDocs(id) /\ orphaned' = orphaned \ WithId(id)
        BY <2>1 DEF DeleteLoaded
      <3>2. id \in pendingTable /\ id \in EventIds
        BY <2>1, <3>1 DEF DeleteLoaded, Inv, StoreInv, DeletionsSound, TypeOK, HandlerType
      <3> QED
        BY <3>1, <3>2
    <2>2. CASE DeleteFromIndex
      <3>1. DeleteDocs(message.id) /\ orphaned' = orphaned \ WithId(message.id)
        BY <2>2 DEF DeleteFromIndex
      <3>2. message.id \in pendingTable /\ message.id \in EventIds
        BY <2>2 DEF DeleteFromIndex, Inv, StoreInv, PromiseInv, PendingCleared, TypeOK,
                    TablesType
      <3> QED
        BY <3>1, <3>2
    <2> QED
      BY <2>1, <2>2
  <1>2. /\ txRows = {} /\ erasing = {}
        /\ UNCHANGED <<events, txRows, erasing, uncommittedTable, pendingTable, readded>>
    BY DEF DeleteLoaded, DeleteFromIndex, tables, Inv, StoreInv, RowsSound
  <1>3. /\ \A e \in WithId(id) : docs'[e] = 0
        /\ \A e \in Events : docs'[e] > 0
              => e \notin WithId(id)
                 /\ (e \in events \/ IdOf[e] \in pendingTable \/ e \in orphaned)
    BY <1>1, <1>2, DeletionInIndex
  <1>4. WithId(id) = Lifecycle!SameId(id)
    BY DEF WithId, Lifecycle!SameId
  <1>5. Findable' \subseteq (events \cup Lifecycle!Leaving \cup orphaned) \ WithId(id)
    BY <1>3 DEF Findable, Lifecycle!Leaving
  <1>6. Findable \ WithId(id) \subseteq Findable'
    <2>1. \A e \in Events \ WithId(id) : docs'[e] = docs[e] + buffer[e]
      BY <1>1 DEF DeleteDocs, WithId
    <2> QED
      BY <2>1 DEF Findable, Inv, StoreInv, TypeOK, IndexType
  <1>7. Findable' = (Findable \ WithId(id)) \cup Findable'
    BY <1>6
  <1>8. RowEvents' = RowEvents /\ Findable' \in SUBSET Events
    BY <1>2 DEF RowEvents, Findable
  <1>9. Lifecycle!Hide(id, Findable')
    BY <1>1, <1>2, <1>4, <1>5, <1>7, <1>8 DEF Lifecycle!Hide
  <1> QED
    BY <1>8, <1>9

\* Taking ids out of pending_deletion_events forgets them.
LEMMA MarkForgets ==
  ASSUME Inv, MarkEventsAsDeleted \/ DeleteMark
  PROVE  \E ids \in SUBSET EventIds : Lifecycle!Forget(ids)
  <1>1. /\ pendingTable' = pendingTable \ pendingEvents
        /\ UNCHANGED <<events, docs, uncommittedTable, readded, orphaned>>
    BY DEF MarkEventsAsDeleted, DeleteMark, PendingNotDeleted, index, history
  <1>2. \A e \in Findable : IdOf[e] \in pendingEvents => e \in events \cup orphaned
    BY CoveredByMark DEF Findable
  <1>3. pendingEvents \in SUBSET EventIds
    BY DEF Inv, StoreInv, TypeOK, MemoryType
  <1>4. Findable' = Findable /\ RowEvents' = RowEvents
    BY <1>1 DEF Findable, RowEvents
  <1>5. Lifecycle!Forget(pendingEvents)
    BY <1>1, <1>2, <1>4 DEF Lifecycle!Forget
  <1> QED
    BY <1>3, <1>5

\* A failing call leaves the documents of its transaction.
LEMMA ErrorLeavesStrays ==
  ASSUME Inv, StorageError
  PROVE  \E S \in SUBSET Events : Lifecycle!Stray(S)
  <1> DEFINE S == {r.event : r \in txRows}
  <1>1. S \in SUBSET Events
    BY DEF Inv, StoreInv, TypeOK, HandlerType, Row
  <1>2. /\ orphaned' = orphaned \cup S
        /\ UNCHANGED <<events, uncommittedTable, docs, pendingTable, readded>>
    BY DEF StorageError, tables, index
  <1> HIDE DEF S
  <1>3. Findable' = Findable /\ RowEvents' = RowEvents
    BY <1>2 DEF Findable, RowEvents
  <1>4. Lifecycle!Stray(S)
    BY <1>2, <1>3 DEF Lifecycle!Stray
  <1> QED
    BY <1>1, <1>4

\* So does a save that deletes rows because of a NUL, before its transaction commits.
LEMMA SaveLeavesStrays ==
  ASSUME Inv, Saving
  PROVE  \E S \in SUBSET Events : Lifecycle!Stray(S)
  <1>1. PICK S \in SUBSET events : orphaned' = orphaned \cup S
    BY SavingFacts
  <1>2. S \in SUBSET Events
    BY DEF Inv, StoreInv, TypeOK, TablesType
  <1>3. UNCHANGED <<events, uncommittedTable, docs, pendingTable, readded>>
    BY SavingFacts
  <1>4. Findable' = Findable /\ RowEvents' = RowEvents
    BY <1>3 DEF Findable, RowEvents
  <1>5. Lifecycle!Stray(S)
    BY <1>1, <1>3, <1>4 DEF Lifecycle!Stray
  <1> QED
    BY <1>2, <1>5

\* Nothing durable changes, nothing of the promise does.
LEMMA QuietPromise == ASSUME UNCHANGED durable PROVE UNCHANGED Lifecycle!lifecycle
  BY DEF durable, Lifecycle!lifecycle, Findable, RowEvents

LEMMA PromiseNext ==
  ASSUME Inv, [Next]_vars
  PROVE  [Lifecycle!LifecycleNext]_(Lifecycle!lifecycle)
  <1>1. (LoadUncommittedEvents \/ LoadPendingDeletionEvents \/ EndLoad
            \/ Stop \/ Quiet) => UNCHANGED durable
    BY DEF LoadUncommittedEvents, LoadPendingDeletionEvents, EndLoad, Stop,
           Quiet, AddDocs, durable, tables, index, history
  <1>2. \/ \E S, E \in SUBSET Events : Lifecycle!Store(S, E)
        \/ \E S \in SUBSET Events : \/ Lifecycle!Show(S) \/ Lifecycle!Settle(S)
                                    \/ Lifecycle!Stray(S)
        \/ \E id \in EventIds : \/ Lifecycle!Delete(id)
                                \/ \E S \in SUBSET Events : Lifecycle!Hide(id, S)
        \/ \E ids \in SUBSET EventIds : Lifecycle!Forget(ids)
        \/ UNCHANGED durable
    BY <1>1, StepKinds, CommitStores, IndexCommitShows, MarkSettles, DeleteRowDeletes,
       DeletionHides, MarkForgets, ErrorLeavesStrays, SaveLeavesStrays
  <1> QED
    BY <1>2, QuietPromise DEF Lifecycle!LifecycleNext

\* The store keeps the promises of SeshatLifecycle, whatever its clients send, for
\* any events, pages and rates, and wherever calls fail or the process dies.  The
\* promise allows for the events that a NUL erases: they become strays, and a Store
\* may lose strays that no row of uncommitted_events owes.
THEOREM StoreKeepsPromises == Spec => KeepsPromises
  <1>1. Inv /\ [Next]_vars => [Lifecycle!LifecycleNext]_(Lifecycle!lifecycle)
    BY PromiseNext
  <1> QED
    BY PromiseInit, Invariance, <1>1, PTL DEF Spec, KeepsPromises, Lifecycle!LifecycleSpec

-----------------------------------------------------------------------------
(* delete_event.                                                           *)

\* Nothing of the message's id is stored or indexed.
Gone == \A e \in WithId(message.id) : e \notin events /\ docs[e] = 0 /\ buffer[e] = 0

\* A deletion that has reached the index is recorded, in the table and in the list
\* of the writer, until it is marked.
DeletionDone ==
    stage \in {"deleteCommit", "deleteMark"} =>
        Gone /\ message.id \in pendingTable /\ message.id \in pendingEvents

DeleteInv == DeletionDone /\ DeleteAnswer

\* A commit of the index adds no document of an id that has none.
LEMMA GoneCommitted == ASSUME Inv, Gone, DeleteIndexCommit PROVE Gone'
  <1>1. UNCHANGED <<events, message>> /\ \E elapsed \in BOOLEAN : CommitHelper(FALSE, elapsed)
    BY DEF DeleteIndexCommit, tables
  <1>2. IndexType
    BY DEF Inv, StoreInv, TypeOK
  <1>3. \A e \in Events : docs[e] = 0 /\ buffer[e] = 0 => docs'[e] = 0 /\ buffer'[e] = 0
    <2>1. /\ IndexType'
          /\ \A e \in Events : Copies(e)' = Copies(e)
      BY <1>1, <1>2, CommitHelperProps
    <2> QED
      BY <1>2, <2>1 DEF IndexType, Copies
  <1> QED
    BY <1>1, <1>3 DEF Gone, WithId

LEMMA DeleteInvNext == ASSUME Inv, DeleteInv, [Next]_vars PROVE DeleteInv'
  <1> USE DEF DeleteInv
  <1>1. MessageFitsStage
    BY DEF Inv, StoreInv
  <1>2. CASE DeleteFromIndex
    <2>1. /\ stage = "deleteDocs" /\ stage' = "deleteCommit"
          /\ DeleteDocs(message.id)
          /\ pendingEvents' = pendingEvents \cup {message.id}
          /\ UNCHANGED <<events, pendingTable, message>>
      BY <1>2 DEF DeleteFromIndex, tables
    <2>2. message.id \in pendingTable /\ events \cap WithId(message.id) = {}
      BY <2>1 DEF Inv, PromiseInv, PendingCleared, StoreInv, DeletionsSound
    <2>3. \A e \in WithId(message.id) : docs'[e] = 0 /\ buffer'[e] = 0
      BY <2>1 DEF DeleteDocs, WithId, NoDocs
    <2> QED
      BY <2>1, <2>2, <2>3 DEF DeletionDone, DeleteAnswer, Gone, WithId
  <1>3. CASE DeleteIndexCommit
    <2>1. /\ stage = "deleteCommit"
          /\ \/ stage' = "deleteMark"
             \/ stage' = "reply" /\ result' = "commitNeeded"
          /\ UNCHANGED <<pendingTable, pendingEvents, message>>
      BY <1>3 DEF DeleteIndexCommit, tables, memory
    <2>2. Gone'
      BY <1>3, <2>1, GoneCommitted DEF DeletionDone
    <2> QED
      BY <2>1, <2>2 DEF DeletionDone, DeleteAnswer, Gone
  <1>4. CASE DeleteMark
    <2>1. /\ stage = "deleteMark" /\ stage' = "reply" /\ result' = "deleted"
          /\ pendingTable' = pendingTable \ pendingEvents
          /\ UNCHANGED <<events, docs, buffer, message>>
      BY <1>4 DEF DeleteMark, PendingNotDeleted, index
    <2> QED
      BY <2>1 DEF DeletionDone, DeleteAnswer, Gone, WithId
  <1>5. CASE WriteIndexCommit \/ MarkEventsAsDeleted
    <2>1. message' = message /\ stage' \notin {"deleteCommit", "deleteMark"}
      BY <1>5 DEF WriteIndexCommit, MarkEventsAsDeleted
    <2>2. message.type # "Delete"
      BY <1>1, <1>5 DEF WriteIndexCommit, MarkEventsAsDeleted, MessageFitsStage,
                        WriteMessage, HistoricMessage
    <2> QED
      BY <2>1, <2>2 DEF DeletionDone, DeleteAnswer
  <1>6. CASE StorageError \/ DeleteRefused
    BY <1>6 DEF StorageError, DeleteRefused, DeletionDone, DeleteAnswer
  <1>7. CASE stage' \notin {"deleteCommit", "deleteMark", "reply"}
    BY <1>7 DEF DeletionDone, DeleteAnswer
  <1>8. CASE UNCHANGED <<stage, message, result, events, docs, buffer, pendingTable,
                         pendingEvents>>
    BY <1>8 DEF DeletionDone, DeleteAnswer, Gone, WithId
  <1> HIDE DEF DeleteInv
  <1> QED
    BY <1>2, <1>3, <1>4, <1>5, <1>6, <1>7, <1>8
    DEF Next, ClientStep, WriterStep, vars, AddEvent, Commit, AddHistoricEvents,
        DeleteEvent, ClientSends, ShutDown, Drop, ReceiveEvent, ReceiveWrite,
        ReceiveHistoricEvents, ReceiveDelete, Receive, HandleFrom, StopWriting, Stop,
        LoadUncommittedEvents, LoadPendingDeletionEvents, DeleteLoaded, EndLoad,
        BeginTransaction, SaveEvent, SaveEventWithNul, SkipEvent, CommitTransaction,
        MarkEventsAsIndexed, DeleteRow, Reply, WriterPanics, Crash, Open, tables, index, memory, handler

\* When delete_event answers without an error nothing of the id can be found, and
\* true says that nothing of the deletion is left to do, false that it is pending.
THEOREM DeleteAnswersTruly == Spec => []DeleteAnswer
  <1>1. Init => DeleteInv
    BY DEF Init, DeleteInv, DeletionDone, DeleteAnswer
  <1>2. Inv /\ DeleteInv /\ [Next]_vars => DeleteInv'
    BY DeleteInvNext
  <1>3. DeleteInv => DeleteAnswer
    BY DEF DeleteInv
  <1> QED
    BY Invariance, <1>1, <1>2, <1>3, PTL DEF Spec

-----------------------------------------------------------------------------
(* Forced commits.                                                         *)

\* The stages of a Write whose session has loaded what earlier ones left.
AfterLoad == {"loadPending", "deleteLoaded", "begin", "save", "indexCommit", "markIndexed",
              "markDeleted"}

\* A session that has loaded uncommitted_events knows every row of it.
RowsKnown ==
    /\ loadedUnprocessed /\ ~loadFailed /\ stage # "loadUncommitted"
       => \A r \in uncommittedTable : r.id \in uncommittedEvents
    /\ stage \in {"loadUncommitted"} \cup AfterLoad /\ message.type = "Write"
       => loadedUnprocessed
    /\ stage = "stopped" => ~loadedUnprocessed

\* mark_events_as_indexed leaves no row of a forced commit.
RowsDrained ==
    /\ stage = "markDeleted" /\ message.type = "Write" /\ ~loadFailed
       => uncommittedTable = {}
    /\ stage = "reply" /\ message.type = "Write" /\ Forced /\ result = "ok" /\ ~loadFailed
       => uncommittedTable = {}

DrainInv == RowsKnown /\ RowsDrained

LEMMA RowsKnownNext == ASSUME Inv, DrainInv, [Next]_vars PROVE RowsKnown'
  <1> USE DEF DrainInv, RowsKnown, AfterLoad
  <1>1. CASE ReceiveWrite
    BY <1>1 DEF ReceiveWrite, HandleFrom, LoadNeeded, Receive, tables, history
  <1>2. CASE ReceiveHistoricEvents \/ ReceiveDelete
    BY <1>2 DEF ReceiveHistoricEvents, ReceiveDelete, HandleFrom, Receive, tables, memory,
                history
  <1>3. CASE LoadUncommittedEvents
    BY <1>3 DEF LoadUncommittedEvents, tables, history
  <1>4. CASE CommitTransaction
    BY <1>4 DEF CommitTransaction
  <1>5. CASE MarkEventsAsIndexed
    BY <1>5 DEF MarkEventsAsIndexed, RowsNotIndexed, history
  <1>6. CASE StorageError
    BY <1>6 DEF StorageError, tables, memory
  <1>7. CASE Stop \/ Open
    <2>1. stage' \in {"stopped", "idle"}
      BY <1>7 DEF Stop, Open
    <2>2. ~loadedUnprocessed'
      BY <1>7 DEF Stop, Open, memory
    <2> QED
      BY <2>1, <2>2
  <1>8. CASE Reply \/ DeleteRow \/ DeleteRefused \/ DeleteFromIndex \/ DeleteIndexCommit
             \/ DeleteMark
    <2>1. /\ UNCHANGED <<uncommittedTable, uncommittedEvents, loadedUnprocessed, loadFailed>>
          /\ stage # "loadUncommitted"
          /\ stage' \in {"idle", "reply", "deleteDocs", "deleteCommit", "deleteMark"}
      <3>1. CASE Reply \/ DeleteRefused
        BY <3>1 DEF Reply, DeleteRefused, tables, memory, history
      <3>2. CASE DeleteRow \/ DeleteFromIndex
        BY <3>2 DEF DeleteRow, DeleteFromIndex, tables, memory, history
      <3>3. CASE DeleteIndexCommit \/ DeleteMark
        BY <3>3 DEF DeleteIndexCommit, DeleteMark, tables, memory, history
      <3> QED
        BY <1>8, <3>1, <3>2, <3>3
    <2> QED
      BY <2>1
  <1>9. CASE LoadPendingDeletionEvents \/ DeleteLoaded \/ EndLoad \/ BeginTransaction
             \/ SaveEvent \/ SaveEventWithNul \/ SkipEvent \/ WriteIndexCommit
             \/ MarkEventsAsDeleted
    BY <1>9 DEF LoadPendingDeletionEvents, DeleteLoaded, EndLoad, BeginTransaction,
                SaveEvent, SaveEventWithNul, SkipEvent, WriteIndexCommit,
                MarkEventsAsDeleted, tables, memory, history
  <1>10. CASE UNCHANGED <<stage, message, loadedUnprocessed, loadFailed, uncommittedTable,
                          uncommittedEvents>>
    BY <1>10
  <1> HIDE DEF DrainInv, RowsKnown, AfterLoad
  <1> QED
    BY <1>1, <1>2, <1>3, <1>4, <1>5, <1>6, <1>7, <1>8, <1>9, <1>10
    DEF Next, ClientStep, WriterStep, vars, AddEvent, Commit, AddHistoricEvents,
        DeleteEvent, ClientSends, ShutDown, Drop, ReceiveEvent, StopWriting,
        WriterPanics, Crash, tables, memory, handler, history

LEMMA RowsDrainedNext == ASSUME Inv, DrainInv, [Next]_vars PROVE RowsDrained'
  <1> USE DEF RowsDrained
  <1>1. RowsKnown /\ RowsDrained
    BY DEF DrainInv
  <1>2. CASE MarkEventsAsIndexed
    <2>1. /\ uncommittedTable' = RowsNotIndexed
          /\ stage = "markIndexed" /\ stage' = "markDeleted"
          /\ UNCHANGED <<message, loadFailed>>
      BY <1>2 DEF MarkEventsAsIndexed, history
    <2>2. message.type = "Write" /\ ~loadFailed => RowsNotIndexed = {}
      BY <1>1, <2>1 DEF RowsKnown, AfterLoad, RowsNotIndexed
    <2> QED
      BY <2>1, <2>2
  <1>3. CASE MarkEventsAsDeleted
    BY <1>1, <1>3 DEF MarkEventsAsDeleted, Forced, history
  <1>4. CASE WriteIndexCommit
    <2>1. /\ UNCHANGED <<uncommittedTable, message, result>>
          /\ stage' \in {"markIndexed", "reply"}
          /\ stage' = "reply" => ~Forced
      BY <1>4 DEF WriteIndexCommit, Committed, tables
    <2> QED
      BY <2>1 DEF Forced
  <1>5. CASE DeleteIndexCommit \/ DeleteMark
    BY <1>5 DEF DeleteIndexCommit, DeleteMark
  <1>6. CASE StorageError \/ DeleteRefused
    BY <1>6 DEF StorageError, DeleteRefused
  <1>7. CASE stage' \notin {"markDeleted", "reply"}
    BY <1>7
  <1>8. CASE UNCHANGED <<stage, message, result, uncommittedTable, loadFailed>>
    BY <1>1, <1>8 DEF Forced
  <1> HIDE DEF RowsDrained
  <1> QED
    BY <1>2, <1>3, <1>4, <1>5, <1>6, <1>7, <1>8
    DEF Next, ClientStep, WriterStep, vars, AddEvent, Commit, AddHistoricEvents,
        DeleteEvent, ClientSends, ShutDown, Drop, ReceiveEvent, ReceiveWrite, LoadNeeded,
        ReceiveHistoricEvents, ReceiveDelete, Receive, HandleFrom, StopWriting, Stop,
        LoadUncommittedEvents, LoadPendingDeletionEvents, DeleteLoaded, EndLoad,
        BeginTransaction, SaveEvent, SaveEventWithNul, SkipEvent, CommitTransaction,
        DeleteRow, DeleteFromIndex, Reply, WriterPanics, Crash, Open, tables, handler, history

\* When force_commit answers Ok no row is left in uncommitted_events and everything
\* stored is in the committed index, if the session could load what was left.
THEOREM ForcedCommitsDrain == Spec => []ForcedCommitDrains
  <1>1. Init => DrainInv
    BY DEF Init, DrainInv, RowsKnown, RowsDrained, AfterLoad
  <1>2. Inv /\ DrainInv /\ [Next]_vars => DrainInv'
    BY RowsKnownNext, RowsDrainedNext DEF DrainInv
  <1>3. Inv /\ DrainInv => ForcedCommitDrains
    BY DEF Inv, StoreInv, NoEventLost, HasRow, DrainInv, RowsDrained, ForcedCommitDrains
  <1> QED
    BY Invariance, <1>1, <1>2, <1>3, PTL DEF Spec

-----------------------------------------------------------------------------
(* Duplicates in the index.                                                *)

\* Every event of an open transaction is saved once, the others were not stored.
LEMMA TransactionNewNext == ASSUME TransactionNew, [Next]_vars PROVE TransactionNew'
  <1> USE DEF TransactionNew
  <1>1. CASE Saving
    BY <1>1, SavingFacts DEF Stored
  <1>2. CASE CommitTransaction \/ StorageError \/ Stop
    BY <1>2 DEF CommitTransaction, StorageError, Stop
  <1>3. CASE DeleteRow
    BY <1>3 DEF DeleteRow
  <1>4. CASE UNCHANGED <<txRows, events, erasing>>
    BY <1>4
  <1> HIDE DEF TransactionNew
  <1> QED
    BY <1>1, <1>2, <1>3, <1>4
    DEF Next, ClientStep, WriterStep, vars, AddEvent, Commit, AddHistoricEvents,
        DeleteEvent, ClientSends, ShutDown, Drop, ReceiveEvent, ReceiveWrite,
        ReceiveHistoricEvents, ReceiveDelete, HandleFrom, StopWriting,
        LoadUncommittedEvents, LoadPendingDeletionEvents, DeleteLoaded, EndLoad,
        BeginTransaction, Saving, SkipEvent, WriteIndexCommit, MarkEventsAsIndexed,
        MarkEventsAsDeleted, DeleteRefused, DeleteFromIndex, DeleteIndexCommit,
        DeleteMark, Reply, WriterPanics, Crash, Open, tables, handler

\* A Write sets loaded_unprocessed before anything else.
LEMMA LoadFirstNext == ASSUME TypeOK, LoadFirst, [Next]_vars PROVE LoadFirst'
  <1> USE DEF LoadFirst
  <1>1. CASE ReceiveWrite
    BY <1>1 DEF ReceiveWrite, HandleFrom
  <1>2. CASE ReceiveHistoricEvents
    <2>1. message' \in HistoricMessage
      BY <1>2, MessageKinds
      DEF ReceiveHistoricEvents, Receive, HandleFrom, TypeOK, ClientType
    <2> QED
      BY <1>2, <2>1 DEF ReceiveHistoricEvents, HandleFrom
  <1>3. CASE stage' \notin {"loadUncommitted", "loadPending", "deleteLoaded", "begin",
                            "save", "indexCommit"}
    BY <1>3
  <1>4. CASE LoadUncommittedEvents \/ LoadPendingDeletionEvents \/ DeleteLoaded \/ EndLoad
    BY <1>4 DEF LoadUncommittedEvents, LoadPendingDeletionEvents, DeleteLoaded, EndLoad, memory
  <1>5. CASE BeginTransaction \/ SaveEvent \/ SaveEventWithNul \/ SkipEvent
             \/ CommitTransaction
    BY <1>5 DEF BeginTransaction, SaveEvent, SaveEventWithNul, SkipEvent, CommitTransaction,
                memory
  <1>6. CASE UNCHANGED <<stage, message, loadedUnprocessed>>
    BY <1>6
  <1> HIDE DEF LoadFirst
  <1> QED
    BY <1>1, <1>2, <1>3, <1>4, <1>5, <1>6
    DEF Next, ClientStep, WriterStep, vars, AddEvent, Commit, AddHistoricEvents,
        DeleteEvent, ClientSends, ShutDown, Drop, ReceiveEvent, ReceiveDelete, HandleFrom,
        StopWriting, Stop, WriteIndexCommit, MarkEventsAsIndexed, MarkEventsAsDeleted,
        DeleteRow, DeleteRefused, DeleteFromIndex, DeleteIndexCommit, DeleteMark, Reply,
        StorageError, WriterPanics, Crash, Open, memory, handler

\* Sums of counters that do not fall.
LEMMA SumType == ASSUME NEW m \in Nat, NEW n \in Nat PROVE m + n \in Nat
  OBVIOUS

LEMMA SumsGrow ==
  ASSUME NEW m \in Nat, NEW n \in Nat, NEW p \in Nat, NEW q \in Nat, p >= m, q >= n
  PROVE  p + q >= m + n
  OBVIOUS

\* An event that gets no more documents keeps its room, and gains some from a failure
\* or a restart.
LEMMA RoomKept ==
  ASSUME IndexType, IndexType', ClientType, ClientType', NEW e \in Events,
         opens' + failures' >= opens + failures, Copies(e)' <= Copies(e)
  PROVE  /\ RoomForCopy(e) => RoomForCopy(e)'
         /\ Copies(e) <= opens + failures => Copies(e)' <= opens' + failures'
         /\ Copies(e) <= opens + failures /\ opens' + failures' > opens + failures
              => RoomForCopy(e)'
  <1>1. Copies(e) \in Nat /\ Copies(e)' \in Nat
    BY DEF IndexType, Copies
  <1>2. opens + failures \in Nat /\ opens' + failures' \in Nat
    <2>1. opens \in Nat /\ failures \in Nat /\ opens' \in Nat /\ failures' \in Nat
      BY DEF ClientType
    <2> QED
      BY <2>1, SumType
  <1>3. RoomForCopy(e) => Copies(e) < opens + failures
    BY DEF RoomForCopy
  <1>4. Copies(e)' < opens' + failures' => RoomForCopy(e)'
    BY DEF RoomForCopy
  <1> QED
    BY <1>1, <1>2, <1>3, <1>4

\* The types of two successive states, for the lemmas on single steps.
CountTyped == /\ IndexType /\ IndexType' /\ ClientType /\ ClientType'
              /\ StoreInv /\ CopiesCounted

\* The load adds a document of the events of rows, which have room for it.
LEMMA RoomAfterLoad ==
  ASSUME CountTyped, LoadUncommittedEvents
  PROVE  RoomLeft' /\ DuplicatesBounded'
  <1> DEFINE S == {r.event : r \in uncommittedTable}
  <1>1. /\ stage = "loadUncommitted" /\ stage' = "loadPending"
        /\ docs' = docs
        /\ buffer' = [e \in Events |-> IF e \in S THEN buffer[e] + 1 ELSE buffer[e]]
        /\ UNCHANGED <<events, uncommittedTable, txRows, erasing, loadedUnprocessed, opens,
                       failures>>
        /\ erasing = {}
    BY DEF LoadUncommittedEvents, AddDocs, tables, bounds, CountTyped, StoreInv, RowsSound
  <1>2. loadedUnprocessed
    BY <1>1 DEF CountTyped, CopiesCounted, LoadFirst
  <1>3. S \subseteq events
    BY DEF CountTyped, StoreInv, RowsSound
  <1>4. ASSUME NEW e \in Events, e \notin S
        PROVE  Copies(e)' = Copies(e) /\ (RoomForCopy(e) => RoomForCopy(e)')
    <2>1. Copies(e)' = Copies(e)
      BY <1>1, <1>4 DEF Copies
    <2> QED
      BY <1>1, <2>1 DEF RoomForCopy
  <1>5. ASSUME NEW e \in Events, e \in S
        PROVE  Copies(e)' <= opens' + failures'
    <2>1. HasRow(e)
      BY <1>5 DEF HasRow
    <2>2. RoomForCopy(e)
      BY <1>1, <2>1 DEF CountTyped, CopiesCounted, RoomLeft, AboutToBeMarked
    <2>3. docs[e] \in Nat /\ buffer[e] \in Nat /\ opens + failures \in Nat
      BY DEF CountTyped, IndexType, ClientType
    <2>4. docs'[e] = docs[e] /\ buffer'[e] = buffer[e] + 1
      BY <1>1, <1>5
    <2> QED
      BY <1>1, <2>2, <2>3, <2>4 DEF RoomForCopy, Copies
  <1>6. DuplicatesBounded'
    BY <1>1, <1>4, <1>5 DEF CountTyped, CopiesCounted, DuplicatesBounded, Copies
  <1>7. \A e \in Events : ~Stored(e)' => RoomForCopy(e)'
    <2> SUFFICES ASSUME NEW e \in Events, ~Stored(e)' PROVE RoomForCopy(e)'
      OBVIOUS
    <2>1. ~Stored(e) /\ e \notin S
      BY <1>1, <1>3 DEF Stored
    <2> QED
      BY <1>1, <1>4, <2>1 DEF CountTyped, CopiesCounted, RoomLeft
  <1> QED
    BY <1>1, <1>2, <1>6, <1>7 DEF RoomLeft

\* Only an event that is not stored is saved, and that has room.
LEMMA RoomAfterSave ==
  ASSUME CountTyped, SaveEvent
  PROVE  RoomLeft' /\ DuplicatesBounded'
  <1>1. PICK e : e = Head(batch)
    OBVIOUS
  <1>2. PICK row : row.event = e /\ txRows' = txRows \cup {row}
    <2>1. PICK n : txRows' = txRows \cup {[id |-> n, event |-> e]}
      BY <1>1 DEF SaveEvent, InsertRow
    <2> QED
      BY <2>1
  <1>3. /\ stage = "save" /\ stage' = "save"
        /\ ~Stored(e)
        /\ docs' = docs
        /\ buffer' = [d \in Events |-> IF d = e THEN buffer[d] + 1 ELSE buffer[d]]
        /\ UNCHANGED <<events, uncommittedTable, uncommittedEvents, erasing, loadedUnprocessed,
                       message, opens, failures>>
    BY <1>1 DEF SaveEvent, AddDocs, tables, bounds, memory
  <1>4. \A d \in Events : d # e => Copies(d)' = Copies(d) /\ (RoomForCopy(d) => RoomForCopy(d)')
    <2>1. \A d \in Events : d # e => Copies(d)' = Copies(d)
      BY <1>3 DEF Copies
    <2> QED
      BY <1>3, <2>1 DEF RoomForCopy
  <1>5. e \in Events => Copies(e)' <= opens' + failures'
    <2> SUFFICES ASSUME e \in Events PROVE Copies(e)' <= opens' + failures'
      OBVIOUS
    <2>1. RoomForCopy(e)
      BY <1>3 DEF CountTyped, CopiesCounted, RoomLeft
    <2>2. docs[e] \in Nat /\ buffer[e] \in Nat /\ opens + failures \in Nat
      BY DEF CountTyped, IndexType, ClientType
    <2>3. docs'[e] = docs[e] /\ buffer'[e] = buffer[e] + 1
      BY <1>3
    <2> QED
      BY <1>3, <2>1, <2>2, <2>3 DEF RoomForCopy, Copies
  <1>6. DuplicatesBounded'
    BY <1>3, <1>4, <1>5 DEF CountTyped, CopiesCounted, DuplicatesBounded, Copies
  <1>7. Stored(e)' /\ \A d \in Events : ~Stored(d)' => ~Stored(d)
    BY <1>2, <1>3 DEF Stored
  <1>8. ~HasRow(e)' /\ \A d \in Events : HasRow(d)' => HasRow(d)
    BY <1>3 DEF HasRow, Stored, CountTyped, StoreInv, RowsSound, ErasingSound
  <1>9. ASSUME NEW d \in Events
        PROVE  /\ ~Stored(d)' => RoomForCopy(d)'
               /\ HasRow(d)' /\ ~loadedUnprocessed' => RoomForCopy(d)'
    BY <1>3, <1>4, <1>7, <1>8 DEF CountTyped, CopiesCounted, RoomLeft, AboutToBeMarked
  <1> QED
    BY <1>3, <1>6, <1>9 DEF RoomLeft

\* A NUL makes room for one more document of every event, and one is added.
LEMMA RoomAfterNul ==
  ASSUME CountTyped, SaveEventWithNul
  PROVE  RoomLeft' /\ DuplicatesBounded'
  <1>1. /\ stage = "save" /\ stage' = "save"
        /\ ~Stored(Head(batch))
        /\ docs' = docs
        /\ buffer' = [d \in Events |-> IF d = Head(batch) THEN buffer[d] + 1 ELSE buffer[d]]
        /\ opens' = opens /\ failures' = failures + 1
    BY DEF SaveEventWithNul, AddDocs
  <1>2. ASSUME NEW d \in Events
        PROVE  RoomForCopy(d)' /\ Copies(d)' <= opens' + failures'
    <2>1. /\ docs[d] \in Nat /\ buffer[d] \in Nat /\ opens \in Nat /\ failures \in Nat
          /\ docs[d] + buffer[d] <= opens + failures
      BY DEF CountTyped, IndexType, ClientType, CopiesCounted, DuplicatesBounded
    <2>2. CASE d # Head(batch)
      <3>1. docs'[d] = docs[d] /\ buffer'[d] = buffer[d]
        BY <1>1, <2>2
      <3> QED
        BY <1>1, <2>1, <3>1 DEF RoomForCopy, Copies
    <2>3. CASE d = Head(batch)
      <3>1. docs[d] + buffer[d] < opens + failures
        BY <1>1, <2>3 DEF CountTyped, CopiesCounted, RoomLeft, RoomForCopy, Copies
      <3>2. docs'[d] = docs[d] /\ buffer'[d] = buffer[d] + 1
        BY <1>1, <2>3
      <3> QED
        BY <1>1, <2>1, <3>1, <3>2 DEF RoomForCopy, Copies
    <2> QED
      BY <2>2, <2>3
  <1> QED
    BY <1>2 DEF RoomLeft, DuplicatesBounded, Copies

\* The rows of the transaction are about to be marked, those of older writes had
\* room, and have it.
LEMMA RoomAfterCommit ==
  ASSUME CountTyped, CommitTransaction
  PROVE  RoomLeft' /\ DuplicatesBounded'
  <1>1. /\ stage = "save" /\ stage' = "indexCommit"
        /\ events' = (events \ erasing) \cup {r.event : r \in txRows}
        /\ uncommittedTable' = uncommittedTable \cup txRows
        /\ uncommittedEvents' = uncommittedEvents \cup {r.id : r \in txRows}
        /\ txRows' = {} /\ erasing' = {}
        /\ UNCHANGED <<docs, buffer, opens, failures, loadedUnprocessed>>
    BY DEF CommitTransaction, index, bounds
  <1>2. \A e \in Events : (RoomForCopy(e)' <=> RoomForCopy(e)) /\ (Stored(e)' <=> Stored(e))
    BY <1>1 DEF RoomForCopy, Copies, Stored
  <1>3. DuplicatesBounded'
    BY <1>1 DEF CountTyped, CopiesCounted, DuplicatesBounded
  <1>4. ASSUME NEW e \in Events, HasRow(e)', ~loadedUnprocessed
        PROVE  RoomForCopy(e)' \/ AboutToBeMarked(e)'
    <2>1. CASE HasRow(e)
      BY <1>1, <1>2, <1>4, <2>1 DEF CountTyped, CopiesCounted, RoomLeft, AboutToBeMarked
    <2>2. CASE ~HasRow(e)
      <3>1. \A r \in uncommittedTable' : r.event = e => r \in txRows
        BY <1>1, <2>2 DEF HasRow
      <3> QED
        BY <1>1, <3>1 DEF AboutToBeMarked
    <2> QED
      BY <2>1, <2>2
  <1>5. \A e \in Events : ~Stored(e)' => RoomForCopy(e)'
    BY <1>1, <1>2 DEF CountTyped, CopiesCounted, RoomLeft
  <1> QED
    BY <1>1, <1>3, <1>4, <1>5 DEF RoomLeft

\* The write of historic events goes on to mark its rows.
LEMMA RoomAfterIndexCommit ==
  ASSUME CountTyped, WriteIndexCommit \/ DeleteIndexCommit
  PROVE  RoomLeft' /\ DuplicatesBounded'
  <1>1. /\ UNCHANGED <<events, uncommittedTable, uncommittedEvents, txRows, erasing, opens,
                       failures, loadedUnprocessed>>
        /\ \E force, elapsed : CommitHelper(force, elapsed)
        /\ stage \in {"indexCommit", "deleteCommit"}
        /\ stage' \in {"markIndexed", "reply", "deleteMark"}
        /\ stage = "indexCommit" /\ Forced => stage' = "markIndexed"
    BY DEF WriteIndexCommit, DeleteIndexCommit, Committed, tables, memory, bounds
  <1>2. \A e \in Events : Copies(e)' = Copies(e)
    BY <1>1, CommitHelperProps DEF CountTyped
  <1>3. \A e \in Events : /\ RoomForCopy(e) => RoomForCopy(e)'
                          /\ Stored(e)' <=> Stored(e)
                          /\ HasRow(e)' <=> HasRow(e)
    BY <1>1, <1>2 DEF RoomForCopy, Stored, HasRow
  <1>4. DuplicatesBounded'
    BY <1>1, <1>2 DEF CountTyped, CopiesCounted, DuplicatesBounded, Copies
  <1>5. stage = "indexCommit" /\ ~loadedUnprocessed => stage' = "markIndexed"
    BY <1>1 DEF CountTyped, CopiesCounted, LoadFirst, HistoricMessage, Forced
  <1>6. ASSUME NEW e \in Events, AboutToBeMarked(e), ~loadedUnprocessed
        PROVE  AboutToBeMarked(e)'
    BY <1>1, <1>5, <1>6 DEF AboutToBeMarked
  <1> QED
    BY <1>1, <1>3, <1>4, <1>6 DEF CountTyped, CopiesCounted, RoomLeft

\* A row that is left was not about to be marked.
LEMMA RoomAfterMark ==
  ASSUME CountTyped, MarkEventsAsIndexed
  PROVE  RoomLeft' /\ DuplicatesBounded'
  <1>1. /\ stage = "markIndexed" /\ stage' = "markDeleted"
        /\ uncommittedTable' = {r \in uncommittedTable : r.id \notin uncommittedEvents}
        /\ UNCHANGED <<events, txRows, erasing, docs, buffer, opens, failures,
                       loadedUnprocessed>>
    BY DEF MarkEventsAsIndexed, RowsNotIndexed, index, bounds
  <1>2. \A e \in Events : (RoomForCopy(e)' <=> RoomForCopy(e)) /\ (Stored(e)' <=> Stored(e))
    BY <1>1 DEF RoomForCopy, Copies, Stored
  <1>3. DuplicatesBounded'
    BY <1>1 DEF CountTyped, CopiesCounted, DuplicatesBounded
  <1>4. \A e \in Events : HasRow(e)' => HasRow(e) /\ ~AboutToBeMarked(e)
    BY <1>1 DEF HasRow, AboutToBeMarked
  <1> QED
    BY <1>1, <1>2, <1>3, <1>4 DEF CountTyped, CopiesCounted, RoomLeft

\* What is taken out of the store waits for its deletion from the index.
LEMMA RoomAfterDeleteRow ==
  ASSUME CountTyped, DeleteRow
  PROVE  RoomLeft' /\ DuplicatesBounded'
  <1>1. /\ stage = "deleteRow" /\ stage' = "deleteDocs"
        /\ events' = events \ WithId(message.id)
        /\ UNCHANGED <<uncommittedTable, txRows, erasing, docs, buffer, opens, failures,
                       message, loadedUnprocessed>>
    BY DEF DeleteRow, index, bounds, memory
  <1>2. \A e \in Events : (RoomForCopy(e)' <=> RoomForCopy(e)) /\ (HasRow(e)' <=> HasRow(e))
    BY <1>1 DEF RoomForCopy, Copies, HasRow
  <1>3. \A e \in Events : ~Stored(e)' => ~Stored(e) \/ IdOf[e] = message.id
    BY <1>1 DEF Stored, WithId
  <1>4. DuplicatesBounded'
    BY <1>1 DEF CountTyped, CopiesCounted, DuplicatesBounded
  <1> QED
    BY <1>1, <1>2, <1>3, <1>4 DEF CountTyped, CopiesCounted, RoomLeft, AboutToBeMarked

\* A deletion leaves no document of its id.
LEMMA RoomAfterDeletion ==
  ASSUME CountTyped, DeleteLoaded \/ DeleteFromIndex
  PROVE  RoomLeft' /\ DuplicatesBounded'
  <1>1. PICK id : /\ DeleteDocs(id)
                  /\ stage = "deleteDocs" => id = message.id
    BY DEF DeleteLoaded, DeleteFromIndex
  <1>2. /\ UNCHANGED <<events, uncommittedTable, txRows, erasing, opens, failures,
                       loadedUnprocessed>>
        /\ stage \in {"deleteLoaded", "deleteDocs"} /\ stage' \in {"deleteLoaded", "deleteCommit"}
    BY DEF DeleteLoaded, DeleteFromIndex, tables, memory, bounds
  <1>3. \A e \in Events : /\ Copies(e)' <= Copies(e)
                          /\ IdOf[e] = id => Copies(e)' = 0
    BY <1>1 DEF CountTyped, DeleteDocs, IndexType, NoDocs, Copies
  <1>4. \A e \in Events : /\ RoomForCopy(e) => RoomForCopy(e)'
                          /\ Copies(e)' <= opens' + failures'
    BY <1>2, <1>3, RoomKept DEF CountTyped, CopiesCounted, DuplicatesBounded, Copies, ClientType
  <1>5. \A e \in Events : IdOf[e] = id => RoomForCopy(e)'
    BY <1>2, <1>3 DEF RoomForCopy, CountTyped, CopiesCounted, ClientType
  <1>6. \A e \in Events : (Stored(e)' <=> Stored(e)) /\ (HasRow(e)' <=> HasRow(e))
    BY <1>2 DEF Stored, HasRow
  <1>7. DuplicatesBounded'
    BY <1>4 DEF DuplicatesBounded, Copies
  <1>8. \A e \in Events : ~Stored(e)' => RoomForCopy(e)'
    BY <1>1, <1>2, <1>4, <1>5, <1>6 DEF CountTyped, CopiesCounted, RoomLeft
  <1>9. \A e \in Events : HasRow(e)' /\ ~loadedUnprocessed' => RoomForCopy(e)'
    BY <1>2, <1>4, <1>6 DEF CountTyped, CopiesCounted, RoomLeft, AboutToBeMarked
  <1> QED
    BY <1>2, <1>7, <1>8, <1>9 DEF RoomLeft

\* A failure and a restart give every event room for one more document.
LEMMA RoomAfterTrouble ==
  ASSUME CountTyped, StorageError \/ Open
  PROVE  RoomLeft' /\ DuplicatesBounded'
  <1>1. UNCHANGED <<docs, buffer>> /\ opens' + failures' = opens + failures + 1
    BY DEF StorageError, Open, index, CountTyped, ClientType
  <1>2. \A e \in Events : Copies(e)' = Copies(e)
    BY <1>1 DEF Copies
  <1>3. ASSUME NEW e \in Events
        PROVE  RoomForCopy(e)' /\ Copies(e)' <= opens' + failures'
    <2>1. Copies(e) \in Nat /\ opens + failures \in Nat /\ Copies(e) <= opens + failures
      BY DEF CountTyped, CopiesCounted, DuplicatesBounded, IndexType, ClientType, Copies
    <2>2. Copies(e)' = Copies(e)
      BY <1>2
    <2> QED
      BY <1>1, <2>1, <2>2 DEF RoomForCopy
  <1> QED
    BY <1>3 DEF RoomLeft, DuplicatesBounded, Copies

\* A thread that ends takes documents with it and adds none.
LEMMA RoomAfterStop ==
  ASSUME CountTyped, Stop, opens' = opens, failures' >= failures
  PROVE  RoomLeft' /\ DuplicatesBounded'
  <1>1. stage' = "stopped" /\ docs' = docs /\ buffer' = NoDocs
    BY DEF Stop
  <1>2. \A e \in Events : Copies(e)' <= Copies(e)
    BY <1>1 DEF Copies, NoDocs, CountTyped, IndexType
  <1>3. opens' + failures' >= opens + failures
    <2>1. opens \in Nat /\ failures \in Nat /\ opens' \in Nat /\ failures' \in Nat
      BY DEF CountTyped, ClientType
    <2>2. opens' >= opens
      BY <2>1
    <2> QED
      BY <2>1, <2>2, SumsGrow
  <1>4. \A e \in Events : Copies(e)' <= opens' + failures'
    BY <1>2, <1>3, RoomKept DEF CountTyped, CopiesCounted, DuplicatesBounded, Copies
  <1> QED
    BY <1>1, <1>4 DEF RoomLeft, DuplicatesBounded, Copies

\* All other steps: nothing is indexed, stored or marked.
NothingIndexed ==
    /\ UNCHANGED <<events, uncommittedTable, uncommittedEvents, txRows, erasing, docs, buffer,
                   opens, failures>>
    /\ \/ UNCHANGED <<stage, message, loadedUnprocessed>>
       \/ /\ stage \notin {"indexCommit", "markIndexed", "deleteDocs", "stopped"}
          /\ ~loadedUnprocessed' \/ stage' = "loadUncommitted" => ~loadedUnprocessed

LEMMA RoomAfterNothing ==
  ASSUME CountTyped, NothingIndexed
  PROVE  RoomLeft' /\ DuplicatesBounded'
  <1>1. \A e \in Events : /\ RoomForCopy(e)' <=> RoomForCopy(e)
                          /\ Stored(e)' <=> Stored(e)
                          /\ HasRow(e)' <=> HasRow(e)
    BY DEF NothingIndexed, RoomForCopy, Copies, Stored, HasRow
  <1>2. DuplicatesBounded'
    BY DEF NothingIndexed, CountTyped, CopiesCounted, DuplicatesBounded
  <1>3. RoomLeft
    BY DEF CountTyped, CopiesCounted
  <1>4. CASE UNCHANGED <<stage, message, loadedUnprocessed>>
    <2>1. \A e : AboutToBeMarked(e)' <=> AboutToBeMarked(e)
      BY <1>4 DEF AboutToBeMarked, NothingIndexed
    <2> QED
      BY <1>1, <1>2, <1>3, <1>4, <2>1 DEF RoomLeft
  <1>5. CASE /\ stage \notin {"indexCommit", "markIndexed", "deleteDocs", "stopped"}
             /\ ~loadedUnprocessed' \/ stage' = "loadUncommitted" => ~loadedUnprocessed
    BY <1>1, <1>2, <1>3, <1>5 DEF RoomLeft, AboutToBeMarked
  <1> QED
    BY <1>4, <1>5 DEF NothingIndexed

\* Every step is one of the above.
LEMMA CountedSteps ==
  ASSUME [Next]_vars, LoadFirst
  PROVE  \/ LoadUncommittedEvents \/ SaveEvent \/ CommitTransaction \/ WriteIndexCommit
         \/ SaveEventWithNul
         \/ DeleteIndexCommit \/ MarkEventsAsIndexed \/ DeleteRow \/ DeleteLoaded
         \/ DeleteFromIndex \/ StorageError \/ Open
         \/ Stop /\ opens' = opens /\ (failures' = failures \/ failures' = failures + 1)
         \/ NothingIndexed
  <1>1. CASE ClientStep
    BY <1>1 DEF ClientStep, AddEvent, Commit, AddHistoricEvents, DeleteEvent, ClientSends,
                ShutDown, Drop, NothingIndexed, tables, index, memory, handler, bounds
  <1>2. CASE ReceiveEvent \/ ReceiveWrite \/ ReceiveHistoricEvents \/ ReceiveDelete
    BY <1>2 DEF ReceiveEvent, ReceiveWrite, ReceiveHistoricEvents, ReceiveDelete, Receive,
                HandleFrom, LoadNeeded, NothingIndexed, tables, index, memory, handler, bounds
  <1>3. CASE LoadPendingDeletionEvents \/ EndLoad \/ BeginTransaction \/ SkipEvent
    BY <1>3 DEF LoadPendingDeletionEvents, EndLoad, BeginTransaction, SkipEvent, LoadFirst,
                NothingIndexed, tables, index, memory, bounds
  <1>4. CASE MarkEventsAsDeleted \/ DeleteRefused \/ DeleteMark \/ Reply
    BY <1>4 DEF MarkEventsAsDeleted, DeleteRefused, DeleteMark, Reply, NothingIndexed,
                tables, index, memory, bounds
  <1>5. CASE StopWriting \/ WriterPanics \/ Crash
    BY <1>5 DEF StopWriting, WriterPanics, Crash, bounds
  <1>6. CASE UNCHANGED vars
    BY <1>6 DEF vars, NothingIndexed, tables, index, memory, handler, bounds
  <1> QED
    BY <1>1, <1>2, <1>3, <1>4, <1>5, <1>6 DEF Next, WriterStep

LEMMA CopiesCountedNext ==
  ASSUME StoreInv, StoreInv', CopiesCounted, [Next]_vars
  PROVE  CopiesCounted'
  <1>1. TransactionNew' /\ LoadFirst'
    BY TransactionNewNext, LoadFirstNext DEF CopiesCounted, StoreInv
  <1>2. CountTyped
    BY DEF CountTyped, StoreInv, TypeOK
  <1>3. LoadFirst
    BY DEF CopiesCounted
  <1>4. failures \in Nat /\ opens \in Nat
    BY <1>2 DEF CountTyped, ClientType
  <1>5. RoomLeft' /\ DuplicatesBounded'
    <2>1. CASE Stop /\ opens' = opens /\ (failures' = failures \/ failures' = failures + 1)
      BY <1>2, <1>4, <2>1, RoomAfterStop
    <2> QED
      BY <1>2, <1>3, <2>1, CountedSteps, RoomAfterLoad, RoomAfterSave, RoomAfterNul,
         RoomAfterCommit,
         RoomAfterIndexCommit, RoomAfterMark, RoomAfterDeleteRow, RoomAfterDeletion,
         RoomAfterTrouble, RoomAfterNothing
  <1>6. opens' > 0
    <2>1. opens' = opens \/ opens' = opens + 1
      BY <1>3, CountedSteps
      DEF LoadUncommittedEvents, SaveEvent, SaveEventWithNul, CommitTransaction,
          WriteIndexCommit, DeleteIndexCommit, MarkEventsAsIndexed, DeleteRow, DeleteLoaded, DeleteFromIndex,
          StorageError, Open, NothingIndexed, bounds
    <2> QED
      BY <1>4, <2>1 DEF CopiesCounted
  <1> QED
    BY <1>1, <1>5, <1>6 DEF CopiesCounted

LEMMA CopiesCountedInit == Init => CopiesCounted
  <1> SUFFICES ASSUME Init PROVE CopiesCounted
    OBVIOUS
  <1>1. \A e \in Events : Copies(e) = 0 /\ RoomForCopy(e)
    BY DEF Init, NoDocs, Copies, RoomForCopy
  <1>2. DuplicatesBounded /\ RoomLeft
    BY <1>1 DEF Init, DuplicatesBounded, RoomLeft, Copies
  <1>3. TransactionNew /\ LoadFirst /\ opens > 0
    BY DEF Init, TransactionNew, LoadFirst
  <1> QED
    BY <1>2, <1>3 DEF CopiesCounted

\* What the writer's sessions rely on holds together: the tables and the index agree,
\* the promises to later sessions are recorded, and what a session may index again has
\* room for it.
THEOREM WriterInvariant == Spec => []WriterInv
  <1>1. StoreInv /\ CopiesCounted /\ [Next]_vars => CopiesCounted'
    BY CopiesCountedNext, StoreInvNext
  <1>2. Inv => StoreInv
    BY DEF Inv
  <1>3. Spec => []CopiesCounted
    BY Invariance, CopiesCountedInit, <1>1, <1>2, PTL DEF Spec
  <1>4. Inv /\ (BatchStored /\ AckedEventsStored) /\ CopiesCounted => WriterInv
    BY DEF Inv, WriterInv
  <1> QED
    BY Invariance, BatchInvariant, <1>3, <1>4, PTL

\* No event has more documents than sessions and failures account for, wherever the
\* process is killed: a load of unprocessed events does not index again what the same
\* session has indexed.
THEOREM CopiesStayBounded == Spec => []DuplicatesBounded
  <1>1. WriterInv => DuplicatesBounded
    BY DEF WriterInv, CopiesCounted
  <1> QED
    BY WriterInvariant, <1>1, PTL

-----------------------------------------------------------------------------
(* The measure behind HandlersEnd.                                          *)

Handling == stage \notin {"idle", "stopped"}

\* The events that the write of the message is going to drain.
ToWrite == IF message.type = "Write" THEN Len(queue) ELSE Len(message.page.events)

\* How far a handler is from its end: a step for every stage that is left, for
\* every pending deletion that it loads and for every event that it writes.
StepsLeft ==
    CASE stage = "loadUncommitted" -> ToWrite + Cardinality(pendingTable) + 10
      [] stage = "loadPending" -> ToWrite + Cardinality(pendingTable) + 9
      [] stage = "deleteLoaded" -> ToWrite + Cardinality(deleting) + 8
      [] stage = "begin" -> ToWrite + 7
      [] stage = "save" -> Len(batch) + 6
      [] stage \in {"deleteRow", "indexCommit"} -> 5
      [] stage \in {"deleteDocs", "markIndexed"} -> 4
      [] stage \in {"deleteCommit", "markDeleted"} -> 3
      [] stage = "deleteMark" -> 2
      [] stage = "reply" -> 1
      [] OTHER -> 0

\* While a handler runs nothing but its own steps, failures included, touches the
\* writer, and every one of them brings its end nearer, by a natural number.
HandlerNearsEnd ==
    [][Handling
       => \/ UNCHANGED <<tables, index, memory, handler>>
          \/ StepsLeft' \in Nat /\ StepsLeft' < StepsLeft]_vars

\* The deletions that are pending, and those still to be loaded, are finitely many.
PendingFinite == IsFiniteSet(pendingTable) /\ IsFiniteSet(deleting)

LEMMA PendingStaysFinite == ASSUME PendingFinite, [Next]_vars PROVE PendingFinite'
  <1> USE DEF PendingFinite
  <1>1. CASE DeleteRow
    BY <1>1, FS_AddElement DEF DeleteRow, DeletionRecorded
  <1>2. CASE DeleteLoaded
    BY <1>2, FS_RemoveElement DEF DeleteLoaded, tables
  <1>3. CASE LoadPendingDeletionEvents
    BY <1>3 DEF LoadPendingDeletionEvents, tables
  <1>4. CASE MarkEventsAsDeleted \/ DeleteMark
    <2>1. pendingTable' \subseteq pendingTable /\ deleting' = deleting
      BY <1>4 DEF MarkEventsAsDeleted, DeleteMark, PendingNotDeleted
    <2> QED
      BY <2>1, FS_Subset
  <1>5. CASE pendingTable' = pendingTable /\ (deleting' = deleting \/ deleting' = {})
    BY <1>5, FS_EmptySet
  <1> QED
    BY <1>1, <1>2, <1>3, <1>4, <1>5
    DEF Next, ClientStep, WriterStep, vars, AddEvent, Commit, AddHistoricEvents,
        DeleteEvent, ClientSends, ShutDown, Drop, ReceiveEvent, ReceiveWrite,
        ReceiveHistoricEvents, ReceiveDelete, Receive, HandleFrom, StopWriting, Stop,
        LoadUncommittedEvents, EndLoad, BeginTransaction, SaveEvent, SaveEventWithNul,
        SkipEvent, CommitTransaction, WriteIndexCommit, MarkEventsAsIndexed, DeleteRefused,
        DeleteFromIndex, DeleteIndexCommit, Reply, StorageError, WriterPanics, Crash,
        Open, tables, handler

\* What the measure adds up are natural numbers.
LEMMA SizesCounted ==
  ASSUME StoreInv, PendingFinite
  PROVE  /\ Cardinality(pendingTable) \in Nat /\ Cardinality(deleting) \in Nat
         /\ Len(batch) \in Nat
         /\ stage \in {"loadUncommitted", "loadPending", "deleteLoaded", "begin"}
            => ToWrite \in Nat
  <1>1. Cardinality(pendingTable) \in Nat /\ Cardinality(deleting) \in Nat
    BY FS_CardinalityType DEF PendingFinite
  <1>2. Len(batch) \in Nat /\ Len(queue) \in Nat
    BY DEF StoreInv, TypeOK, HandlerType, MemoryType
  <1>3. ASSUME message \in WriteMessage PROVE ToWrite \in Nat
    BY <1>2, <1>3 DEF ToWrite, WriteMessage
  <1>4. ASSUME message \in HistoricMessage PROVE ToWrite \in Nat
    <2>1. message.type = "HistoricEvents" /\ message.page.events \in Seq(Events)
      BY <1>4, PageAssumption DEF HistoricMessage, PageType
    <2> QED
      BY <2>1 DEF ToWrite
  <1> QED
    BY <1>1, <1>2, <1>3, <1>4 DEF StoreInv, MessageFitsStage

LEMMA NextNearsEnd ==
  ASSUME StoreInv, PendingFinite, Handling, Next
  PROVE  \/ UNCHANGED <<tables, index, memory, handler>>
         \/ StepsLeft' \in Nat /\ StepsLeft' < StepsLeft
  <1>1. /\ Cardinality(pendingTable) \in Nat /\ Cardinality(deleting) \in Nat
        /\ Len(batch) \in Nat
        /\ stage \in {"loadUncommitted", "loadPending", "deleteLoaded", "begin"}
           => ToWrite \in Nat
    BY SizesCounted
  <1>2. CASE ClientStep
    BY <1>2 DEF ClientStep, AddEvent, Commit, AddHistoricEvents, DeleteEvent, ClientSends,
                ShutDown, Drop
  <1>3. CASE LoadUncommittedEvents
    <2>1. ToWrite' = ToWrite /\ pendingTable' = pendingTable
      BY <1>3 DEF LoadUncommittedEvents, ToWrite, tables
    <2> QED
      BY <1>1, <1>3, <2>1 DEF LoadUncommittedEvents, StepsLeft
  <1>4. CASE LoadPendingDeletionEvents
    <2>1. ToWrite' = ToWrite /\ deleting' = pendingTable
      BY <1>4 DEF LoadPendingDeletionEvents, ToWrite, memory
    <2> QED
      BY <1>1, <1>4, <2>1 DEF LoadPendingDeletionEvents, StepsLeft
  <1>5. CASE DeleteLoaded
    <2>1. ToWrite' = ToWrite /\ stage = "deleteLoaded" /\ stage' = "deleteLoaded"
      BY <1>5 DEF DeleteLoaded, ToWrite, memory
    <2>2. PICK id \in deleting : deleting' = deleting \ {id}
      BY <1>5 DEF DeleteLoaded
    <2>3. Cardinality(deleting') = Cardinality(deleting) - 1
      BY <2>2, FS_RemoveElement DEF PendingFinite
    <2>4. Cardinality(deleting') \in Nat
      BY <2>2, FS_RemoveElement, FS_CardinalityType DEF PendingFinite
    <2> QED
      BY <1>1, <2>1, <2>3, <2>4 DEF StepsLeft
  <1>6. CASE EndLoad
    <2>1. ToWrite' = ToWrite
      BY <1>6 DEF EndLoad, ToWrite
    <2> QED
      BY <1>1, <1>6, <2>1 DEF EndLoad, StepsLeft
  <1>7. CASE BeginTransaction
    <2>1. Len(batch') = ToWrite /\ stage = "begin" /\ stage' = "save"
      BY <1>7 DEF BeginTransaction, ToWrite
    <2> QED
      BY <1>1, <2>1 DEF StepsLeft
  <1>8. CASE SaveEvent \/ SaveEventWithNul \/ SkipEvent
    <2>1. batch \in Seq(Events) /\ batch # <<>> /\ batch' = Tail(batch)
      BY <1>8 DEF SaveEvent, SaveEventWithNul, SkipEvent, StoreInv, TypeOK, HandlerType
    <2>2. stage = "save" /\ stage' = "save"
      BY <1>8 DEF SaveEvent, SaveEventWithNul, SkipEvent
    <2>3. Len(batch') \in Nat /\ Len(batch') < Len(batch)
      BY <2>1
    <2> QED
      BY <1>1, <2>2, <2>3 DEF StepsLeft
  <1>9. CASE CommitTransaction
    BY <1>1, <1>9 DEF CommitTransaction, StepsLeft
  <1>10. CASE WriteIndexCommit \/ MarkEventsAsIndexed \/ MarkEventsAsDeleted
    BY <1>10 DEF WriteIndexCommit, MarkEventsAsIndexed, MarkEventsAsDeleted, StepsLeft
  <1>11. CASE DeleteRow \/ DeleteRefused \/ DeleteFromIndex \/ DeleteIndexCommit \/ DeleteMark
    <2>1. \/ stage = "deleteRow" /\ stage' \in {"deleteDocs", "reply"}
          \/ stage = "deleteDocs" /\ stage' = "deleteCommit"
          \/ stage = "deleteCommit" /\ stage' \in {"deleteMark", "reply"}
          \/ stage = "deleteMark" /\ stage' = "reply"
      BY <1>11 DEF DeleteRow, DeleteRefused, DeleteFromIndex, DeleteIndexCommit, DeleteMark
    <2> QED
      BY <2>1 DEF StepsLeft
  <1>12. CASE Reply
    BY <1>12 DEF Reply, StepsLeft
  <1>13. CASE StorageError
    <2>1. stage \in Fallible /\ stage' = "reply"
      BY <1>13 DEF StorageError
    <2>2. StepsLeft \in Nat /\ StepsLeft > 1
      BY <1>1, <2>1 DEF StepsLeft, Fallible
    <2> QED
      BY <2>1, <2>2 DEF StepsLeft
  <1>14. CASE WriterPanics \/ Crash
    <2>1. stage' = "stopped"
      BY <1>14 DEF WriterPanics, Crash, Stop
    <2>2. StepsLeft \in Nat /\ StepsLeft > 0
      BY <1>1 DEF StepsLeft, Handling, StoreInv, TypeOK, HandlerType, Stage
    <2> QED
      BY <2>1, <2>2 DEF StepsLeft
  <1> QED
    BY <1>2, <1>3, <1>4, <1>5, <1>6, <1>7, <1>8, <1>9, <1>10, <1>11, <1>12, <1>13, <1>14
    DEF Next, WriterStep, ReceiveEvent, ReceiveWrite, ReceiveHistoricEvents, ReceiveDelete,
        Receive, StopWriting, Open, Handling

\* Every handler runs down, however many events and deletions it has in hand and
\* whatever fails: no step of the writer takes it back or leaves it where it is, and
\* clients, who may send at any time, do not keep it from its end.
THEOREM HandlersRunDown == Spec => HandlerNearsEnd
  <1>1. Init => PendingFinite
    BY FS_EmptySet DEF Init, PendingFinite
  <1>2. PendingFinite /\ [Next]_vars => PendingFinite'
    BY PendingStaysFinite
  <1>3. StoreInv /\ PendingFinite /\ [Next]_vars
        => [Handling
            => \/ UNCHANGED <<tables, index, memory, handler>>
               \/ StepsLeft' \in Nat /\ StepsLeft' < StepsLeft]_vars
    BY NextNearsEnd
  <1> QED
    BY <1>1, <1>2, <1>3, StoreInvariant, PTL DEF Spec, HandlerNearsEnd
=============================================================================
