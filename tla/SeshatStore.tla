---------------------------- MODULE SeshatStore ----------------------------
(***************************************************************************)
(* The writer thread of a Seshat database and everything it keeps          *)
(* consistent: the SQLite tables, the tantivy index and its own memory.    *)
(*                                                                         *)
(* Client threads send ThreadMessages over an unbounded mpsc channel; one  *)
(* thread (Database::spawn_writer) handles them in order.  A handler is    *)
(* split at the points where something becomes durable - a SQLite commit, *)
(* an index commit - because the process may be killed, or a storage call  *)
(* may fail, between any two of them.                                      *)
(***************************************************************************)
EXTENDS Integers, Sequences, FiniteSets

CONSTANTS
    Events,        \* events, told apart by (event_id, room_id): UNIQUE in the table
    EventIds,      \* Matrix event ids; two events of two rooms may share one
    IdOf,          \* the event id of every event
    Checkpoints,   \* crawler checkpoints
    Pages,         \* what a crawler may hand to add_historic_events
    CommitRate,    \* COMMIT_RATE
    NoMessage,     \* the writer thread holds no message
    \* Bounds of the model, none of them in the code:
    MaxChannel,    \* messages in flight
    MaxQueued,     \* events queued and not yet written
    MaxOpens,      \* times the database is opened
    MaxCrashes,    \* times the process is killed
    MaxFailures    \* failing SQLite and tantivy calls

\* A page may come without a new or an old checkpoint: these are sets of at
\* most one checkpoint, the Options of add_historic_events.
PageType == [events : Seq(Events), new : SUBSET Checkpoints, old : SUBSET Checkpoints]

ASSUME IdAssumption == IdOf \in [Events -> EventIds]
ASSUME PageAssumption == Pages \subseteq PageType
ASSUME RateAssumption == CommitRate \in Nat \ {0}
ASSUME BoundAssumption == /\ MaxChannel \in Nat
                          /\ MaxQueued \in Nat
                          /\ MaxOpens \in Nat
                          /\ MaxCrashes \in Nat
                          /\ MaxFailures \in Nat

VARIABLES
    \* SQLite, durable
    events,             \* table events
    uncommittedTable,   \* table uncommitted_events: its row ids and what they point to
    pendingTable,       \* table pending_deletion_events
    checkpoints,        \* table crawlercheckpoints
    \* tantivy
    docs,               \* committed documents of every event, durable
    buffer,             \* documents added and not committed
    addedEvents,        \* index::Writer::added_events
    \* database::Writer and the locals of spawn_writer
    queue,              \* Writer::events
    uncommittedEvents,  \* Writer::uncommitted_events, row ids
    pendingEvents,      \* Writer::pending_deletion_events
    loadedUnprocessed,  \* loaded_unprocessed
    \* the message being handled
    message,
    stage,              \* the next step of its handler
    batch,              \* events write_events_helper has still to save
    txRows,             \* uncommitted_events rows inserted by the open transaction
    erasing,            \* events whose rows save_event deleted in it
    deleting,           \* pending ids load_unprocessed_events has still to delete
    result,             \* what will be sent back
    \* the client's side
    channel,
    handle,             \* the Database object: "open", or "dropped" once consumed
    \* counters of the bounds
    opens,
    crashes,
    failures,
    \* history, read by properties only
    batchEvents,        \* the events the message asked to write
    acked,              \* events written by an acknowledged message and not deleted since
    readded,            \* stored events saved while a deletion of their id was pending
    orphaned,           \* events whose documents a failed save may leave behind
    erased,             \* events whose rows save_event deleted, and not saved since
    loadFailed          \* load_unprocessed_events failed in this session

tables == <<events, uncommittedTable, pendingTable, checkpoints>>
index == <<docs, buffer, addedEvents>>
memory == <<queue, uncommittedEvents, pendingEvents, loadedUnprocessed>>
handler == <<message, stage, batch, txRows, erasing, deleting, result, batchEvents>>
client == <<channel, handle>>
bounds == <<opens, crashes, failures>>
history == <<acked, readded, orphaned, erased, loadFailed>>

vars == <<tables, index, memory, handler, client, bounds, history>>

-----------------------------------------------------------------------------
Row == [id : Nat, event : Events]

EventMessage == [type : {"Event"}, event : Events]
WriteMessage == [type : {"Write"}, force : BOOLEAN]
HistoricMessage == [type : {"HistoricEvents"}, page : Pages]
DeleteMessage == [type : {"Delete"}, id : EventIds]
ShutDownMessage == [type : {"ShutDown"}]

Message == EventMessage \cup WriteMessage \cup HistoricMessage \cup DeleteMessage
           \cup ShutDownMessage

Stage == {"idle", "loadUncommitted", "loadPending", "deleteLoaded", "begin",
          "save", "indexCommit", "markIndexed", "markDeleted", "deleteRow",
          "deleteDocs", "deleteCommit", "deleteMark", "reply", "stopped"}

\* "known": every historic event was already stored; "commitNeeded" and
\* "deleted": the two booleans delete_event answers.
Result == {"none", "ok", "known", "commitNeeded", "deleted", "err"}

\* Mutant: event_in_store without the room.
StoredAnyRoom(e) ==
    \E f \in (events \ erasing) \cup {r.event : r \in txRows} : IdOf[f] = IdOf[e]

\* event_in_store, as the open transaction sees the table.
Stored(e) == e \in (events \ erasing) \cup {r.event : r \in txRows}

WithId(id) == {e \in Events : IdOf[e] = id}

HasRow(e) == \E r \in uncommittedTable : r.event = e

Forced == IF message.type = "Write" THEN message.force ELSE TRUE

NoDocs == [e \in Events |-> 0]

Elements(s) == {s[i] : i \in 1..Len(s)}

-----------------------------------------------------------------------------
(* The tantivy writer (index/mod.rs).                                      *)

\* Mutant: add_event first deletes what the index has of the event.
AddDocsReplacing(S) ==
    /\ docs' = [e \in Events |-> IF e \in S THEN 0 ELSE docs[e]]
    /\ buffer' = [e \in Events |-> IF e \in S THEN 1 ELSE buffer[e]]
    /\ addedEvents' = addedEvents + Cardinality(S)

\* Writer::add_event: one more buffered document for every event of S.
AddDocs(S) ==
    /\ buffer' = [e \in Events |-> IF e \in S THEN buffer[e] + 1 ELSE buffer[e]]
    /\ addedEvents' = addedEvents + Cardinality(S)
    /\ UNCHANGED docs

\* IndexWriter::commit of tantivy.
CommitIndex ==
    /\ docs' = [e \in Events |-> docs[e] + buffer[e]]
    /\ buffer' = NoDocs

\* Writer::delete_event: deletes the documents of an id, committed or
\* buffered, and commits everything, without touching added_events.
DeleteDocs(id) ==
    /\ docs' = [e \in Events |-> IF IdOf[e] = id THEN 0 ELSE docs[e] + buffer[e]]
    /\ buffer' = NoDocs
    /\ UNCHANGED addedEvents

\* The condition of Writer::commit_helper; elapsed says that COMMIT_TIME has
\* passed since the last commit.
CommitDue(force, elapsed) ==
    /\ addedEvents > 0
    /\ force \/ addedEvents >= CommitRate \/ elapsed

\* Writer::commit_helper.
CommitHelper(force, elapsed) ==
    IF CommitDue(force, elapsed)
    THEN CommitIndex /\ addedEvents' = 0
    ELSE UNCHANGED index

-----------------------------------------------------------------------------
(* Clients.                                                                *)

Send(m) ==
    /\ handle = "open" /\ stage # "stopped"
    /\ Len(channel) < MaxChannel
    /\ channel' = Append(channel, m)

\* add_event, commit and force_commit (blocking or not), delete_event and
\* add_historic_events only send a message.
ClientSends(m) ==
    /\ Send(m)
    /\ UNCHANGED <<tables, index, memory, handler, handle, bounds, history>>

AddEvent ==
    /\ Len(queue) + Len(channel) < MaxQueued
    /\ \E e \in Events : ClientSends([type |-> "Event", event |-> e])

Commit == \E force \in BOOLEAN : ClientSends([type |-> "Write", force |-> force])

AddHistoricEvents ==
    \E p \in Pages : ClientSends([type |-> "HistoricEvents", page |-> p])

DeleteEvent == \E id \in EventIds : ClientSends([type |-> "Delete", id |-> id])

\* shutdown consumes the Database.
ShutDown ==
    /\ Send([type |-> "ShutDown"])
    /\ handle' = "dropped"
    /\ UNCHANGED <<tables, index, memory, handler, bounds, history>>

\* Dropping the Database closes the channel behind the messages in it.
Drop ==
    /\ handle = "open"
    /\ handle' = "dropped"
    /\ UNCHANGED <<tables, index, memory, handler, channel, bounds, history>>

-----------------------------------------------------------------------------
(* The writer thread takes a message (the loop of spawn_writer).           *)

Receive(type) ==
    /\ stage = "idle"
    /\ channel # <<>> /\ Head(channel).type = type
    /\ channel' = Tail(channel)
    /\ UNCHANGED <<handle, bounds>>

\* The received message is handled from stage s on.
HandleFrom(s) ==
    /\ message' = Head(channel)
    /\ stage' = s
    /\ UNCHANGED <<batch, txRows, erasing, deleting, result, batchEvents>>

ReceiveEvent ==
    /\ Receive("Event")
    /\ queue' = Append(queue, Head(channel).event)
    /\ UNCHANGED <<tables, index, uncommittedEvents, pendingEvents, loadedUnprocessed,
                   handler, history>>

\* Mutant: loaded_unprocessed is not looked at.
LoadAlways == TRUE

LoadNeeded == ~loadedUnprocessed

\* loaded_unprocessed is set whether loading succeeds or not.
ReceiveWrite ==
    /\ Receive("Write")
    /\ HandleFrom(IF LoadNeeded THEN "loadUncommitted" ELSE "begin")
    /\ loadedUnprocessed' = TRUE
    /\ UNCHANGED <<tables, index, queue, uncommittedEvents, pendingEvents, history>>

ReceiveHistoricEvents ==
    /\ Receive("HistoricEvents")
    /\ HandleFrom("begin")
    /\ UNCHANGED <<tables, index, memory, history>>

\* Mutant: deletions wait for a first Write to load the pending ones.
ReceiveDeleteLoaded ==
    /\ Receive("Delete")
    /\ loadedUnprocessed
    /\ HandleFrom("deleteRow")
    /\ UNCHANGED <<tables, index, memory, history>>

ReceiveDelete ==
    /\ Receive("Delete")
    /\ HandleFrom("deleteRow")
    /\ UNCHANGED <<tables, index, memory, history>>

\* The thread is gone: its memory, what tantivy buffered and what was still
\* in the channel with it.
Stop ==
    /\ stage' = "stopped"
    /\ message' = NoMessage
    /\ batch' = <<>> /\ txRows' = {} /\ erasing' = {} /\ deleting' = {} /\ result' = "none"
    /\ batchEvents' = {}
    /\ buffer' = NoDocs /\ addedEvents' = 0
    /\ queue' = <<>> /\ uncommittedEvents' = {} /\ pendingEvents' = {}
    /\ loadedUnprocessed' = FALSE
    /\ channel' = <<>>
    /\ handle' = "dropped"
    /\ UNCHANGED <<tables, docs, history>>

\* ThreadMessage::ShutDown, and the end of the loop once the channel is
\* closed and empty: neither writes the queue nor commits the index.
StopWriting ==
    /\ stage = "idle"
    /\ \/ channel # <<>> /\ Head(channel).type = "ShutDown"
       \/ channel = <<>> /\ handle = "dropped"
    /\ Stop
    /\ UNCHANGED bounds

-----------------------------------------------------------------------------
(* Writer::load_unprocessed_events, on the first Write of a session.       *)

LoadUncommittedEvents ==
    /\ stage = "loadUncommitted"
    /\ AddDocs({r.event : r \in uncommittedTable})
    /\ uncommittedEvents' = uncommittedEvents \cup {r.id : r \in uncommittedTable}
    /\ stage' = "loadPending"
    /\ UNCHANGED <<tables, queue, pendingEvents, loadedUnprocessed, message, batch,
                   txRows, erasing, deleting, result, batchEvents, client, bounds, history>>

LoadPendingDeletionEvents ==
    /\ stage = "loadPending"
    /\ deleting' = pendingTable
    /\ stage' = "deleteLoaded"
    /\ UNCHANGED <<tables, index, memory, message, batch, txRows, erasing, result,
                   batchEvents, client, bounds, history>>

\* Every delete_event of the loop commits the index.
DeleteLoaded ==
    /\ stage = "deleteLoaded"
    /\ \E id \in deleting :
        /\ DeleteDocs(id)
        /\ deleting' = deleting \ {id}
        /\ orphaned' = orphaned \ WithId(id)
    /\ UNCHANGED <<tables, memory, message, stage, batch, txRows, erasing, result,
                   batchEvents, client, bounds, acked, readded, erased, loadFailed>>

EndLoad ==
    /\ stage = "deleteLoaded" /\ deleting = {}
    /\ pendingEvents' = pendingEvents \cup pendingTable
    /\ stage' = "begin"
    /\ UNCHANGED <<tables, index, queue, uncommittedEvents, loadedUnprocessed, message,
                   batch, txRows, erasing, deleting, result, batchEvents, client, bounds, history>>

-----------------------------------------------------------------------------
(* Database::write_events.                                                 *)

\* The transaction is open and the queue drained.
BeginTransaction ==
    /\ stage = "begin"
    /\ IF message.type = "Write"
       THEN batch' = queue /\ queue' = <<>>
       ELSE batch' = message.page.events /\ UNCHANGED queue
    /\ batchEvents' = Elements(batch')
    /\ stage' = "save"
    /\ UNCHANGED <<tables, index, uncommittedEvents, pendingEvents, loadedUnprocessed,
                   message, txRows, erasing, deleting, result, client, bounds, history>>

\* An INTEGER PRIMARY KEY without AUTOINCREMENT: one more than the largest
\* id in the table, whatever ids were used before.
NextRowId(n, rows) ==
    /\ n \in {1} \cup {r.id + 1 : r \in rows}
    /\ \A r \in rows : r.id < n

\* Mutant: foreign_keys is off.
ForeignKeyIgnored(id) == FALSE

\* A row of uncommitted_events refers to an event of the id.
ForeignKeyHeld(id) == \E r \in uncommittedTable : IdOf[r.event] = id

\* A new row of uncommitted_events.
InsertRow(e) ==
    \E n \in {1} \cup {r.id + 1 : r \in uncommittedTable \cup txRows} :
        /\ NextRowId(n, uncommittedTable \cup txRows)
        /\ txRows' = txRows \cup {[id |-> n, event |-> e]}

\* One round of write_events_helper for an event not yet stored.
SaveEvent ==
    /\ stage = "save" /\ batch # <<>>
    /\ ~Stored(Head(batch))
    /\ InsertRow(Head(batch))
    /\ AddDocs({Head(batch)})
    /\ batch' = Tail(batch)
    /\ UNCHANGED <<tables, memory, message, stage, erasing, deleting, result, batchEvents,
                   client, bounds, history>>

\* ... when SQLite does not take a text because of a NUL in it: delete_event_by_id
\* deletes the id in every room, records no deletion and leaves the documents; then
\* the event is saved without the NUL.  If a row of uncommitted_events refers to the
\* id, or the NUL is in a text that is not cleaned, it is a StorageError.
SaveEventWithNul ==
    /\ stage = "save" /\ batch # <<>>
    /\ failures < MaxFailures
    /\ failures' = failures + 1
    /\ LET e == Head(batch)
           sameId == events \cap WithId(IdOf[e])
       IN /\ ~Stored(e)
          /\ ~ForeignKeyHeld(IdOf[e])
          /\ \A r \in txRows : IdOf[r.event] # IdOf[e]
          /\ erasing' = erasing \cup sameId
          /\ orphaned' = orphaned \cup sameId
          /\ InsertRow(e)
          /\ AddDocs({e})
    /\ batch' = Tail(batch)
    /\ UNCHANGED <<tables, memory, message, stage, deleting, result, batchEvents,
                   client, opens, crashes, acked, readded, erased, loadFailed>>

\* ... and for an event that is: save_event returns None.
SkipEvent ==
    /\ stage = "save" /\ batch # <<>>
    /\ Stored(Head(batch))
    /\ batch' = Tail(batch)
    /\ UNCHANGED <<tables, index, memory, message, stage, txRows, erasing, deleting, result,
                   batchEvents, client, bounds, history>>

\* replace_crawler_checkpoint.
ReplacedCheckpoints ==
    IF message.type = "HistoricEvents"
    THEN (checkpoints \cup message.page.new) \ message.page.old
    ELSE checkpoints

\* What write_historic_events answers: true if there were events and all of
\* them were stored already.
WriteResult ==
    IF message.type = "HistoricEvents" /\ message.page.events # <<>> /\ txRows = {}
    THEN "known"
    ELSE "ok"

\* Mutant: the transaction is committed before all events are saved.
AnySaved == TRUE

\* write_events_helper has drained the events.
AllSaved == batch = <<>>

\* The commit of the transaction, and uncommitted_events.extend.
CommitTransaction ==
    /\ stage = "save" /\ AllSaved
    /\ LET saved == {r.event : r \in txRows}
       IN /\ events' = (events \ erasing) \cup saved
          /\ readded' = (readded \ erasing) \cup {e \in saved : IdOf[e] \in pendingTable}
          /\ erased' = (erased \cup erasing) \ saved
    /\ uncommittedTable' = uncommittedTable \cup txRows
    /\ checkpoints' = ReplacedCheckpoints
    /\ uncommittedEvents' = uncommittedEvents \cup {r.id : r \in txRows}
    /\ txRows' = {} /\ erasing' = {}
    /\ result' = WriteResult
    /\ stage' = "indexCommit"
    /\ UNCHANGED <<pendingTable, index, queue, pendingEvents, loadedUnprocessed, message,
                   batch, deleting, batchEvents, client, bounds, acked, orphaned, loadFailed>>

\* Mutant: the rate limit is taken for a commit.
CommittedAlways(elapsed) == TRUE

\* Mutant: force_commit answers what commit_helper says.
CommittedHonestly(elapsed) == CommitDue(Forced, elapsed)

\* The committed of write_events: force_commit counts as committed even when
\* there was nothing to commit.
Committed(elapsed) == Forced \/ CommitDue(FALSE, elapsed)

WriteIndexCommit ==
    /\ stage = "indexCommit"
    /\ \E elapsed \in BOOLEAN :
        /\ CommitHelper(Forced, elapsed)
        /\ stage' = IF Committed(elapsed) THEN "markIndexed" ELSE "reply"
    /\ UNCHANGED <<tables, memory, message, batch, txRows, erasing, deleting, result, batchEvents,
                   client, bounds, history>>

\* Mutant: every row is deleted, not only those of the list.
NoRows == {}

RowsNotIndexed == {r \in uncommittedTable : r.id \notin uncommittedEvents}

MarkEventsAsIndexed ==
    /\ stage = "markIndexed"
    /\ uncommittedTable' = RowsNotIndexed
    /\ uncommittedEvents' = {}
    /\ stage' = "markDeleted"
    /\ UNCHANGED <<events, pendingTable, checkpoints, index, queue, pendingEvents,
                   loadedUnprocessed, message, batch, txRows, erasing, deleting, result,
                   batchEvents, client, bounds, history>>

\* Mutant: the list is cleared, the table is not.
PendingKept == pendingTable

\* Database::mark_events_as_deleted: the rows of the list go.
PendingNotDeleted == pendingTable \ pendingEvents

MarkEventsAsDeleted ==
    /\ stage = "markDeleted"
    /\ pendingTable' = PendingNotDeleted
    /\ pendingEvents' = {}
    /\ stage' = "reply"
    /\ UNCHANGED <<events, uncommittedTable, checkpoints, index, queue,
                   uncommittedEvents, loadedUnprocessed, message, batch, txRows, erasing,
                   deleting, result, batchEvents, client, bounds, history>>

-----------------------------------------------------------------------------
(* Database::delete_event_helper.                                          *)

\* Mutant: the deletion is not recorded.
DeletionUnrecorded(id) == pendingTable

\* INSERT OR IGNORE INTO pending_deletion_events.
DeletionRecorded(id) == pendingTable \cup {id}

\* The first transaction.
DeleteRow ==
    /\ stage = "deleteRow"
    /\ ~ForeignKeyHeld(message.id)
    /\ events' = events \ WithId(message.id)
    /\ pendingTable' = DeletionRecorded(message.id)
    /\ acked' = acked \ WithId(message.id)
    /\ readded' = readded \ WithId(message.id)
    /\ erased' = erased \ WithId(message.id)
    /\ stage' = "deleteDocs"
    /\ UNCHANGED <<uncommittedTable, checkpoints, index, memory, message, batch, txRows, erasing,
                   deleting, result, batchEvents, client, bounds, orphaned, loadFailed>>

\* Mutant: a refused deletion is tried again at once, not answered.
DeleteRefusedRetried ==
    /\ stage = "deleteRow"
    /\ ForeignKeyHeld(message.id)
    /\ UNCHANGED vars

\* foreign_keys is on: SQLite refuses the statement, the transaction is
\* rolled back.
DeleteRefused ==
    /\ stage = "deleteRow"
    /\ ForeignKeyHeld(message.id)
    /\ result' = "err"
    /\ stage' = "reply"
    /\ UNCHANGED <<tables, index, memory, message, batch, txRows, erasing, deleting, batchEvents,
                   client, bounds, history>>

DeleteFromIndex ==
    /\ stage = "deleteDocs"
    /\ DeleteDocs(message.id)
    /\ pendingEvents' = pendingEvents \cup {message.id}
    /\ orphaned' = orphaned \ WithId(message.id)
    /\ stage' = "deleteCommit"
    /\ UNCHANGED <<tables, queue, uncommittedEvents, loadedUnprocessed, message, batch,
                   txRows, erasing, deleting, result, batchEvents, client, bounds, acked,
                   readded, erased, loadFailed>>

\* The rate limited commit: when it happens only the deletions are marked,
\* although added_events is reset too.
DeleteIndexCommit ==
    /\ stage = "deleteCommit"
    /\ \E elapsed \in BOOLEAN :
        /\ CommitHelper(FALSE, elapsed)
        /\ IF CommitDue(FALSE, elapsed)
           THEN stage' = "deleteMark" /\ UNCHANGED result
           ELSE stage' = "reply" /\ result' = "commitNeeded"
    /\ UNCHANGED <<tables, memory, message, batch, txRows, erasing, deleting, batchEvents, client,
                   bounds, history>>

DeleteMark ==
    /\ stage = "deleteMark"
    /\ pendingTable' = PendingNotDeleted
    /\ pendingEvents' = {}
    /\ result' = "deleted"
    /\ stage' = "reply"
    /\ UNCHANGED <<events, uncommittedTable, checkpoints, index, queue,
                   uncommittedEvents, loadedUnprocessed, message, batch, txRows, erasing,
                   deleting, batchEvents, client, bounds, history>>

-----------------------------------------------------------------------------
\* sender.send: the handler is over.
Reply ==
    /\ stage = "reply"
    /\ acked' = IF result # "err" THEN acked \cup batchEvents ELSE acked
    /\ stage' = "idle"
    /\ message' = NoMessage
    /\ result' = "none"
    /\ batchEvents' = {}
    /\ UNCHANGED <<tables, index, memory, batch, txRows, erasing, deleting, client, bounds,
                   readded, orphaned, erased, loadFailed>>

(***************************************************************************)
(* A SQLite or tantivy call returns an error and `?` leaves the handler.   *)
(* An open transaction is rolled back and the rest of the drained events   *)
(* is dropped, but the documents already handed to tantivy stay.  Before   *)
(* the transaction is open the queue is not drained yet.                   *)
(***************************************************************************)
Fallible == {"loadUncommitted", "loadPending", "begin", "save", "indexCommit",
             "markIndexed", "markDeleted", "deleteRow", "deleteCommit", "deleteMark"}

StorageError ==
    /\ stage \in Fallible
    /\ failures < MaxFailures
    /\ failures' = failures + 1
    /\ batch' = <<>>
    /\ txRows' = {} /\ erasing' = {}
    /\ orphaned' = orphaned \cup {r.event : r \in txRows}
    /\ loadFailed' = (loadFailed \/ stage \in {"loadUncommitted", "loadPending"})
    /\ result' = "err"
    /\ stage' = "reply"
    /\ UNCHANGED <<tables, index, memory, message, deleting, batchEvents, client, opens,
                   crashes, acked, readded, erased>>

\* The calls whose error is unwrapped: the commit of the deleting transaction
\* and tantivy's commit in Writer::delete_event.  The thread panics.
WriterPanics ==
    /\ stage \in {"deleteRow", "deleteDocs", "deleteLoaded"}
    /\ failures < MaxFailures
    /\ failures' = failures + 1
    /\ Stop
    /\ UNCHANGED <<opens, crashes>>

\* The process is killed.
Crash ==
    /\ stage # "stopped"
    /\ crashes < MaxCrashes
    /\ crashes' = crashes + 1
    /\ Stop
    /\ UNCHANGED <<opens, failures>>

\* Database::new on the same path: Index::get_writer needs tantivy's lock,
\* which the previous writer holds until its thread has ended.
Open ==
    /\ stage = "stopped"
    /\ opens < MaxOpens
    /\ opens' = opens + 1
    /\ stage' = "idle"
    /\ handle' = "open"
    /\ loadFailed' = FALSE
    /\ UNCHANGED <<tables, index, memory, message, batch, txRows, erasing, deleting, result,
                   batchEvents, channel, crashes, failures, acked, readded,
                   orphaned, erased>>

-----------------------------------------------------------------------------
Init ==
    /\ events = {} /\ uncommittedTable = {} /\ pendingTable = {} /\ checkpoints = {}
    /\ docs = NoDocs /\ buffer = NoDocs /\ addedEvents = 0
    /\ queue = <<>> /\ uncommittedEvents = {} /\ pendingEvents = {}
    /\ loadedUnprocessed = FALSE
    /\ message = NoMessage /\ stage = "idle"
    /\ batch = <<>> /\ txRows = {} /\ erasing = {} /\ deleting = {} /\ result = "none"
    /\ batchEvents = {}
    /\ channel = <<>> /\ handle = "open"
    /\ opens = 1 /\ crashes = 0 /\ failures = 0
    /\ acked = {} /\ readded = {} /\ orphaned = {} /\ erased = {}
    /\ loadFailed = FALSE

ClientStep == AddEvent \/ Commit \/ AddHistoricEvents \/ DeleteEvent \/ ShutDown \/ Drop

\* One step of the writer thread in which nothing goes wrong.
WriterStep ==
    \/ ReceiveEvent \/ ReceiveWrite \/ ReceiveHistoricEvents \/ ReceiveDelete
    \/ StopWriting
    \/ LoadUncommittedEvents \/ LoadPendingDeletionEvents \/ DeleteLoaded \/ EndLoad
    \/ BeginTransaction \/ SaveEvent \/ SkipEvent \/ CommitTransaction
    \/ WriteIndexCommit \/ MarkEventsAsIndexed \/ MarkEventsAsDeleted
    \/ DeleteRow \/ DeleteRefused \/ DeleteFromIndex \/ DeleteIndexCommit \/ DeleteMark
    \/ Reply

Next ==
    \/ ClientStep
    \/ WriterStep
    \/ SaveEventWithNul \/ StorageError \/ WriterPanics \/ Crash
    \/ Open

Spec == Init /\ [][Next]_vars

\* The writer thread runs as long as it has something to do.
FairSpec == Spec /\ WF_vars(WriterStep)

-----------------------------------------------------------------------------
(* Properties.                                                             *)

TablesType ==
    /\ events \in SUBSET Events
    /\ uncommittedTable \in SUBSET Row
    /\ pendingTable \in SUBSET EventIds
    /\ checkpoints \in SUBSET Checkpoints

IndexType ==
    /\ docs \in [Events -> Nat]
    /\ buffer \in [Events -> Nat]
    /\ addedEvents \in Nat

MemoryType ==
    /\ queue \in Seq(Events)
    /\ uncommittedEvents \subseteq Nat
    /\ pendingEvents \in SUBSET EventIds
    /\ loadedUnprocessed \in BOOLEAN

HandlerType ==
    /\ message \in Message \cup {NoMessage}
    /\ stage \in Stage
    /\ batch \in Seq(Events)
    /\ txRows \in SUBSET Row
    /\ erasing \in SUBSET Events
    /\ deleting \in SUBSET EventIds
    /\ result \in Result
    /\ batchEvents \in SUBSET Events

ClientType ==
    /\ channel \in Seq(Message)
    /\ handle \in {"open", "dropped"}
    /\ opens \in Nat
    /\ crashes \in Nat
    /\ failures \in Nat

HistoryType ==
    /\ acked \in SUBSET Events
    /\ readded \in SUBSET Events
    /\ orphaned \in SUBSET Events
    /\ erased \in SUBSET Events
    /\ loadFailed \in BOOLEAN

\* The state is made of what the Rust types and the table schemas allow.
TypeOK == TablesType /\ IndexType /\ MemoryType /\ HandlerType /\ ClientType /\ HistoryType

\* An event that is stored is searchable, or recorded in uncommitted_events so
\* that a later session indexes it: whatever crashes or fails between the
\* SQLite commit, the index commit and mark_events_as_indexed.  Only an event
\* added again while its deletion was pending can slip through.
NoEventLost == \A e \in events : docs[e] > 0 \/ HasRow(e) \/ e \in readded

\* What the index still holds of an event that is not stored will be deleted:
\* its id is in pending_deletion_events.  The exceptions are the documents of a
\* transaction that was rolled back after write_events_helper indexed them, and of
\* an event whose row save_event deleted because of a NUL in another of its id.
DanglingDocsCovered ==
    \A e \in Events : docs[e] + buffer[e] > 0 /\ ~Stored(e)
                        => IdOf[e] \in pendingTable \/ e \in orphaned

\* Once a write answered Ok its events stay in the store, across crashes,
\* until they are deleted.  The code breaks this in one case, the events erased:
\* save_event deletes them in every room when it meets a NUL in an event of their
\* id, and its write answers Ok all the same (README, Known gaps).
AckedEventsStored == acked \subseteq events \cup erased

\* A document is added twice at most once per session, or per failure.
DuplicatesBounded == \A e \in Events : docs[e] + buffer[e] <= opens + failures

\* When a forced commit answers Ok everything stored is searchable and no
\* event is left in uncommitted_events, if the session could load them.
ForcedCommitDrains ==
    stage = "reply" /\ message.type = "Write" /\ Forced /\ result = "ok" /\ ~loadFailed
    => /\ uncommittedTable = {}
       /\ \A e \in events : docs[e] > 0 \/ e \in readded

\* When delete_event answers, no event of that id can be found any more; true
\* means that nothing of the deletion is left to do, false that it is pending.
DeleteAnswer ==
    stage = "reply" /\ message.type = "Delete" /\ result # "err"
    => /\ \A e \in WithId(message.id) : e \notin events /\ docs[e] = 0 /\ buffer[e] = 0
       /\ message.id \in pendingTable <=> result = "commitNeeded"

\* What can be found can be found until it is deleted: no crash, restart or
\* load of unprocessed events takes a stored event out of the index.
SearchableUntilDeleted ==
    [][\A e \in events \cap events' : docs[e] > 0 => docs'[e] > 0 \/ e \in readded]_vars

\* A checkpoint moves in one transaction with the events of its page: if the
\* table of checkpoints changes, every event of the page is stored, but for those
\* that a NUL in another event of the page, of the same id, has erased.
CheckpointMovesWithPage ==
    [][checkpoints' # checkpoints => batchEvents \subseteq events' \cup erased']_vars

\* Liveness: a message that was sent is taken by the writer thread, or the
\* thread ends and the caller's receiver is disconnected; a handler ends.
MessagesTaken == channel # <<>> ~> channel = <<>>
HandlersEnd == stage \notin {"idle", "stopped"} ~> stage \in {"idle", "stopped"}

-----------------------------------------------------------------------------
(* What comments and tests of the repository say and the code does not keep. *)

\* database/mod.rs:263-267: events that are stored and not committed to the
\* index are loaded and committed to it, hence every stored event is in the
\* index or recorded as uncommitted.
StoredEventsIndexable == \A e \in events : docs[e] > 0 \/ HasRow(e)

-----------------------------------------------------------------------------
(* The inductive invariant behind NoEventLost.                             *)

\* Every handler works on a message of its own kind.
MessageFitsStage ==
    /\ stage \in {"loadUncommitted", "loadPending", "deleteLoaded"}
       => message \in WriteMessage
    /\ stage \in {"begin", "save", "indexCommit", "markIndexed", "markDeleted"}
       => message \in WriteMessage \cup HistoricMessage
    /\ stage \in {"deleteRow", "deleteDocs", "deleteCommit", "deleteMark"}
       => message \in DeleteMessage

Copies(e) == docs[e] + buffer[e]

\* A table has finitely many rows.
RowsFinite == IsFiniteSet(uncommittedTable) /\ IsFiniteSet(txRows)

\* Rows of uncommitted_events refer to stored events, and the ids of an open
\* transaction's rows are new.
RowsSound ==
    /\ \A r \in uncommittedTable : r.event \in events
    /\ \A r \in uncommittedTable, q \in txRows : r.id # q.id
    /\ stage # "save" => txRows = {} /\ erasing = {}

\* What the open transaction has deleted is stored, has no row that a later session
\* would index, and its documents stay.
ErasingSound ==
    /\ erasing \subseteq events \cap orphaned
    /\ \A r \in uncommittedTable : r.event \notin erasing

\* A row the writer will mark as indexed has a document, committed or buffered.
MarkableRowsHaveDocs ==
    /\ \A r \in txRows : Copies(r.event) > 0
    /\ \A r \in uncommittedTable :
          r.id \in uncommittedEvents => Copies(r.event) > 0 \/ r.event \in readded

\* added_events counts the buffered documents: none are left behind when it is 0.
BufferCounted ==
    /\ addedEvents = 0 => buffer = NoDocs
    /\ stage = "markIndexed" => buffer = NoDocs

\* No event is stored whose documents are still to be deleted, unless readded.
DeletionsSound ==
    /\ \A e \in events : IdOf[e] \in pendingTable => e \in readded
    /\ stage = "deleteLoaded" => deleting \subseteq pendingTable
    /\ stage = "deleteDocs" => events \cap WithId(message.id) = {}

StoreInv ==
    /\ TypeOK
    /\ MessageFitsStage
    /\ RowsFinite
    /\ RowsSound
    /\ ErasingSound
    /\ MarkableRowsHaveDocs
    /\ BufferCounted
    /\ DeletionsSound
    /\ NoEventLost

(* The inductive invariant behind AckedEventsStored and CheckpointMovesWithPage. *)

\* What a write was asked to store is stored once its transaction is committed.
BatchStored ==
    /\ stage = "save"
       => \A e \in batchEvents : e \in Elements(batch) \/ Stored(e) \/ e \in erasing
    /\ stage \in {"indexCommit", "markIndexed", "markDeleted"}
       => batchEvents \subseteq events \cup erased
    /\ stage = "reply" /\ result # "err" => batchEvents \subseteq events \cup erased
    /\ stage \in {"idle", "stopped", "deleteRow", "deleteDocs", "deleteCommit", "deleteMark"}
       => batchEvents = {}

(* The inductive invariant behind DuplicatesBounded, on top of StoreInv.      *)

\* One more document of the event stays within the bound.
RoomForCopy(e) == Copies(e) < opens + failures

\* The write under way will take every row of the event out of uncommitted_events.
AboutToBeMarked(e) ==
    /\ stage \in {"indexCommit", "markIndexed"}
    /\ \A r \in uncommittedTable : r.event = e => r.id \in uncommittedEvents

\* The rows of an open transaction are of events that were not stored.
TransactionNew == \A r \in txRows : r.event \notin events \ erasing

\* Only a write of historic events, which always commits and marks, comes before
\* the load of unprocessed events.
LoadFirst ==
    /\ stage \in {"loadUncommitted", "loadPending", "deleteLoaded"} => loadedUnprocessed
    /\ stage \in {"begin", "save", "indexCommit"} /\ ~loadedUnprocessed
       => message \in HistoricMessage

\* What this session may index again has room for it: an event that is not stored,
\* and a row that load_unprocessed_events has still to load.
RoomLeft ==
    stage # "stopped" => \A e \in Events :
        /\ ~Stored(e) => RoomForCopy(e) \/ (stage = "deleteDocs" /\ IdOf[e] = message.id)
        /\ HasRow(e) /\ (~loadedUnprocessed \/ stage = "loadUncommitted")
           => RoomForCopy(e) \/ AboutToBeMarked(e)

CopiesCounted == opens > 0 /\ TransactionNew /\ LoadFirst /\ RoomLeft /\ DuplicatesBounded
=============================================================================
