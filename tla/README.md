# Seshat for Android, in TLA+

Seshat stores the events of a Matrix client in an encrypted SQLite database and
makes them searchable with a tantivy full text index. This directory holds TLA+
modules of it, the TLC configurations that check them on small instances, and
proofs of the properties that matter most. Line references are to
`src/bindings/seshat/src/` unless a path says otherwise.

## The system

| Component | State | Operations | Interacts with |
|---|---|---|---|
| Database store and writer thread (`database/mod.rs`, `writer.rs`, `static_methods.rs`) | SQLite tables `events`, `uncommitted_events`, `pending_deletion_events`, `crawlercheckpoints`, `rooms`, `profile`; the writer's queue and its lists of row and event ids | `add_event`, `commit`, `force_commit`, `add_historic_events`, `delete_event`, `shutdown`, drop | clients through an mpsc channel, one reply channel per call; the index writer; SQLite |
| Index writer (`index/mod.rs`) | committed and buffered documents, `added_events`, the time of the last commit | `add_event`, `delete_event`, `commit`, `force_commit` | tantivy |
| Search (`index/mod.rs`, `database/searcher.rs`) | a snapshot of the index, the LRU cache of past searches | `search` with or without a `next_batch` token | the index, then `load_events` on the shared SQLite connection |
| Recovery database (`database/recovery.rs`, `bindings/src/recovery_database_bindings.rs`) | the flag `reindex_needed`, the new index | `delete_the_index`, `open_index`, the reindex loop, `commit_and_close` | SQLite, the index writer, later the store |
| Opening and migrations (`get_version`, `new_with_config`) | the passphrase of `events.db`, the `version` row, `reindex_needed` | migrations of versions 1, 2 and 3, `change_passphrase` | everything above |
| Encrypted directory and stream (`index/encrypted_dir.rs`, `encrypted_stream.rs`) | the key file, the encrypted files of the index | open, create, change passphrase, read, write | tantivy, the file system |
| Event queries (`static_methods.rs`, `connection.rs`) | none of their own | `load_events`, `load_event_context`, `load_file_events`, `is_empty`, `is_room_indexed`, statistics | SQLite, while the writer changes it |
| Events and their source (`events.rs`, `recovery.rs`, `bindings/src/utils.rs`) | none | two JSON forms of a source, the parser of the reindex | the store, the reindex |
| JNI bindings and Kotlin classes | ownership of native objects behind a `Long`, `Open` or `Closed` | every call above, shutdown, finalize | the virtual machine's finalizer thread |

What is hard in it: the writer keeps two stores that cannot commit together (a
SQLite transaction and a tantivy commit) consistent through two bookkeeping
tables; the process can be killed between any two commits; a storage call can
fail half way through a handler; the index is committed rarely (500 events or 5
seconds) and a deletion commits it out of turn; clients block on the writer;
searches and reindexing page through data that has ties and changes under them;
opening, migrating, rekeying and rebuilding touch four files one after the other;
an encrypted file is written in pieces that may fail, and read in pieces of any
size; Kotlin objects own Rust memory that a garbage collector frees.

### What makes each component correct

* Store: a stored event is searchable or will be indexed by a later session; a
  deleted one leaves the index; what a call answered stays true; a crawler's
  checkpoint moves with its page; every caller gets an answer.
* Index writer: `added_events` is zero only when nothing is buffered.
* Search: the pages of a search neither repeat nor miss an event, and end.
* Recovery: the flag is cleared only when every event is indexed; the loop ends.
* Opening: a client that remembers its passphrases and keeps trying gets its
  database opened, with a readable and complete index, wherever the process died.
* Encrypted files: what is read is the file as its writer sealed it, and all that the
  writer was given if no write failed; a keystream position encrypts one byte.
* Queries: pages neither repeat nor skip, a context is next to its event.
* Handles: no native object is used after it was freed, freed twice, or forgotten.

Where the code keeps less than this, the property says what it leaves out, and "Known
gaps of the code" below says why.

## Modules

### `SeshatStore`: the store and its writer thread

The variables are the tables, the index, the memory of `database::Writer` and of
`spawn_writer`, the message in hand with its handler's locals, and the client's
channel. An event is a model value; `IdOf` gives its Matrix id, so that two events
of two rooms can share one, as `event_in_store` (room and id) and `delete_event`
(id only) treat them differently. A handler is a sequence of stages, cut exactly
where something becomes durable or a call may fail:

| Handler | Stages | Code |
|---|---|---|
| Write | `loadUncommitted`, `loadPending`, `deleteLoaded` (first of a session), `begin`, `save`, `indexCommit`, `markIndexed`, `markDeleted`, `reply` | `mod.rs` 262-281, `writer.rs` 59-126, `static_methods.rs` 36-64, 93-190 |
| HistoricEvents | `begin` ... `reply`, the same without loading | `mod.rs` 282-286, `writer.rs` 82-107 |
| Delete | `deleteRow`, `deleteDocs`, `deleteCommit`, `deleteMark`, `reply` | `static_methods.rs` 66-91 |
| Event, ShutDown | one step | `mod.rs` 261, 291-300 |

`StorageError` lets any fallible call fail, with the effects of `?`: the open
transaction rolls back, what tantivy buffered stays, the drained queue is gone.
`WriterPanics` is a failure of a call whose error is unwrapped. `Crash` kills the
process: SQLite and tantivy keep what they committed. `Open` starts a session.
Whether 5 seconds have passed is chosen freely at every commit.

A round of `save` is `SkipEvent`, `SaveEvent`, or `SaveEventWithNul`, the path of
`save_event` on a `NulError` (`static_methods.rs` 588-598, 606-611): it deletes the
event's id in every room (`erasing`, until the transaction commits), records no
deletion, leaves the documents, and saves the event without the NUL. A row of
`uncommitted_events` that refers to the id makes the deletion, and so the write, fail.
The step counts as one of `MaxFailures`.

The history variables `acked`, `readded`, `orphaned`, `erased` and `loadFailed` are read
by properties only: `readded` marks events saved while a deletion of their id was
pending (see below), `orphaned` the documents of a rolled back transaction or of an
erased row, `erased` the events whose rows `SaveEventWithNul` deleted. These are the
cases the code loses, and the only ones.

### `SeshatRecovery`: rebuilding the index

`RecoveryDatabase` as `n_reindex` of the JNI bindings drives it
(`bindings/src/recovery_database_bindings.rs` 175-202), and the `Database` that is
opened before and after it. The events table is constant here, an id, a timestamp
and a kind for every event, all of them chosen at the start (two events of two rooms
may share an id: `IdTables`): `load_all_events` selects
messages (`kind` is `message` or `unparseable`), `event_from_json` parses the
former only. `stage` is the next statement of `n_reindex`:

| Stage | Actions | Code |
|---|---|---|
| `closed`, `opened` | `OpenRecovery`, `CloseRecovery`, `OpenDatabase` | `recovery.rs` 93-134, 361-366; `mod.rs` 107-134 |
| `opened`, `deleting` | `DeleteSomeFiles`, `DeleteLastFile` | `recovery.rs` 139-168, one file after the other |
| `deleted` | `OpenIndex` | 271-282 |
| `loadFirst`, `indexFirst` | `LoadFirst`, `IndexFirst` | bindings 186-187 |
| `load`, `index`, `commit` | `Load`, `IndexPage`, `CommitPage` | bindings 189-198; `recovery.rs` 236-250, 311-339 |
| `forceCommit`, `clearFlag` | `ForceCommit`, `ClearFlag` | `recovery.rs` 345-355 |
| `database` | `LoadUnprocessed`, `CloseDatabase` | `writer.rs` 109-126 |

A page is any set that `ORDER BY server_ts DESC LIMIT` may return (`IsQueryResult`):
SQLite orders ties as it likes. `Crash` ends the process anywhere. `OpensComplete`
leaves out three cases. History variables mark two of them: `blindPage`, a page that had
rows and none that parses, and `unasked`, an unfinished reindex of a database whose
`reindex_needed` was not set. The third is a message that shares its id with a message
of another room (it is not in `Singular`): the query that goes on from the last event of
a page says `event_id != ?1` and does not look at the room (`static_methods.rs` 647).
The other messages of such a table are not left out. All three are known gaps, below.

### `SeshatSearch`: pages of a search

Clients search the same term and page on with the `next_batch` they got, while the
writer changes the events table and the index. `Matching` is the set of events
that `parse_query` selects; a document of another event is never returned. A call
of `Searcher::search` is three steps, between which everybody else may run:

| Action | What it does | Code |
|---|---|---|
| `Begin` | takes tantivy's current searcher and looks the token up in the cache, which makes it the most recently used | `index/mod.rs` 319-333, 496-514 |
| `Collect` | ranks the documents of its snapshot, takes the first `Limit` new ones, asking for more until there are enough; a new cache entry and token unless as many ids were seen as there are documents | 239-317, 335-388 |
| `Load`, `LoadPanics`, `LoadFails` | `load_events` on the shared connection answers, panics on a score it has already taken (or on the poisoned mutex), or fails | `searcher.rs` 85-128, `static_methods.rs` 897-994 |
| `Restart` | the client searches without a token | |
| `StoreEvent`, `IndexEvent`, `DeleteRows`, `DeleteDocs` | the writer, in the order of `SeshatStore` or any other | `static_methods.rs` 521-611, `index/mod.rs` 154-177 |
| `Reload` | tantivy's reader loads what was committed | external |

The ranking is any order of the snapshot's documents, drawn anew for every page:
scores, dates and ties are decided by tantivy and change with the index. `recent`
and `past` are the LRU cache, `past` holding the ids of all pages of a search under
the token of the last. `given`, `resumed` and `shrunk` are history: what the client
received since it began, whether every token it used was still in the cache, and
whether a document went away between two of its pages.

### `SeshatLifecycle` and `SeshatStoreLifecycle`: what the store promises

`SeshatLifecycle` is the abstract database: sets of events that are stored, that can
be found, that are owed (a later session has to make them findable) and ids that are
leaving. It has no writer, no memory and no crash. `SeshatStoreLifecycle` maps the
store to it, `stored <- events`, `found` the events with a committed document, `owed`
the events of rows of `uncommitted_events`, `leaving <- pending_deletion_events`, and
`KeepsPromises` says that every step of `SeshatStore` is a step of it or a stutter:
an event leaves `uncommitted_events` only when it can be found, an id leaves
`pending_deletion_events` only when nothing is left of it, and a crash changes
nothing that was promised. `strays` and `excused` are the two exceptions of
`SeshatStore` (`orphaned`, `readded`); what a NUL erases becomes a stray in the step of
`Store` that erases it.

### `SeshatOpening`: opening, migrations, passphrases

`events.db` (its passphrase, `version`, `reindex_needed`, the name of the profile
table), the key file (absent, torn or whole with a passphrase and a store key) and
the index (with the key of its files, whether its schema is the current one, and
whether it is complete). `pc` is the next step; a step ends where something is on disk:

| Step | Actions | Code |
|---|---|---|
| `closed` | `OpenDatabase`, `OpenRecovery`: `unlock` | `mod.rs` 107-122, 199-227; `recovery.rs` 93-115 |
| `version`, `migrate`, `renamed` | `ReadVersion`, `RenameProfiles`, `RenameFails`, `SetVersion2`, `MarkForReindex`, `CreateTables` | `static_methods.rs` 205-391 |
| `keyFile`, `writeKey` | `OpenPlainDirectory`, `LoadStoreKey`, `CreateNewStore`, `WriteStoreKey` | `encrypted_dir.rs` 196-218, 324-484 |
| `index` | `OpenIndex`, `IndexUnreadable` | `index/mod.rs` 392-462 |
| `open` | `StoreEvents`, `CloseDatabase`, `ChangePassphrase` | `mod.rs` 180-183, 446-455 |
| `truncate`, `rewriteKey`, `rekey` | `TruncateKeyFile`, `RewriteKey`, `Rekey` | `encrypted_dir.rs` 270-302, 433-484; `mod.rs` 184-197 |
| `recovering` ... `clearFlag` | `DeleteFile`, `IndexDeleted`, `CommitReindex`, `ClearFlag`, `CloseRecovery` | `recovery.rs` 136-168, 341-366 |

`Trouble` kills the process or lets a call fail after any of them. `known` are the
passphrases a careful client remembers: the one of its last successful call, and
both while a change has not succeeded. `damaged` says that something was cut short
in the middle of the key file, the passphrases or the deletion of the index.

### `SeshatStream`: one encrypted file

The `BufWriter` and `AesWriter` that `open_write` returns, and `AesReader`. A byte of
the file is a cell that says what it is: of the IV, of the plain text with the
keystream position it was encrypted at, or of a MAC with what that is over. The cipher
and the MAC are perfect. Writing is any sequence of `Write`, `WriteThrough`,
`FlushBuffer`, then `Terminate` or `DropBuffer` and `Drop`, at any time: a drop seals
what has reached the file, whatever the buffer lost before; every write to the file may
fail after some bytes, a failing `Drop` panics, and the process may die
(`encrypted_stream.rs` 66-168). Reading is `OpenRead`, `Verify` chunk by chunk, and
`ReadDecrypt` into buffers of any size (202-332).

### `SeshatEvents` and `SeshatQueries`: what is read back

`SeshatEvents` has the two JSON forms of an event (`MatrixJson` of the homeserver,
`EventToJson` of the bindings) and the parser of the reindex, which knows the first only.
`SeshatQueries` has the tables, one transaction of the writer as one step, and two
kinds of clients whose statements the writer may come between: one that pages through
the files of a room (`FirstPage`, `FirstFrom`, `NextPage`, `NextPageFails`;
`static_methods.rs` 677-756; a first page without `from_event` has the newest files in
any direction, the next ones go on in the client's), and one that asks `is_empty` or `is_room_indexed`
(`CountEvents`, `CountCheckpoints`; `connection.rs` 80-104). `ORDER BY ... LIMIT` is
`Selected`, a set of results, as SQLite orders ties as it likes. `load_event_context`
is an operator.

### `SeshatHandles`: Kotlin objects and Rust boxes

Every native function is a record of what it does with boxes (the receiver, what it
borrows, whether it consumes the receiver's box, whether an error is answered or
unwrapped, what it gives, whether it tells by returning or by a callback), named
after the function. A Kotlin method adds when it marks the object as closed and
whether the object is reachable while the native function runs: `Instance` natives keep
it, `Static` ones (those of `RecoveryDatabase` but `shutdown` and `reindex`, whose Kotlin
code refers to the object afterwards, the getters of `CrawlerCheckpoint`, and all
constructors) have an address and keep nothing. A call is `Begin`,
`Work` or `Fail`, `Callback`, `Return`; `Forget` and `Finalize` are the garbage
collector, which may collect the receiver of a static native while that runs, and
`FinalizeByHand` is `testFinalize`, any number of times and followed by the collector's
own: only databases look whether they are closed. Clients are assumed to use one database from one thread at a time (there is
no lock in `Database.kt`, and the `Sender` at `mod.rs` 167 is not made for sharing)
and to keep the arguments of a call reachable.

### Modules for TLC and for proofs

The `MC` modules give the constants of the instances. `MCSeshatSearch` has a view for
`search`: `Uuid::new_v4` gives a token that nobody uses and it does not matter which,
so two states that differ only in the names of tokens, or in cached searches whose
token no client has, behave alike. The `Proofs` modules hold the theorems: of the
store, the refinement included, in `SeshatStoreProofs`, of the abstract database in
`SeshatLifecycleProofs`, and in `SeshatRecoveryProofs`, `SeshatSearchProofs`,
`SeshatOpeningProofs`, `SeshatHandlesProofs`, `SeshatStreamProofs` and
`SeshatQueriesProofs`.

## Runs

| Run | Instance | Shows |
|---|---|---|
| `store_crash` | two events, one page, two opens, one crash | no stored event is lost to the index, deletions stay covered, documents are duplicated at most once per session, a forced commit drains, checkpoints move with pages, a searchable event stays searchable; the store keeps the promises of `SeshatLifecycle` |
| `store_failures` | two events of two rooms that share an id, one failing or panicking call, or one NUL in a text | the inductive invariant of the writer (`WriterInv`, types included); acknowledged events stay, documents are duplicated at most once per session or failure, `true` and `false` of `delete_event` are honest; with `erased` and `orphaned` for what a NUL takes |
| `store_live` | one session, weak fairness of the writer | every message is taken and every handler ends |
| `reindex` | every table of three events, two of which may share an id, pages of two, one crash | a database that opens has every parseable message with an id of its own, none twice unless timestamps tie or ids are shared, the progress shown is the number indexed, the reindex ends unless timestamps tie; the inductive invariant |
| `search` | two clients, three matching events, one event of another room with a shared id, a cache of two, one change, failure or new search | no page repeats an event, none is missed, a page of an index with one document per id has an event; the inductive invariant, with the size of the cache |
| `search_alone` | one client that pages on, a cache of one, three changes | it gets its last page |
| `opening` | a new directory or any older version, two passphrases, two crashes or failing calls, one change of the passphrase | what opens is readable and complete, a remembered passphrase opens it, a client that keeps trying gets it opened; the inductive invariant |
| `stream` | up to five bytes, two failing writes, any buffers | what is read is the file as it was sealed, all of it if no write failed; no keystream position twice; the inductive invariant |
| `queries` | every table of three events in two rooms, one transaction in between | pages of files in any direction (but Forwards after the newest), contexts, `is_empty` and `is_room_indexed`; the inductive invariant |
| `handles` | two threads, three objects, every method | nothing that is held or kept is used after free, nothing is freed twice but what a test finalized by hand, one owner per box; the inductive invariant |
| `readd_loses_event` (violation) | the store | `load_unprocessed_events` deletes an event stored again since its deletion |
| `reindex_drops_events` (violation) | the queries | a reindex leaves out names, topics, and every event made by the bindings |

A violation run checks what a comment of the repository says; `PROJECT.json`
quotes it and tells what the code does.

### Bounds

`MaxChannel`, `MaxQueued`, `MaxOpens`, `MaxCrashes` and `MaxFailures` bound the
state space; the code has none of them. One message in flight suffices, as the
writer takes messages one by one and every order in which clients can send is
still explored between its steps. Two opens let one session leave work for the
next; one crash or one failure at every stage covers every window between two
durable steps. `CommitRate` 2 stands for 500: a write of one event is below it, a
page of two reaches it, and `elapsed` covers the 5 seconds. Two events are what
the interactions need: one being written while the other is deleted or loaded.

`SeshatRecovery`: three events and pages of two give a full page, a partial one
and the empty one; with any timestamps a tie can lie inside a page, on its edge and
at the end of the table, and so can the two events that share an id (`OwnOrSharedIds`). `MaxCrashes` 1 lets a reindex be interrupted at every step
and started again. Counters saturate where nothing tells larger values apart
(two documents of an event, `CommitRate` added events, one more than the number of
events indexed); without that a loop over ties would make the state space infinite.

`SeshatSearch`: `Limit` 1 and three events give three pages, hence a token that is
used, replaced and found again; `CacheSize` 2 with two clients makes entries go
while they are still wanted (100 in the code, `resumed` tells); `Increment` 1 makes
`search_helper` ask again. `MaxDocs` 2 is what `SeshatStore` shows an event can
have. `Tokens` has more members than can be in use at once. `MaxChanges` counts the
writer's steps, failing calls and new searches together.

`SeshatOpening`: a new store key only has to differ from the one on disk, so two keys
and two passphrases suffice; `MaxTrouble` 2 lets the repair of what one crash left be
cut short as well; `MaxChanges` 1, as a second change starts from a closed database
that the invariant describes.

`SeshatStream`: an IV and a MAC of two bytes, chunks of three and a buffer of two put
their edges at every place of a file of up to five bytes; reading in buffers of 1, 2,
4 and 7 ends before, on and after the MAC. Two failures are a failed write and a
failed second attempt.

`SeshatQueries`: three events are one to continue from and one on either side, or a
tie of three; `Limit` 1 makes every event the edge of a page. `MaxWrites` 1: what a
client reads is two statements at a time. `MatrixEvents` says whose source has the
homeserver's form, which no query but that of the reindex looks at: it is empty in
`queries`, where events and rooms are symmetric.

`SeshatHandles`: a database, an argument and a result are the most objects a call has
at once; two threads are a call and another call or its own next one; the theorems
hold for any number of both.

### Fairness

`FairSpec` of `SeshatStore` assumes weak fairness of the writer thread's step as a
whole: it is one operating system thread in a loop over `rx`, with no lock shared
with clients. Clients are never assumed to send anything. `FairSpec` of
`SeshatRecovery` assumes it of the steps of one call of `n_reindex`, after it has
begun to delete files: a function that runs. `FairSpec` of `SeshatSearch` assumes a
client that asks for the next page as long as it has a token; the writer owes
nothing. `LiveSpec` of `SeshatOpening` assumes that the steps of a call that began run
to their end (weak fairness; strong for deleting the index, which trouble may
interrupt again), and a client that tries every passphrase it remembers and reindexes
when an open answers that the index is old or cannot be read: strong fairness, as
each try ends in a closed database from which the next one starts. Failing calls,
crashes and new searches are no part of fair steps.

## Proofs

Every theorem holds for all constants that satisfy the named assumptions of its
module, without the bounds of the runs.

| Module | Theorems |
|---|---|
| `SeshatStoreProofs` | `TypeCorrect`, `StoreInvariant` (`StoreInv`), `StoredEventsSurvive` (`NoEventLost`), `SearchableEventsStay` (`SearchableUntilDeleted`), `AckedEventsStay` (`AckedEventsStored`), `CheckpointsMoveWithPages` (`CheckpointMovesWithPage`), `WriterInvariant` (`WriterInv`), `CopiesStayBounded` (`DuplicatesBounded`), `HandlersRunDown` (no run: `HandlerNearsEnd`), `DeleteAnswersTruly` (`DeleteAnswer`), `ForcedCommitsDrain` (`ForcedCommitDrains`), `DocumentsCovered` (`DanglingDocsCovered`), `StoreKeepsPromises` (`Spec => KeepsPromises`, the refinement) |
| `SeshatLifecycleProofs` | `LifecycleKept`: the abstract database keeps its own invariant |
| `SeshatRecoveryProofs` | `RecoveryTypeCorrect`, `RecoveryInvariant`, `RecoveryComplete` (`OpensComplete`), `ProgressInvariant` (`ProgressInv`), `EventsIndexedOnce` (`IndexedOnce`), `ProgressIsTold` (`ProgressTold`), `ReindexRunsDown` (no run: `ReindexNearsEnd`) |
| `SeshatSearchProofs` | `SearchInvariant` (`SearchInv`), `PagesNeverRepeat` (`PagesDisjoint`), `PagesMissNothing` (`PagesComplete`), `PagesBringEvents` (`NoEmptyPage`) |
| `SeshatOpeningProofs` | `OpeningInvariant` (`OpeningInv`), `TypeCorrect`, `OpenedIndexReadable` (`OpenIndexReadable`), `OpenedIndexComplete` (`MigratedIndexComplete`), `ClosedDatabaseAligned` (`OnePassphrase`), `EventsNeverLocked` (`EventsUnlockable`), `CallsRunDown` (no run: `CallNearsEnd`) |
| `SeshatHandlesProofs` | `HandlesInvariant` (`HandlesInv`), `NothingUsedAfterFree` (`NoUseAfterFree`), `EveryBoxOwned` (`OneOwner`) |
| `SeshatStreamProofs` | `StreamInvariant` (`StreamInv`), `FilesReadBack` (`ReadBack`), `OnlySealedFilesRead` (`OnlySealedFiles`), `KeystreamNeverReused` (`KeystreamOnce`) |
| `SeshatQueriesProofs` | `QueriesInvariant` (`QueriesInv`), `PagingFindsFiles` (`FilePages`), `AnswersAreTrue` (`AnswersTrue`), `ContextIsAdjacent` (`ContextAdjacent`) |

The inductive invariants, and why the properties alone are not enough:

* **Store.** `NoEventLost` is not inductive: deleting rows in `mark_events_as_indexed`
  keeps it only because what the writer holds in `uncommitted_events` has documents,
  and these are committed at that moment. `StoreInv` adds `MarkableRowsHaveDocs` (those
  documents exist), `BufferCounted` (nothing is buffered at `markIndexed`, nor when
  `added_events` is 0), `RowsSound` (row ids of a transaction are new, so that an id
  in memory never points at another event's row), `DeletionsSound` (what is about to
  be deleted from the index is not stored, unless added again), `ErasingSound` (what the
  open transaction has erased has no row, and its documents are in `orphaned`) and
  `MessageFitsStage`.
  `RowsFinite` makes the next row id exist.
* **Answers.** `BatchStored` follows a batch from `begin` to `reply`: what was already
  handled is stored. `DeleteInv` says that once a deletion has reached the index
  nothing of the id is left and it is recorded in the table and in the list of the
  writer. `DrainInv` says that, if the session loaded its rows, every row of the table
  is in the writer's list, so that the commit that empties the list empties the table.
* **Refinement.** `PromiseInv` adds to `StoreInv` that documents without an event are
  covered by a pending deletion (`DanglingDocsCovered`, `CommittedDocsCovered`), and
  that the ids the writer is about to take out of the table are cleared
  (`PendingCleared`). With it each of the store's actions is shown to be one of
  `Store`, `Show`, `Settle`, `Delete`, `Hide`, `Forget`, `Stray` or a stutter.
* **Copies.** `DuplicatesBounded` grows by one when a session loads its rows again and
  when a call fails, but the document is added later: `RoomLeft` follows every event in
  between. An event that is not stored, or whose row the writer may still add from, has
  room for one more document (`RoomForCopy`), because its transaction is new
  (`TransactionNew`) or its session has not yet added from the table (`LoadFirst`).
* **Recovery.** `LoopCovers`: between two queries every message that parses and shares
  its id with no other (`Singular`) is in the new index, in its buffer, or will be selected by the next query; while a page is in
  hand it may be in the page. A query keeps it because what it leaves out is not newer
  than the last event of the page. `BufferCounted` makes the forced commit one that
  really commits; `RebuildKnown` says that until then `reindex_needed` keeps every
  `Database` from opening. `ProgressInv` adds, for tables without ties and shared ids, that what is
  indexed is not older than the event the next query continues from (`Behind`), so that
  no page has it again, and that the progress is the number of what is indexed.
* **Search.** `PagesDisjoint` speaks of the page in hand only. `Remembered` follows what
  a client was given to everywhere its next page will look: the cache entry of its
  token, the ids read from it, the entry of the token it is about to receive, provided
  the cache has not dropped the entry. It is kept under the other clients' insertions
  because a new token is nobody's, and it does not mention the index at all, which is
  why the writer cannot disturb it. `PagesComplete` needs to know what the length of a
  past search was earned with: `Accounted` says that an entry names only what the
  client was given and counts no more documents than the index has of these ids, so
  that it reaches the number of all documents only when the client has them all; the
  index may grow between two pages, and `PlacesAreDocs` shows by an injection that a
  page of a ranking counts every document once. `NoEmptyPage` needs the opposite bound
  (`Ongoing`: an entry counts at least as many documents as it names ids, and fewer
  than there are), hence a document of an id that is not known, and that
  `search_helper` then finds one (`HelperFinds`, from the smallest limit that is
  enough; `SmallestOf` is proved by the well-founded inclusion of finite sets).
* **Queries.** A page knows only the event it continues from. `PagesAhead` says that what
  the pages have still to bring lies beyond that event (not earlier, or not later, so
  that ties are read again rather than lost), and what they brought lies before it; the
  results of `ORDER BY ... LIMIT` are described once, in `SelectedProps` and `PageProps`.
  Both leave out a client that `TurnsAround`.
  `AnswerAhead` says what a client knows between its two statements: events that are
  still there were counted, and what was counted was there at a time it was asking.
* **Opening.** `OpeningInv` says for every step what the process has in memory
  (`Unlocked`, `KeyInHand`, `ChangeSound`, `FlagSound`), that an index which is old,
  incomplete or gone is flagged or of another version (`OldIndexesFlagged`), and that
  key file, index and `events.db` agree but for the steps that are in the middle of
  changing one of them (`Aligned`).
* **Handles.** `NoUseAfterFree` is kept only because a call holds on to what it works on:
  `CallSound` says that the arguments stay reachable, and the receiver of a method that
  keeps it, or that the call has consumed the box of a closed object, `CallsApart` that no two calls have one
  database or one new box, `BoxesSound` that an open object nobody has consumed has its
  box, and that an orphaned box is carried by a call.
* **Stream.** `KeystreamOnce` needs `Ahead`: the encryptor is past every position in the
  file, also past those of bytes that a failed write lost. `OnlySealedFiles` needs
  `Unfinished`: until `finalize` has succeeded the file has no last byte of a MAC, so
  no such file ends with a whole one; and `TornRefused`: a piece of a failed write is in
  the file but not in what the MAC is over. `ReadBack` needs what both sides have done so
  far: `WrittenWhole` (without a failed write the file is the IV, the bytes that left
  the buffer, each at its own position, and the MAC over them) and `ReaderSound` (what
  was read is what lies between the IV and the position, and the decryptor is in step
  until the last chunk). The cells of a file have no common type, which is why the
  module first states what `\o` and `SubSeq` do to any sequence.

## Only model-checked

All liveness (`MessagesTaken`, `HandlersEnd`, `ReindexEnds`, `PagesEnd`, `OpensAgain`),
which is out of the prover's reach, as is `ENABLED`. Every safety property of the runs
is also a theorem. Of the liveness the proofs have the safe half, a measure that the
steps lower, so that what is left to TLC is that a next step is enabled and, by
fairness, taken:

* `HandlersEnd`: `HandlersRunDown`. While a handler runs, every step that touches the
  writer, its failures included, lowers `StepsLeft`: a step for every stage, for every
  pending deletion it loads and for every event it writes. The measure is a number
  because the pending deletions are finitely many (`PendingFinite`).
* `ReindexEnds`: `ReindexRunsDown`. Every page that is not empty leaves fewer messages
  older than its last one (`Older`), if no two have one time; with ties, where the
  query asks for what is *not newer*, pages of the tied messages may follow one another
  without end.
* `OpensAgain`: `CallsRunDown`. Every call of open, reindex or `change_passphrase` runs
  down, whatever is on the disk. That a *later* call then succeeds is TLC's part.
* `PagesEnd`: a page that is found has an event (`PagesBringEvents`), no earlier page
  had it (`PagesNeverRepeat`), and there are finitely many.

## Known gaps of the code

Besides the two violation runs, the model or the reading of the code shows:

Store and index

* `delete_event` does not look at the writer's queue: an event added, deleted and
  committed in this order is stored (`static_methods.rs` 66-91). Deleting an event
  between its commit and the index commit answers an error, as the row in
  `uncommitted_events` refers to it.
* A deletion commits documents of events whose rows stay in `uncommitted_events`: the
  next session adds them again. A document counted twice makes `next_batch` never
  None: paging goes on with empty pages, as the ids seen stay below the count
  (`index/mod.rs` 368). A document deleted between two pages ends the search one page
  early.
* An event with a NUL in a text that SQLite refuses (`NulError`) is saved in three steps,
  of which the first deletes its id in every room (`static_methods.rs` 588-598, 606-611):
  the event of another room that shares the id is gone from the table although its write
  was acknowledged, its document stays in the index with no pending deletion, and the
  write answers Ok. The code expects this for its own event only (comment at 590-593; the
  test `add_events_with_null_byte`, `mod.rs` 1081, has one event). Whether binding such a
  text fails is for rusqlite to decide; the model lets it.
* A `load_unprocessed_events` that fails is not tried again in the session
  (`mod.rs` 271), and a forced commit still answers Ok with rows left.
* The writer thread of a dropped `Database` may still hold tantivy's writer lock, and
  its files, while a new `Database` opens or a recovery deletes the index.

Search and queries

* A token whose cache entry is gone starts the search again without a word; a later
  page uses the term it is given and not the one of the past search (`index/mod.rs`
  332), though the cache keeps both.
* Results by score are sorted in ascending order (`static_methods.rs` 990), and an
  empty page reports a count of 0 (`searcher.rs` 85-91).
* An id that two rooms share makes `load_events` panic with the connection's mutex held
  (`static_methods.rs` 978); every later search with results panics on the mutex.
* `load_event_context` limits the events before by `after_limit` (`static_methods.rs` 792).
* Paging through files with a limit of 1 and two files of one time never ends, and a
  page that continues from a deleted event fails, which `n_load_file_events` unwraps.
* A client that asks for the newest files and goes on `Forwards` sees the newer files of
  that page again, then an end, and never an older file: the direction is ignored for the
  first page only (`static_methods.rs` 728-738). That is the default of the bindings
  (`LoadConfig.kt`: `fromEvent = null`, `direction = Forwards`). `FilePages` leaves such a
  client out (`TurnsAround`).
* `is_room_indexed` "returns true if the database contains events from a room, false
  otherwise" (`connection.rs` 91-94), but a crawler checkpoint alone is enough for its
  TRUE. `AnswersTrue` says what the code does, which is less.
* `is_empty` and `is_room_indexed` count in two statements: a page that moves the last
  checkpoint and stores events in between is seen as nothing at all (`connection.rs`
  80-104). `AnswersTrue` asks for a TRUE only if one event was there all the time.
  `get_room_id` inserts the room of every question, so that reads write, and the room
  count counts them.
* Both parsers of the bindings (`utils.rs` 80-198) and that of the reindex
  give an event with a text the type `m.text`, whatever it had, and none takes a negative
  time.

Recovery and opening

* Two messages of one timestamp that are the oldest of the table keep `n_reindex` going
  for ever (`static_methods.rs` 648).
* `n_reindex` takes a page of which no event parses for the end of the table (bindings
  192): older messages stay out and the reindex is marked as done.
* A message that shares its id with a message of another room is skipped for good if the
  other is the last of a page: the query of the next page leaves out that id in every
  room (`static_methods.rs` 647). The database opens all the same.
* `delete_the_index` does not set `reindex_needed`: if a reindex that no version change
  asked for is cut short, the next `Database` opens a partial index.
* A migration of version 1 that is cut short between renaming the table and storing the
  version fails for ever after (`Stuck`; `static_methods.rs` 243-259).
* A crash in `change_passphrase` leaves a torn key file or two passphrases; a key file
  torn by the first open is not replaced either. Both are repaired by a reindex only.

Encrypted files

* A retry of the `BufWriter` after a failed write encrypts the same bytes at later
  positions of the keystream, under a MAC that matches: the file reads back, but as
  something else. `ReadBack` speaks of files none of whose writes failed.
* An `AesWriter` that is dropped early, in a panic, or after a flush of its `BufWriter`
  failed, writes a MAC over what has reached the file (`encrypted_stream.rs` 158-168):
  the shorter file is accepted as if it were whole. `OnlySealedFiles` does not say that
  nothing is missing.

Bindings

* `n_load_file_events` and `n_search_result_get_profile_info` box a reference to a
  profile, and Kotlin uses the address as that of a `Profile`
  (`database_bindings.rs` 325, `search_bindings.rs` 151). `NoUseAfterFree` follows these
  boxes as `borrowed` and says nothing of what they refer to.
* The callbacks' `onError` is looked up as `(I)V` but takes an `Int` and a `String`
  (`util/NativeAsyncResultCallback.kt` 5): an error ends in an unwrap that aborts the
  process. `n_commit_no_wait` and `n_shutdown` tell a success for an `Ok(Err(_))`.
* `n_free_database_config`, `n_search_config_set_with_key` and
  `RecoveryDatabase.n_new_database_with_config` have no native counterpart: the first
  leaks the box, the second loses one (`SearchConfigWithKeys`).
* The static natives of `RecoveryDatabase` (`n_get_info`, `n_get_user_version`) and of
  `CrawlerCheckpoint` (its getters, `CrawlerCheckpoint.kt` 49-56) are given an address and
  do not keep the Kotlin object reachable: if nobody else holds it, the finalizer may
  free the box while they read it. `NoUseAfterFree` speaks of these receivers only while
  the client holds them. Nor do the arguments of a call keep their objects; the model
  assumes that the client does.
* The data classes' `finalize` does not look whether it has run: an object that is
  finalized by hand (`testFinalize`, which only tests call) is freed again by the garbage
  collector. `NoUseAfterFree` leaves these objects out (`byHand`).

## Not modelled, and the plan

Left out: statistics, `load_checkpoints` and the user version (one statement each, of
which nothing depends), profiles, the builders of configurations, errors, the Japanese
tokenizer, conversions of strings and numbers in the bindings, the sample application;
a power loss that takes back a SQLite commit (WAL with `synchronous = NORMAL`; a crash
kills the process only); tokenizing, scoring and query syntax, which tantivy decides.

What a further step would take up, in this order:

1. The profiles of senders: `save_profile` and the profile at the time of an event.
2. What a call leaves for the next one: that a reindex which was cut short can be
   repeated until it succeeds, as a measure over several calls.
