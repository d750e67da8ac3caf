------------------------ MODULE SeshatStoreLifecycle ------------------------
(***************************************************************************)
(* The store implements SeshatLifecycle: the tables and the committed part *)
(* of the index are all that counts, the writer's memory is not.           *)
(***************************************************************************)
EXTENDS SeshatStore

\* The events of rows of uncommitted_events.
RowEvents == {r.event : r \in uncommittedTable}

\* The events with a committed document.
Findable == {e \in Events : docs[e] > 0}

Lifecycle == INSTANCE SeshatLifecycle
                WITH stored <- events, found <- Findable, owed <- RowEvents,
                     leaving <- pendingTable, strays <- orphaned, excused <- readded

\* Every step of clients, writer thread, failing calls, crashes and restarts is a
\* step of the promise or changes nothing of it: an event leaves uncommitted_events
\* only when it can be found, an id leaves pending_deletion_events only when nothing
\* is left of it, and no crash takes a promise back.
KeepsPromises == Lifecycle!LifecycleSpec

-----------------------------------------------------------------------------
(* The inductive invariant behind KeepsPromises, on top of StoreInv.       *)

\* Committed documents of an event that no transaction has stored yet.
CommittedDocsCovered ==
    \A e \in Events : docs[e] > 0 /\ e \notin events
                        => IdOf[e] \in pendingTable \/ e \in orphaned

\* Nothing is left of an id but what was stored again or what a failure left.
Cleared(id) == \A e \in WithId(id) : Copies(e) > 0 => Stored(e) \/ e \in orphaned

\* The ids the writer will take out of pending_deletion_events are cleared; the
\* deletion under way may delete a row of such an id again.
PendingCleared ==
    /\ \A id \in pendingEvents : Cleared(id) \/ (stage = "deleteDocs" /\ message.id = id)
    /\ stage = "deleteLoaded" => \A id \in pendingTable \ deleting : Cleared(id)
    /\ stage = "deleteDocs" => message.id \in pendingTable

PromiseInv == DanglingDocsCovered /\ CommittedDocsCovered /\ PendingCleared

\* What the writer relies on from one session to the next: the tables and the index
\* agree, what a later session has to index or delete is recorded, and what a session
\* may index again has not been indexed too often.
WriterInv == StoreInv /\ BatchStored /\ PromiseInv /\ CopiesCounted
=============================================================================
