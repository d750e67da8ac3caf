--------------------------- MODULE SeshatLifecycle --------------------------
(***************************************************************************)
(* What a Seshat database promises of its events, without the way it keeps *)
(* the promise: an event is stored, can be found from some time on, and    *)
(* leaves.  Only what is durable counts, so that neither a crash nor a     *)
(* restart is a step.                                                      *)
(***************************************************************************)
CONSTANTS Events, EventIds, IdOf

VARIABLES
    stored,   \* events in the store
    found,    \* events a search may find
    owed,     \* stored events that a later session has to make findable
    leaving,  \* ids whose documents have still to be deleted
    strays,   \* events that can be found though a failed write may have lost them
    excused   \* events stored again while their id was leaving

lifecycle == <<stored, found, owed, leaving, strays, excused>>

SameId(id) == {e \in Events : IdOf[e] = id}

Leaving == {e \in Events : IdOf[e] \in leaving}

\* Events are stored, and owed at once.  Strays E that are not owed may be lost on
\* the way.
Store(S, E) ==
    /\ E \subseteq strays \ owed
    /\ stored' = (stored \ E) \cup S
    /\ owed' = owed \cup S
    /\ excused' = (excused \ E) \cup (S \cap Leaving)
    /\ UNCHANGED <<found, leaving, strays>>

\* More can be found, but nothing that is neither stored nor on its way out.
Show(S) ==
    /\ S \subseteq stored \cup Leaving \cup strays
    /\ found' = found \cup S
    /\ UNCHANGED <<stored, owed, leaving, strays, excused>>

\* An event is no longer owed once it can be found.
Settle(S) ==
    /\ S \subseteq found \cup excused
    /\ owed' = owed \ S
    /\ UNCHANGED <<stored, found, leaving, strays, excused>>

\* The events of an id are deleted from the store.
Delete(id) ==
    /\ owed \cap SameId(id) = {}
    /\ stored' = stored \ SameId(id)
    /\ leaving' = leaving \cup {id}
    /\ excused' = excused \ SameId(id)
    /\ UNCHANGED <<found, owed, strays>>

\* Their documents are deleted, and what was waiting for a commit appears.
Hide(id, S) ==
    /\ id \in leaving
    /\ S \subseteq (stored \cup Leaving \cup strays) \ SameId(id)
    /\ found' = (found \ SameId(id)) \cup S
    /\ strays' = strays \ SameId(id)
    /\ UNCHANGED <<stored, owed, leaving, excused>>

\* Ids are forgotten when nothing can be found of them that is not stored.
Forget(ids) ==
    /\ \A e \in found : IdOf[e] \in ids => e \in stored \cup strays
    /\ leaving' = leaving \ ids
    /\ UNCHANGED <<stored, found, owed, strays, excused>>

\* The save of an event fails: documents stay that may belong to nothing stored.
Stray(S) ==
    /\ strays' = strays \cup S
    /\ UNCHANGED <<stored, found, owed, leaving, excused>>

LifecycleInit ==
    /\ stored = {} /\ found = {} /\ owed = {}
    /\ leaving = {} /\ strays = {} /\ excused = {}

LifecycleNext ==
    \/ \E S, E \in SUBSET Events : Store(S, E)
    \/ \E S \in SUBSET Events : Show(S) \/ Settle(S) \/ Stray(S)
    \/ \E id \in EventIds : Delete(id) \/ \E S \in SUBSET Events : Hide(id, S)
    \/ \E ids \in SUBSET EventIds : Forget(ids)

LifecycleSpec == LifecycleInit /\ [][LifecycleNext]_lifecycle

-----------------------------------------------------------------------------
\* No stored event is lost: it can be found or it is owed, or it was stored while
\* its id was leaving.
NothingLost == stored \subseteq found \cup owed \cup excused

\* What is found and not stored will leave, or a failed save left it.
NothingHaunts == found \subseteq stored \cup Leaving \cup strays

\* A stored event whose id is leaving was stored after the deletion.
LeavingExcused == stored \cap Leaving \subseteq excused

LifecycleInv == NothingLost /\ NothingHaunts /\ LeavingExcused
=============================================================================
