---------------------------- MODULE SeshatHandles ---------------------------
(***************************************************************************)
(* The boundary between Kotlin and Rust.  A Kotlin object holds the address *)
(* of a boxed Rust value; native functions turn the address into a Box and  *)
(* either leak it again or consume it; finalizers free what is left.        *)
(*                                                                         *)
(* Clients are modelled as the Kotlin API has to be used: one thread at a   *)
(* time calls the methods of a database, the next one once the last answer  *)
(* is there, and the objects that are passed to a method stay reachable     *)
(* until it answers.  The object a method is called on may be dropped while *)
(* it runs, and garbage collection is free to run at any time.              *)
(***************************************************************************)
EXTENDS FiniteSets

CONSTANTS
    Threads,
    Objects    \* a Kotlin object and the box it is made for share a name

ASSUME ObjectsAssumption == "None" \notin Objects

VARIABLES
    kindOf,    \* the Kotlin class of an object, None if there is no such object
    box,       \* the memory at its address
    held,      \* objects that a client can reach
    closed,    \* databases whose state is Closed
    finalized, \* objects that were collected
    byHand,    \* objects of the data classes that a test has finalized by hand
    call,      \* the call a thread is in
    aborted    \* a Rust panic reached the border: the process is gone

vars == <<kindOf, box, held, closed, finalized, byHand, call, aborted>>

None == "None"

\* Data is any of Event, Profile, CrawlerCheckpoint, SearchConfig, SearchBatch,
\* SearchResult, DatabaseStats, RecoveryInfo; Config is DatabaseConfig.
Kinds == {"Database", "Recovery", "Config", "Data"}

-----------------------------------------------------------------------------
(* The native functions.                                                     *)

\* on: what the receiver is.  also: other addresses that are borrowed.  moves:
\* whether the box of the receiver is consumed.  fails: an error is answered, or
\* unwrapped, which panics.  gives: a new box, Borrowed if it holds a reference
\* to a profile instead of a profile.  tells: by returning, or by a callback.
Native(on) == [on |-> on, also |-> {}, moves |-> FALSE, fails |-> "never",
               gives |-> {None}, tells |-> "return"]

Unwraps(f) == [f EXCEPT !.fails = "panics"]
Answers(f) == [f EXCEPT !.fails = "answers"]
CallsBack(f) == [Unwraps(f) EXCEPT !.tells = "callback"]
Takes(f, kind) == [f EXCEPT !.also = {kind}]
Moves(f) == [f EXCEPT !.moves = TRUE]
Gives(f, kinds) == [f EXCEPT !.gives = kinds]

n_new_database == Answers(Gives(Native(None), {"Database"}))
n_new_database_with_config == Takes(n_new_database, "Config")
n_new_database_config == Gives(Native(None), {"Config"})
n_add_event == Takes(Native("Database"), "Data")
n_change_passphrase == Unwraps(Moves(Native("Database")))
n_get_size == Unwraps(Native("Database"))
n_delete == Unwraps(Moves(Native("Database")))
n_shutdown == CallsBack(Moves(Native("Database")))
n_is_empty == CallsBack(Native("Database"))
n_set_user_version == Unwraps(Native("Database"))
n_load_file_events == Unwraps(Gives(Native("Database"), {None, "Borrowed"}))
n_get_user_version == Unwraps(Native("Database"))
n_delete_event == CallsBack(Native("Database"))
n_commit_sync == Unwraps(Native("Database"))
n_commit_no_wait == CallsBack(Native("Database"))
n_is_room_indexed == Unwraps(Native("Database"))
n_add_historic_events == CallsBack(Takes(Native("Database"), "Data"))
n_load_checkpoints == Unwraps(Gives(Native("Database"), {None, "Data"}))
n_force_commit == Unwraps(Native("Database"))
n_reload == Unwraps(Native("Database"))
n_search == Answers(Takes(Gives(Native("Database"), {"Data"}), "Data"))
n_get_database_stats == Unwraps(Gives(Native("Database"), {"Data"}))

n_new_recovery_database == Answers(Gives(Native(None), {"Recovery"}))
n_get_info == Gives(Native("Recovery"), {"Data"})
n_get_recovery_user_version == Unwraps(Native("Recovery"))
n_shutdown_recovery == CallsBack(Moves(Native("Recovery")))
n_reindex == Unwraps(Moves(Native("Recovery")))

n_new_event == Gives(Native(None), {"Data"})
n_event_from_json == Answers(Gives(Native(None), {"Data"}))
n_get_event == Native("Data")
n_new_checkpoint == Gives(Native(None), {"Data"})
n_get_checkpoint == Native("Data")
n_new_profile == Gives(Native(None), {"Data"})
n_recovery_info_get == Native("Data")
n_database_stats_get == Native("Data")
n_search_batch_get == Native("Data")
n_search_batch_get_results == Gives(Native("Data"), {None, "Data"})
n_search_result_get == Native("Data")
n_search_result_get_profile_info == Gives(Native("Data"), {None, "Borrowed"})
n_new_search_config == Gives(Native(None), {"Data"})
n_search_config_set_next_batch == Unwraps(n_new_search_config)

-----------------------------------------------------------------------------
(* The Kotlin methods: when they mark the object as closed, and whether it   *)
(* is reachable as long as the native function runs.                         *)

Method(f, marks, keeps) ==
    [on |-> f.on, also |-> f.also, moves |-> f.moves, fails |-> f.fails, gives |-> f.gives,
     tells |-> f.tells, marks |-> marks, keeps |-> keeps]

\* The native functions of Database and of most data classes are methods: the
\* object is an argument of the call.
Instance(f) == Method(f, "never", TRUE)

\* The ones of RecoveryDatabase and CrawlerCheckpoint and the constructors are
\* static: they have the address, and nothing keeps the object reachable.
Static(f) == Method(f, "never", FALSE)

\* Mutant: a method that hands its database over leaves it open.
ShutdownLeftOpen == Instance(n_shutdown)

ChangePassphrase == Method(n_change_passphrase, "before", TRUE)
Delete == Method(n_delete, "before", TRUE)

Shutdown == Method(n_shutdown, "after", TRUE)

\* The callback, and the code after n_reindex, refer to the object.
ShutdownRecovery == Method(n_shutdown_recovery, "after", TRUE)
Reindex == Method(n_reindex, "after", TRUE)

\* A search config for certain keys: n_search_config_set_with_key has no native
\* counterpart, the constructor throws and nobody knows the box any more.
SearchConfigWithKeys == Static(Gives(n_new_search_config, {"Lost"}))

Methods ==
    {ChangePassphrase, Delete, Shutdown, ShutdownRecovery, Reindex, SearchConfigWithKeys}
    \cup {Instance(f) : f \in
            {n_add_event, n_get_size, n_is_empty, n_set_user_version, n_load_file_events,
             n_get_user_version, n_delete_event, n_commit_sync, n_commit_no_wait,
             n_is_room_indexed, n_add_historic_events, n_load_checkpoints, n_force_commit,
             n_reload, n_search, n_get_database_stats, n_get_event, n_recovery_info_get,
             n_database_stats_get, n_search_batch_get, n_search_batch_get_results,
             n_search_result_get, n_search_result_get_profile_info}}
    \cup {Static(f) : f \in
            {n_new_database, n_new_database_with_config, n_new_database_config,
             n_new_recovery_database, n_get_info, n_get_recovery_user_version, n_new_event,
             n_event_from_json, n_new_checkpoint, n_get_checkpoint, n_new_profile,
             n_new_search_config, n_search_config_set_next_batch}}

-----------------------------------------------------------------------------
(* Calls.                                                                    *)

Idle == [phase |-> "idle"]

Active(t) == call[t].phase # "idle"

\* Not answered yet.
Running(t) == call[t].phase \in {"entered", "worked"}

Databases == {o \in Objects : kindOf[o] \in {"Database", "Recovery"}}

Busy(o) == \E t \in Threads : Running(t) /\ call[t].self = o

\* Box::from_raw and the end of its scope: a box is freed once, a second time
\* corrupts the heap.  A reference in a box is no value of the type it is freed as.
Freed(memory) ==
    CASE memory = "alive" -> "freed"
      [] memory = "borrowed" -> "borrowed"
      [] OTHER -> "corrupt"

\* Mutant: a method forgets throwIfClosed.
OpenUnchecked(o) == TRUE

\* throwIfClosed.
Open(o) == o \notin closed

\* throwIfClosed, markDatabaseAsClosed if it comes first, and the native function
\* is entered.
Begin(t, m, self, args) ==
    /\ ~aborted /\ ~Active(t)
    /\ Open(self)
    /\ self \in Databases => ~Busy(self)
    /\ call' = [call EXCEPT ![t] = [phase |-> "entered", method |-> m, self |-> self,
                                    args |-> args, given |-> None]]
    /\ closed' = IF m.marks = "before" THEN closed \cup {self} ELSE closed
    /\ UNCHANGED <<kindOf, box, held, finalized, byHand, aborted>>

\* The native function does its work; a consumed box is freed with it.
Work(t, given, kind) ==
    LET m == call[t].method
        new == CASE kind = "Borrowed" -> "borrowed"
                 [] kind = "Lost" -> "lost"
                 [] OTHER -> "alive" IN
    /\ ~aborted /\ call[t].phase = "entered"
    /\ kind \in m.gives
    /\ IF kind = None THEN given = None ELSE given \in Objects /\ box[given] = None
    /\ box' = [o \in Objects |->
                 IF o = given THEN new
                 ELSE IF m.moves /\ o = call[t].self THEN Freed(box[o]) ELSE box[o]]
    /\ call' = [call EXCEPT ![t].phase = "worked", ![t].given = given, ![t].method.gives = {kind}]
    /\ UNCHANGED <<kindOf, held, closed, finalized, byHand, aborted>>

\* It fails: the error is set in the result object or unwrapped.  The callbacks
\* are looked up as onError(I)V, which the Kotlin interface does not have.
Fail(t) ==
    /\ ~aborted /\ call[t].phase = "entered"
    /\ \/ /\ call[t].method.fails = "answers"
          /\ call' = [call EXCEPT ![t].phase = "worked", ![t].method.gives = {None}]
          /\ UNCHANGED aborted
       \/ /\ call[t].method.fails = "panics"
          /\ aborted' = TRUE
          /\ UNCHANGED call
    /\ UNCHANGED <<kindOf, box, held, closed, finalized, byHand>>

\* onResult: the client goes on while the native function has yet to leak its box.
Callback(t) ==
    /\ ~aborted /\ call[t].phase = "worked" /\ call[t].method.tells = "callback"
    /\ call' = [call EXCEPT ![t].phase = "answered"]
    /\ closed' = IF call[t].method.marks = "after" THEN closed \cup {call[t].self} ELSE closed
    /\ UNCHANGED <<kindOf, box, held, finalized, byHand, aborted>>

\* A new Kotlin object is made for the address; a Borrowed one becomes a Profile.
Wrapped(kind) == IF kind = "Borrowed" THEN "Data" ELSE kind

Return(t) ==
    LET m == call[t].method  given == call[t].given IN
    /\ ~aborted /\ Active(t)
    /\ call[t].phase = IF m.tells = "callback" THEN "answered" ELSE "worked"
    /\ call' = [call EXCEPT ![t] = Idle]
    /\ IF given = None \/ "Lost" \in m.gives THEN UNCHANGED <<kindOf, held>>
       ELSE \E kind \in m.gives :
              /\ kindOf' = [kindOf EXCEPT ![given] = Wrapped(kind)]
              /\ held' = held \cup {given}
    /\ closed' = IF m.tells = "return" /\ m.marks = "after" THEN closed \cup {call[t].self}
                 ELSE closed
    /\ UNCHANGED <<box, finalized, byHand, aborted>>

Passed(o) == \E t \in Threads : Running(t) /\ o \in call[t].args

\* A client forgets an object: not one that it has passed to a running call.
Forget(o) ==
    /\ ~aborted /\ o \in held /\ ~Passed(o)
    /\ held' = held \ {o}
    /\ UNCHANGED <<kindOf, box, closed, finalized, byHand, call, aborted>>

\* Mutant: a closed database is freed again.
FreesClosed(o) == kindOf[o] # "Config"

\* finalize: n_free_database only if the state is not Closed; the n_free of a
\* DatabaseConfig does not exist.
Frees(o) == kindOf[o] # "Config" /\ (o \in Databases => o \notin closed)

Unreachable(o) ==
    /\ o \notin held
    /\ \A t \in Threads : Active(t) /\ call[t].self = o => ~call[t].method.keeps

RunFinalizer(o) ==
    /\ box' = IF Frees(o) THEN [box EXCEPT ![o] = Freed(@)] ELSE box
    /\ closed' = IF o \in Databases THEN closed \cup {o} ELSE closed
    /\ UNCHANGED <<kindOf, held, call, aborted>>

\* The garbage collector collects an object, once.
Finalize(o) ==
    /\ ~aborted
    /\ kindOf[o] # None /\ Unreachable(o) /\ o \notin finalized
    /\ RunFinalizer(o)
    /\ finalized' = finalized \cup {o}
    /\ UNCHANGED byHand

\* testFinalize: a test runs the finalizer of an object it holds, any number of
\* times; the collector runs it once more.  Only databases look whether they are
\* closed.
FinalizeByHand(o) ==
    /\ ~aborted
    /\ o \in held /\ kindOf[o] # "Config" /\ ~Busy(o) /\ ~Passed(o)
    /\ RunFinalizer(o)
    /\ byHand' = IF kindOf[o] = "Data" THEN byHand \cup {o} ELSE byHand
    /\ UNCHANGED finalized

-----------------------------------------------------------------------------
Init ==
    /\ kindOf = [o \in Objects |-> None]
    /\ box = [o \in Objects |-> None]
    /\ held = {}
    /\ closed = {}
    /\ finalized = {}
    /\ byHand = {}
    /\ call = [t \in Threads |-> Idle]
    /\ aborted = FALSE

\* The receiver and the other arguments of a method, of the right classes.
Receivers(m) == IF m.on = None THEN {None} ELSE {o \in held : kindOf[o] = m.on}

Arguments(m) == {args \in SUBSET held :
                   /\ \A o \in args : kindOf[o] \in m.also
                   /\ \A kind \in m.also : \E o \in args : kindOf[o] = kind}

BeginSome(t) ==
    \E m \in Methods : \E self \in Receivers(m), args \in Arguments(m) : Begin(t, m, self, args)

Calls(t) ==
    \/ BeginSome(t)
    \/ \E given \in Objects \cup {None}, kind \in Kinds \cup {None, "Borrowed", "Lost"} :
          Work(t, given, kind)
    \/ Fail(t) \/ Callback(t) \/ Return(t)

Next ==
    \/ \E t \in Threads : Calls(t)
    \/ \E o \in Objects : Forget(o) \/ Finalize(o) \/ FinalizeByHand(o)

Spec == Init /\ [][Next]_vars

-----------------------------------------------------------------------------
(* Properties.                                                               *)

TypeOK ==
    /\ kindOf \in [Objects -> Kinds \cup {None}]
    /\ box \in [Objects -> {None, "alive", "borrowed", "lost", "freed", "corrupt"}]
    /\ held \subseteq {o \in Objects : kindOf[o] # None}
    /\ closed \subseteq Databases
    /\ finalized \subseteq Objects \ held
    /\ byHand \subseteq {o \in Objects : kindOf[o] = "Data"}
    /\ \A t \in Threads : Active(t) => call[t].self \in Objects \cup {None}
    /\ aborted \in BOOLEAN

\* What a call that has been entered works on, as far as something keeps it there:
\* not the receiver of a static method that its client has dropped.
Kept(c) == {o \in ({c.self} \ {None}) \cup c.args : c.method.keeps \/ o \in held}

\* No native function works on a box that is freed, and no box is freed twice:
\* neither by two calls, nor by a call and the finalizer, nor by a finalizer that
\* runs again ("Shouldn't crash on 'double free'", DatabaseTest, for databases).
\* The code does not keep this for all objects, and these are left out (README, Known
\* gaps): the receiver of a static method (a getter of CrawlerCheckpoint, getInfo and
\* getUserVersion of RecoveryDatabase) that nobody holds any more; what a test has
\* finalized by hand, other than a database; and a box with a reference to a
\* profile, which is never a Profile, whatever is done with it.
NoUseAfterFree ==
    /\ \A o \in Objects \ byHand : box[o] # "corrupt"
    /\ \A t \in Threads :
          call[t].phase = "entered" =>
              \A o \in Kept(call[t]) \ byHand : box[o] \in {"alive", "borrowed"}

\* Nobody else will free the box of this object.
Owns(o) == kindOf[o] # None /\ o \notin closed /\ o \notin finalized /\ o \notin byHand

\* The thread has the only address of the box: it is about to consume it, or has
\* made it and not yet returned.
Carries(t, o) ==
    \/ Running(t) /\ call[t].given = o
    \/ call[t].phase = "entered" /\ call[t].method.moves /\ call[t].self = o /\ o \in closed

\* A box that is still there has one owner, an open object or a call that is under
\* way, so it is freed some day; and an object that is open and not in a call has
\* its box: "After moved pointer, it should close the database" (Database.kt).
\* A DatabaseConfig is never freed, and the search config of SearchConfigWithKeys is lost.
OneOwner ==
    \A o \in Objects :
        LET owners == {t \in Threads : Carries(t, o)} IN
        /\ box[o] = "alive" /\ kindOf[o] # "Config" =>
              IF Owns(o) THEN owners = {} ELSE Cardinality(owners) = 1
        /\ Owns(o) /\ ~Busy(o) => box[o] \in {"alive", "borrowed"}

-----------------------------------------------------------------------------
(* The inductive invariant behind them.                                    *)

Results == Kinds \cup {None, "Borrowed", "Lost"}

MethodTypes ==
    [on : Kinds \cup {None}, also : SUBSET {"Config", "Data"}, moves : BOOLEAN,
     fails : {"never", "panics", "answers"}, gives : SUBSET Results,
     tells : {"return", "callback"}, marks : {"never", "before", "after"}, keeps : BOOLEAN]

ActiveCalls ==
    [phase : {"entered", "worked", "answered"}, method : MethodTypes,
     self : Objects \cup {None}, args : SUBSET Objects, given : Objects \cup {None}]

\* Only databases are consumed, by methods that keep the object reachable and mark
\* it as closed, before or after; what is told by a callback gives no box.
MethodSound(m) ==
    /\ m.moves => m.on \in {"Database", "Recovery"} /\ m.keeps /\ m.fails # "answers"
    /\ m.moves <=> m.marks # "never"
    /\ m.tells = "callback" => m.gives = {None}
    /\ "Lost" \in m.gives => m.gives = {"Lost"}

\* The box a call is about to return, of the kind it answers.
GivenSound(c) ==
    IF c.given = None THEN c.phase # "entered" => c.method.gives = {None}
    ELSE /\ c.phase # "entered"
         /\ c.method.gives # {None}
         /\ kindOf[c.given] = None
         /\ box[c.given] \in IF "Lost" \in c.method.gives THEN {"lost"} ELSE {"alive", "borrowed"}

\* The arguments of a call stay reachable, and a database it consumes is closed in
\* time; only under a static method is a database closed, by its finalizer.
CallSound(c) ==
    /\ MethodSound(c.method)
    /\ c.phase # "entered" => \E kind \in Results : c.method.gives = {kind}
    /\ c.phase = "answered" => c.method.tells = "callback"
    /\ IF c.method.on = None THEN c.self = None
       ELSE c.self \in Objects /\ kindOf[c.self] = c.method.on
    /\ c.phase # "answered" =>
          /\ c.args \subseteq held
          /\ \A o \in c.args : kindOf[o] \in c.method.also
    /\ c.phase = "entered" /\ c.self \in closed => c.method.moves \/ ~c.method.keeps
    /\ c.phase # "entered" /\ c.method.moves => box[c.self] # "alive"
    /\ c.method.moves /\ (c.method.marks = "before" \/ c.phase = "answered") => c.self \in closed
    /\ GivenSound(c)

CallsSound == \A t \in Threads : Active(t) => CallSound(call[t])

\* One call at a time works on a database, and one call makes a box.
CallsApart ==
    \A t, u \in Threads :
        /\ Running(t) /\ Running(u) /\ call[t].self = call[u].self /\ call[t].self \in Databases
           => t = u
        /\ Active(t) /\ Active(u) /\ call[t].given = call[u].given /\ call[t].given # None
           => t = u

\* A call has consumed the box and not yet closed the object.
Consumed(o) == \E t \in Threads :
    call[t].phase = "worked" /\ call[t].self = o /\ call[t].method.moves

BoxesSound ==
    \A o \in Objects :
        /\ box[o] = None => kindOf[o] = None
        /\ o \in finalized => kindOf[o] # None
        /\ Owns(o) /\ ~Consumed(o) => box[o] \in {"alive", "borrowed"}
        /\ box[o] = "alive" /\ kindOf[o] # "Config" /\ ~Owns(o)
           => \E t \in Threads : Carries(t, o)

HandlesInv ==
    /\ TypeOK
    /\ call \in [Threads -> {Idle} \cup ActiveCalls]
    /\ CallsSound
    /\ CallsApart
    /\ BoxesSound
    /\ NoUseAfterFree
=============================================================================
