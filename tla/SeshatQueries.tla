---------------------------- MODULE SeshatQueries ---------------------------
(***************************************************************************)
(* What a read connection answers while the writer thread changes the      *)
(* tables between its statements: the files of a room page by page, the    *)
(* events around a search result, whether the database or a room is empty. *)
(***************************************************************************)
EXTENDS SeshatEvents, FiniteSets, SequencesExt

CONSTANTS
    EventIds,
    Kinds,        \* pairs of an event type and a msgtype
    Rooms,
    Times,        \* server timestamps
    MatrixEvents, \* ids of the events whose source is the homeserver's
    Tokens,       \* tokens of crawler checkpoints
    Limit,        \* the limit of a LoadConfig
    MaxContext,   \* bound of the model: the limits of a context
    MaxWrites     \* bound of the model: transactions of the writer

ASSUME EventIdsAssumption == IsFiniteSet(EventIds) /\ MatrixEvents \subseteq EventIds
ASSUME KindsAssumption == Kinds \subseteq EventTypes \X MsgTypes
ASSUME TimesAssumption == Times \subseteq Nat
ASSUME LimitAssumption == Limit \in Nat \ {0}
ASSUME BoundsAssumption == MaxContext \in Nat /\ MaxWrites \in Nat

VARIABLES
    eventOf,      \* the events: of an id there is only one
    events,       \* the table events
    rooms,        \* the table rooms
    checkpoints,  \* the table crawlercheckpoints
    writes,
    paging,       \* a client that pages through the files of a room
    asking        \* a client that asks is_empty or is_room_indexed

tables == <<eventOf, events, rooms, checkpoints>>
vars == <<tables, writes, paging, asking>>

-----------------------------------------------------------------------------
(* The queries.                                                              *)

Event(id, room, ts, kind) ==
    [event_type |-> kind[1], content_value |-> id, msgtype |-> kind[2], event_id |-> id,
     sender |-> Sender, server_ts |-> ts, room_id |-> room]

\* The source column.
Source(id) ==
    IF id \in MatrixEvents THEN MatrixJson(eventOf[id]) ELSE EventToJson(eventOf[id])

Room(id) == eventOf[id].room_id
Time(id) == eventOf[id].server_ts

InRoom(room) == {id \in events : Room(id) = room}

Backwards == "backwards"
Forwards == "forwards"

\* ORDER BY server_ts, DESC or ASC
Ordered(i, j, direction) ==
    IF direction = Backwards THEN Time(i) >= Time(j) ELSE Time(i) <= Time(j)

\* Mutant: OFFSET instead of LIMIT, the first row is left out.
SelectedLate(ids, direction, limit) ==
    {s \in SetToAllKPermutations(ids) :
        /\ Len(s) = (IF Cardinality(ids) <= limit THEN Cardinality(ids) ELSE limit)
        /\ \A i \in 1 .. Len(s) : \A j \in 1 .. i : Ordered(s[j], s[i], direction)
        /\ \A i \in 1 .. Len(s) : \E id \in ids : Ordered(id, s[i], direction)}

\* The results of a query for ids: in this order, ties as SQLite likes, and not
\* more than the limit.
Selected(ids, direction, limit) ==
    {s \in SetToAllKPermutations(ids) :
        /\ Len(s) = (IF Cardinality(ids) <= limit THEN Cardinality(ids) ELSE limit)
        /\ \A i \in 1 .. Len(s) : \A j \in 1 .. i : Ordered(s[j], s[i], direction)
        /\ \A i \in 1 .. Len(s), id \in ids \ ToSet(s) : Ordered(s[i], id, direction)}

\* Mutant: the event to continue from is not left out.
FromTime(id, direction) == {j \in events : Ordered(id, j, direction)}

\* event_id != ?2 and server_ts <= or >= ?3
Beyond(id, direction) == {j \in events : j # id /\ Ordered(id, j, direction)}

\* Events that contain the URL of a file.
Files(room) ==
    {id \in InRoom(room) :
        eventOf[id].event_type = "Message" /\ eventOf[id].msgtype \in FileEventTypes}

\* load_file_events with from_event, which load_event finds by id and room
LoadFileEvents(room, from, direction) ==
    Selected(Files(room) \cap Beyond(from, direction), direction, Limit)

\* ... and without: the newest files.
LoadNewestFiles(room) == Selected(Files(room), Backwards, Limit)

\* load_event_context: before_limit only says whether there is a context before
\* the event, its length is after_limit.
ContextBefore(id, beforeLimit, afterLimit) ==
    IF beforeLimit = 0 THEN {<<>>}
    ELSE Selected(InRoom(Room(id)) \cap Beyond(id, Backwards), Backwards, afterLimit)

ContextAfter(id, afterLimit) ==
    IF afterLimit = 0 THEN {<<>>}
    ELSE Selected(InRoom(Room(id)) \cap Beyond(id, Forwards), Forwards, afterLimit)

-----------------------------------------------------------------------------
(* The writer: one transaction at a time (SeshatStore has its steps).        *)

\* What is_empty and is_room_indexed ask: the events and the checkpoints of
\* every room or of one.
Everything == "everything"
Questions == Rooms \cup {Everything}

EventsAsked(question) == IF question = Everything THEN events ELSE InRoom(question)

CheckpointsAsked(question) ==
    IF question = Everything THEN checkpoints
    ELSE {c \in checkpoints : c.room_id = question}

\* Whether there is anything to ask about: events, or a checkpoint alone.
Anything(question) == EventsAsked(question) # {} \/ CheckpointsAsked(question) # {}

\* What is left of the events that were there when the client asked, and whether
\* there was anything since, right after this step.
Watch ==
    \E question \in {asking.question} :
        asking' = IF asking.state # "asked" THEN asking
                  ELSE [asking EXCEPT
                          !.kept = @ \cap EventsAsked(question)',
                          !.found = @ \/ Anything(question)']

Write ==
    /\ writes < MaxWrites
    /\ writes' = writes + 1
    /\ UNCHANGED eventOf
    /\ Watch

\* Mutant: save_event does not insert the room.
NoRooms(ids) == {}

\* get_room_id inserts the room of an event that is saved.
RoomsOf(ids) == {Room(id) : id \in ids}

\* add_event and a commit of the queue.
SaveEvent(id) ==
    /\ id \notin events
    /\ events' = events \cup {id}
    /\ rooms' = rooms \cup RoomsOf({id})
    /\ UNCHANGED <<checkpoints, paging>>
    /\ Write

\* add_historic_events: events and the move of a checkpoint; a checkpoint that
\* replaces itself is inserted and then deleted.
SavePage(ids, new, old) ==
    /\ ids \cup new \cup old # {}
    /\ events' = events \cup ids
    /\ rooms' = rooms \cup RoomsOf(ids)
    /\ checkpoints' = (checkpoints \cup new) \ old
    /\ UNCHANGED paging
    /\ Write

\* delete_event
DeleteEvent(id) ==
    /\ id \in events
    /\ events' = events \ {id}
    /\ paging' = [paging EXCEPT !.expected = @ \ {id}]
    /\ UNCHANGED <<rooms, checkpoints>>
    /\ Write

-----------------------------------------------------------------------------
(* The client that pages through the files of a room.                        *)

NoPaging == [state |-> "none", newest |-> FALSE, direction |-> Backwards, room |-> None, last |-> None,
             seen |-> {}, twice |-> FALSE, expected |-> {}]

\* A page: paging goes on from its last event, and ends when it is empty.
TakePage(page) ==
    paging' = IF page = <<>> THEN [paging EXCEPT !.state = "end"]
              ELSE [paging EXCEPT !.last = Last(page),
                                  !.seen = @ \cup ToSet(page),
                                  !.twice = @ \/ paging.seen \cap ToSet(page) # {}]

\* Without from_event the first page has the newest files, whatever the direction;
\* the next pages go on from its last file in the direction of the client's.
FirstPage(room, direction) ==
    /\ paging.state = "none" /\ asking.state = "none"
    /\ rooms' = rooms \cup {room}
    /\ \E page \in LoadNewestFiles(room) :
          paging' = [NoPaging EXCEPT
                       !.state = IF page = <<>> THEN "end" ELSE "pages",
                       !.newest = TRUE,
                       !.direction = direction,
                       !.room = room,
                       !.last = IF page = <<>> THEN None ELSE Last(page),
                       !.seen = ToSet(page),
                       !.expected = Files(room)]
    /\ UNCHANGED <<eventOf, events, checkpoints, writes, asking>>

\* With from_event it continues from any event of the client's choice.
FirstFrom(id, direction) ==
    /\ paging.state = "none" /\ asking.state = "none"
    /\ id \in events
    /\ paging' = [NoPaging EXCEPT
                    !.state = "pages",
                    !.direction = direction,
                    !.room = Room(id),
                    !.last = id,
                    !.expected = Files(Room(id)) \cap Beyond(id, direction)]
    /\ UNCHANGED <<tables, writes, asking>>

NextPage ==
    /\ paging.state = "pages"
    /\ paging.last \in events
    /\ \E page \in LoadFileEvents(paging.room, paging.last, paging.direction) : TakePage(page)
    /\ UNCHANGED <<tables, writes, asking>>

\* The event to continue from is gone: load_event returns no row.
NextPageFails ==
    /\ paging.state = "pages"
    /\ paging.last \notin events
    /\ paging' = [paging EXCEPT !.state = "failed"]
    /\ UNCHANGED <<tables, writes, asking>>

EndPaging ==
    /\ paging.state \in {"end", "failed"}
    /\ paging' = NoPaging
    /\ UNCHANGED <<tables, writes, asking>>

-----------------------------------------------------------------------------
(* The client that asks is_empty or is_room_indexed: two statements.         *)

NotAsking == [state |-> "none", question |-> Everything, events |-> FALSE, answer |-> FALSE,
              kept |-> {}, found |-> FALSE]

\* SELECT COUNT(*) FROM events; get_room_id inserts the room first.
CountEvents(question) ==
    /\ asking.state = "none" /\ paging.state = "none"
    /\ rooms' = rooms \cup ({question} \ {Everything})
    /\ asking' = [NotAsking EXCEPT
                    !.state = "asked",
                    !.question = question,
                    !.events = (EventsAsked(question) # {}),
                    !.kept = EventsAsked(question),
                    !.found = Anything(question)]
    /\ UNCHANGED <<eventOf, events, checkpoints, writes, paging>>

\* Mutant: a room counts as indexed only if it has both.
AnswerBoth(someEvents, someCheckpoints) == someEvents /\ someCheckpoints

\* event_count != 0 || checkpoint_count != 0; is_empty tells the negation.
Answer(someEvents, someCheckpoints) == someEvents \/ someCheckpoints

\* SELECT COUNT(*) FROM crawlercheckpoints
CountCheckpoints ==
    /\ asking.state = "asked"
    /\ asking' = [asking EXCEPT
                    !.state = "told",
                    !.answer = Answer(asking.events, CheckpointsAsked(asking.question) # {})]
    /\ UNCHANGED <<tables, writes, paging>>

EndAsking ==
    /\ asking.state = "told"
    /\ asking' = NotAsking
    /\ UNCHANGED <<tables, writes, paging>>

-----------------------------------------------------------------------------
Checkpoints == [room_id : Rooms, token : Tokens]

AtMostOne(S) == {{}} \cup {{x} : x \in S}

Init ==
    /\ \E of \in [EventIds -> Rooms \X Times \X Kinds] :
          eventOf = [id \in EventIds |-> Event(id, of[id][1], of[id][2], of[id][3])]
    /\ events \in SUBSET EventIds
    /\ rooms = RoomsOf(events)
    /\ checkpoints \in AtMostOne(Checkpoints)
    /\ writes = 0
    /\ paging = NoPaging
    /\ asking = NotAsking

Writing ==
    \/ \E id \in EventIds : SaveEvent(id) \/ DeleteEvent(id)
    \/ \E ids \in AtMostOne(EventIds), new, old \in AtMostOne(Checkpoints) :
          SavePage(ids, new, old)

Paging ==
    \/ \E direction \in {Backwards, Forwards} :
          \/ \E room \in Rooms : FirstPage(room, direction)
          \/ \E id \in EventIds : FirstFrom(id, direction)
    \/ NextPage \/ NextPageFails \/ EndPaging

Asking == (\E question \in Questions : CountEvents(question)) \/ CountCheckpoints \/ EndAsking

Next == Writing \/ Paging \/ Asking

Spec == Init /\ [][Next]_vars

-----------------------------------------------------------------------------
(* Properties.                                                               *)

StoredEvents ==
    [event_type : EventTypes, content_value : EventIds, msgtype : MsgTypes,
     event_id : EventIds, sender : {Sender}, server_ts : Times, room_id : Rooms]

Pagings ==
    [state : {"none", "pages", "end", "failed"}, newest : BOOLEAN, direction : {Backwards, Forwards},
     room : Rooms \cup {None}, last : EventIds \cup {None}, seen : SUBSET EventIds,
     twice : BOOLEAN, expected : SUBSET EventIds]

Askings ==
    [state : {"none", "asked", "told"}, question : Questions, events : BOOLEAN,
     answer : BOOLEAN, kept : SUBSET EventIds, found : BOOLEAN]

TypeOK ==
    /\ eventOf \in [EventIds -> StoredEvents]
    /\ events \subseteq EventIds
    /\ rooms \subseteq Rooms
    /\ checkpoints \subseteq Checkpoints
    /\ paging \in Pagings
    /\ asking \in Askings

DistinctTimes == \A i, j \in paging.seen : Time(i) = Time(j) => i = j

\* A client that begins with the newest files and asks for the next pages
\* Forwards, which is the default of the bindings (fromEvent = null, direction =
\* Forwards), turns around: it is shown files again and never an older one.
TurnsAround == paging.newest /\ paging.direction = Forwards

\* Unless a client turns around, paging through the files of a room ends with
\* every file that was there from the first page to the last, and shows none
\* twice if no two events have the same time: whatever is stored or deleted
\* between the pages.
FilePages ==
    ~TurnsAround =>
        /\ paging.state = "end" => paging.expected \subseteq paging.seen
        /\ DistinctTimes => ~paging.twice

\* The context of an event is next to it: nothing in the room lies between, on
\* either side; and it is as long as was asked for when both limits are equal.
ContextAdjacent ==
    \A id \in events, n \in 0 .. MaxContext :
        /\ \A before \in ContextBefore(id, n, n) :
              LET all == InRoom(Room(id)) \cap Beyond(id, Backwards) IN
              /\ Len(before) = n \/ ToSet(before) = all
              /\ \A i \in ToSet(before), j \in all : Time(j) > Time(i) => j \in ToSet(before)
        /\ \A after \in ContextAfter(id, n) :
              LET all == InRoom(Room(id)) \cap Beyond(id, Forwards) IN
              /\ Len(after) = n \/ ToSet(after) = all
              /\ \A i \in ToSet(after), j \in all : Time(j) < Time(i) => j \in ToSet(after)

\* is_empty and is_room_indexed do not overlook an event that was stored before
\* the call and through the whole of it, and do not answer that there is something
\* when there was neither an event nor a checkpoint at any time of it.  This is
\* less than the comment of is_room_indexed says: a checkpoint alone is enough for
\* its TRUE.  And it says nothing of an answer FALSE while a page moves the last
\* checkpoint away and stores the first events between the two statements: there
\* was always something then.
AnswersTrue ==
    asking.state = "told" =>
        /\ asking.kept # {} => asking.answer
        /\ asking.answer => asking.found

-----------------------------------------------------------------------------
(* The inductive invariant behind FilePages and AnswersTrue.                 *)

\* The room of every stored event is in the table rooms.
RoomsKnown == {Room(id) : id \in events} \subseteq rooms

\* What a page has still to bring is stored, and beyond the event that the next
\* page continues from; what the pages brought is not.
PagesAhead ==
    paging.state = "pages" /\ ~TurnsAround =>
        /\ paging.last \in EventIds
        /\ paging.expected \subseteq Files(paging.room)
        /\ paging.expected \ paging.seen \subseteq Beyond(paging.last, paging.direction)
        /\ \A id \in paging.seen : Ordered(id, paging.last, paging.direction)
        /\ paging.seen # {} => paging.last \in paging.seen

\* Between its two statements a client has counted the events that were kept, and
\* what it counted, or what there is now, was found.
AnswerAhead ==
    asking.state = "asked" =>
        /\ asking.kept # {} => asking.events
        /\ asking.events \/ Anything(asking.question) => asking.found

QueriesInv == TypeOK /\ RoomsKnown /\ PagesAhead /\ FilePages /\ AnswerAhead /\ AnswersTrue

-----------------------------------------------------------------------------
(* What comments of the repository say and the code does not keep.           *)

\* The events that a reindex reads from the table and adds to its new index.
Reindexed ==
    {id \in events :
        eventOf[id].event_type = "Message" /\ EventFromJson(Source(id)) # Invalid}

\* recovery.rs:31: the database that is used to reindex the events.
StoredEventsReindexed == events = Reindexed
=============================================================================
