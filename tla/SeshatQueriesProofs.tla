------------------------ MODULE SeshatQueriesProofs -------------------------
(***************************************************************************)
(* What SeshatQueries promises, for every table, time, limit and number of *)
(* writes between two statements.                                          *)
(***************************************************************************)
EXTENDS SeshatQueries, FiniteSetTheorems, TLAPS

-----------------------------------------------------------------------------
(* The results of a query.                                                   *)

\* A permutation of some elements of S names none twice, and all of them if it is
\* as long as S is large.
LEMMA PermutationProps ==
    ASSUME NEW S, IsFiniteSet(S), NEW q \in SetToAllKPermutations(S)
    PROVE  /\ q \in Seq(S)
           /\ ToSet(q) \subseteq S
           /\ Len(q) = Cardinality(S) => ToSet(q) = S
<1>1. PICK T \in SUBSET S :
          /\ q \in [1..Cardinality(T) -> T]
          /\ \A i, j \in 1..Cardinality(T) : i # j => q[i] # q[j]
    BY DEF SetToAllKPermutations, SetToSeqs
<1>2. IsFiniteSet(T) /\ Cardinality(T) \in Nat
    BY FS_Subset, FS_CardinalityType
<1> DEFINE n == Cardinality(T)
<1>3. q \in Seq(S) /\ Len(q) = n /\ DOMAIN q = 1..n
    BY <1>1, <1>2
<1>4. ToSet(q) \subseteq T
    BY <1>1, <1>3 DEF ToSet
<1>5. ASSUME Len(q) = Cardinality(S) PROVE ToSet(q) = S
    <2>1. T = S
        BY <1>2, <1>3, <1>5, FS_Subset
    <2>2. q \in Injection(1..n, T)
        BY <1>1 DEF Injection, IsInjective
    <2>3. IsFiniteSet(1..n) /\ Cardinality(1..n) = n
        BY <1>2, FS_Interval
    <2>4. q \in Surjection(1..n, T)
        BY <1>2, <2>2, <2>3, FS_Injection
    <2>5. T \subseteq ToSet(q)
        BY <1>3, <2>4 DEF Surjection, ToSet
    <2> QED BY <1>4, <2>1, <2>5
<1> QED BY <1>3, <1>4, <1>5

\* Rows in the order of a query are no more than its limit, all of them if the
\* limit allows, and no row that is left out comes before one that is not.
LEMMA SelectedProps ==
    ASSUME NEW ids, IsFiniteSet(ids), NEW direction, NEW limit \in Nat,
           NEW page \in Selected(ids, direction, limit)
    PROVE  /\ page \in Seq(ids)
           /\ ToSet(page) \subseteq ids
           /\ Len(page) = limit \/ ToSet(page) = ids
           /\ \A x \in ToSet(page), y \in ids \ ToSet(page) : Ordered(x, y, direction)
           /\ \A i \in 1..Len(page) : \A j \in 1..i : Ordered(page[j], page[i], direction)
<1>1. /\ page \in SetToAllKPermutations(ids)
      /\ Len(page) = (IF Cardinality(ids) <= limit THEN Cardinality(ids) ELSE limit)
      /\ \A i \in 1..Len(page) : \A j \in 1..i : Ordered(page[j], page[i], direction)
      /\ \A i \in 1..Len(page), id \in ids \ ToSet(page) : Ordered(page[i], id, direction)
    BY DEF Selected
<1>2. /\ page \in Seq(ids) /\ ToSet(page) \subseteq ids
      /\ Len(page) = Cardinality(ids) => ToSet(page) = ids
    BY <1>1, PermutationProps
<1>3. \A x \in ToSet(page) : \E i \in 1..Len(page) : x = page[i]
    BY <1>2 DEF ToSet
<1> QED BY <1>1, <1>2, <1>3

\* The last row of a page comes after its other rows and before the rows that are
\* left out; an empty page leaves none out.
LEMMA PageProps ==
    ASSUME NEW ids, IsFiniteSet(ids), NEW direction, NEW limit \in Nat \ {0},
           NEW page \in Selected(ids, direction, limit)
    PROVE  /\ page = <<>> => ids = {}
           /\ page # <<>> =>
                 /\ Last(page) \in ToSet(page)
                 /\ \A x \in ToSet(page) : Ordered(x, Last(page), direction)
                 /\ \A y \in ids \ ToSet(page) : Ordered(Last(page), y, direction)
<1>1. /\ page \in Seq(ids)
      /\ Len(page) = limit \/ ToSet(page) = ids
      /\ \A x \in ToSet(page), y \in ids \ ToSet(page) : Ordered(x, y, direction)
      /\ \A i \in 1..Len(page) : \A j \in 1..i : Ordered(page[j], page[i], direction)
    BY SelectedProps
<1>2. \A x : x \in ToSet(page) <=> \E i \in 1..Len(page) : x = page[i]
    BY <1>1 DEF ToSet
<1>3. page = <<>> => ids = {}
    BY <1>1, <1>2
<1>4. ASSUME page # <<>> PROVE Len(page) \in 1..Len(page)
    BY <1>1, <1>4
<1>5. ASSUME page # <<>> PROVE Last(page) \in ToSet(page)
    BY <1>2, <1>4, <1>5 DEF Last
<1>6. ASSUME page # <<>>, NEW x \in ToSet(page) PROVE Ordered(x, Last(page), direction)
    BY <1>1, <1>2, <1>4, <1>6 DEF Last
<1> QED BY <1>1, <1>3, <1>5, <1>6

\* The tables are finite, and so is what a query selects from them.
LEMMA FiniteTables ==
    ASSUME events \subseteq EventIds
    PROVE  \A ids : ids \subseteq events => IsFiniteSet(ids)
BY EventIdsAssumption, FS_Subset

\* The order of a query is transitive, and two ids in order both ways have one time.
LEMMA OrderProps ==
    ASSUME NEW i \in EventIds, NEW j \in EventIds, NEW k \in EventIds,
           eventOf \in [EventIds -> StoredEvents], NEW direction \in {Backwards, Forwards}
    PROVE  /\ Ordered(i, j, direction) /\ Ordered(j, k, direction) => Ordered(i, k, direction)
           /\ Ordered(i, j, direction) /\ Ordered(j, i, direction) => Time(i) = Time(j)
           /\ Time(i) \in Nat
<1>1. \A x \in EventIds : Time(x) \in Nat
    BY TimesAssumption DEF StoredEvents, Time
<1> QED BY <1>1 DEF Ordered

-----------------------------------------------------------------------------
(* The events and their context.                                             *)

\* The context of an event is as long as was asked for or all there is, and no
\* event of the room lies between it and the event.
LEMMA ContextOfOne ==
    ASSUME NEW id, NEW n \in Nat, TypeOK, NEW direction \in {Backwards, Forwards},
           NEW all, all = InRoom(Room(id)) \cap Beyond(id, direction),
           NEW context \in Selected(all, direction, n)
    PROVE  /\ Len(context) = n \/ ToSet(context) = all
           /\ \A i \in ToSet(context), j \in all :
                 ~Ordered(i, j, direction) => j \in ToSet(context)
           /\ ToSet(context) \subseteq EventIds /\ all \subseteq EventIds
<1>1. IsFiniteSet(all) /\ all \subseteq EventIds
    BY FiniteTables DEF TypeOK, Beyond
<1> QED BY <1>1, SelectedProps

-----------------------------------------------------------------------------
(* Types.                                                                    *)

\* No step changes what the events of the ids are.
LEMMA EventsStay == [Next]_vars => eventOf' = eventOf
BY DEF Next, Writing, Paging, Asking, vars, tables, SaveEvent, SavePage, DeleteEvent, Write,
       FirstPage, FirstFrom, NextPage, NextPageFails, EndPaging, CountEvents, CountCheckpoints,
       EndAsking

LEMMA InitTypes == Init => TypeOK
<1> SUFFICES ASSUME Init PROVE TypeOK
    OBVIOUS
<1>1. PICK of \in [EventIds -> Rooms \X Times \X Kinds] :
          eventOf = [id \in EventIds |-> Event(id, of[id][1], of[id][2], of[id][3])]
    BY DEF Init
<1>2. ASSUME NEW id \in EventIds
      PROVE  Event(id, of[id][1], of[id][2], of[id][3]) \in StoredEvents
    <2>1. of[id] \in Rooms \X Times \X Kinds
        OBVIOUS
    <2>2. of[id][1] \in Rooms /\ of[id][2] \in Times /\ of[id][3] \in EventTypes \X MsgTypes
        BY <2>1, KindsAssumption
    <2>3. of[id][3][1] \in EventTypes /\ of[id][3][2] \in MsgTypes
        BY <2>2
    <2> HIDE <2>1
    <2> QED BY <2>2, <2>3 DEF Event, StoredEvents
<1>3. eventOf \in [EventIds -> StoredEvents]
    BY <1>1, <1>2
<1>4. events \subseteq EventIds
    BY DEF Init
<1>5. rooms \subseteq Rooms
    <2>1. \A id \in events : Room(id) \in Rooms
        BY <1>3, <1>4 DEF Room, StoredEvents
    <2> QED BY <2>1 DEF Init, RoomsOf
<1>6. checkpoints \subseteq Checkpoints
    BY DEF Init, AtMostOne
<1>7. paging \in Pagings
    BY DEF Init, NoPaging, Pagings
<1>8. asking \in Askings
    BY DEF Init, NotAsking, Askings, Questions
<1> QED BY <1>3, <1>4, <1>5, <1>6, <1>7, <1>8 DEF TypeOK

\* What a step of the writer does to a client that asks.
LEMMA WatchProps ==
    ASSUME asking \in Askings, Watch, NEW question, question = asking.question
    PROVE  /\ asking' \in Askings
           /\ asking'.state = asking.state
           /\ asking.state # "asked" => asking' = asking
           /\ asking.state = "asked" =>
                 /\ asking'.question = question
                 /\ asking'.events = asking.events
                 /\ asking'.kept = asking.kept \cap EventsAsked(question)'
                 /\ asking'.found = (asking.found \/ Anything(question)')
<1> DEFINE some == Anything(question)'
           left == EventsAsked(question)'
<1>1. some \in BOOLEAN
    BY DEF Anything
<1>2. asking' = IF asking.state # "asked" THEN asking
                ELSE [asking EXCEPT !.kept = @ \cap left, !.found = @ \/ some]
    BY DEF Watch
<1> HIDE DEF some, left
<1>3. CASE asking.state # "asked"
    BY <1>2, <1>3
<1>4. CASE asking.state = "asked"
    <2>1. asking' = [asking EXCEPT !.kept = @ \cap left, !.found = @ \/ some]
        BY <1>2, <1>4
    <2>2. asking.kept \cap left \in SUBSET EventIds /\ (asking.found \/ some) \in BOOLEAN
        BY <1>1 DEF Askings
    <2>3. /\ asking'.state = asking.state /\ asking'.question = question
          /\ asking'.events = asking.events
          /\ asking'.kept = asking.kept \cap left
          /\ asking'.found = (asking.found \/ some)
        BY <2>1 DEF Askings
    <2>4. asking' \in Askings
        BY <2>1, <2>2 DEF Askings
    <2> QED BY <1>4, <2>3, <2>4 DEF some, left
<1> QED BY <1>3, <1>4

\* The rooms of events are known rooms.
LEMMA RoomProps ==
    ASSUME eventOf \in [EventIds -> StoredEvents], NEW ids \in SUBSET EventIds
    PROVE  RoomsOf(ids) \subseteq Rooms /\ \A id \in ids : Room(id) \in Rooms
<1>1. \A id \in EventIds : Room(id) \in Rooms
    BY DEF Room, StoredEvents
<1> QED BY <1>1 DEF RoomsOf

\* The first page and the next ones are of the room's files.
LEMMA PagesTyped ==
    ASSUME TypeOK, NEW ids, ids \subseteq events, NEW direction,
           NEW page \in Selected(ids, direction, Limit)
    PROVE  /\ ToSet(page) \subseteq ids
           /\ ToSet(page) \subseteq EventIds
           /\ page # <<>> => Last(page) \in EventIds
<1>1. IsFiniteSet(ids) /\ ids \subseteq EventIds
    BY FiniteTables DEF TypeOK
<1>2. ToSet(page) \subseteq ids
    BY <1>1, LimitAssumption, SelectedProps
<1>3. page # <<>> => Last(page) \in ToSet(page)
    BY <1>1, LimitAssumption, PageProps
<1> QED BY <1>1, <1>2, <1>3

LEMMA WritingTypes ==
    ASSUME TypeOK, RoomsKnown, Writing
    PROVE  TypeOK' /\ RoomsKnown'
<1> USE DEF TypeOK
<1>1. eventOf' = eventOf /\ asking' \in Askings
    <2>1. eventOf' = eventOf /\ Watch
        BY DEF Writing, SaveEvent, DeleteEvent, SavePage, Write
    <2> QED BY <2>1, WatchProps
<1>2. ASSUME NEW ids, ids \subseteq EventIds, events' \subseteq events \cup ids,
             rooms' = rooms \cup RoomsOf(ids)
      PROVE  events' \subseteq EventIds /\ rooms' \subseteq Rooms /\ RoomsKnown'
    <2>1. RoomsOf(ids) \subseteq Rooms
        BY <1>2, RoomProps
    <2>2. \A id \in events' : Room(id) \in rooms'
        BY <1>2 DEF RoomsKnown, RoomsOf
    <2> QED BY <1>1, <1>2, <2>1, <2>2 DEF RoomsKnown, Room
<1>3. ASSUME NEW id \in EventIds, SaveEvent(id) PROVE TypeOK' /\ RoomsKnown'
    <2>1. events' = events \cup {id} /\ rooms' = rooms \cup RoomsOf({id})
          /\ checkpoints' = checkpoints /\ paging' = paging
        BY <1>3 DEF SaveEvent
    <2>2. events' \subseteq EventIds /\ rooms' \subseteq Rooms /\ RoomsKnown'
        BY <1>2, <2>1
    <2> QED BY <1>1, <2>1, <2>2
<1>4. ASSUME NEW ids \in AtMostOne(EventIds), NEW new \in AtMostOne(Checkpoints),
             NEW old \in AtMostOne(Checkpoints), SavePage(ids, new, old)
      PROVE  TypeOK' /\ RoomsKnown'
    <2>1. events' = events \cup ids /\ rooms' = rooms \cup RoomsOf(ids)
          /\ checkpoints' = (checkpoints \cup new) \ old /\ paging' = paging
        BY <1>4 DEF SavePage
    <2>2. ids \subseteq EventIds /\ new \subseteq Checkpoints
        BY DEF AtMostOne
    <2>3. events' \subseteq EventIds /\ rooms' \subseteq Rooms /\ RoomsKnown'
        BY <1>2, <2>1, <2>2
    <2> QED BY <1>1, <2>1, <2>2, <2>3
<1>5. ASSUME NEW id \in EventIds, DeleteEvent(id) PROVE TypeOK' /\ RoomsKnown'
    <2>1. events' = events \ {id} /\ rooms' = rooms /\ checkpoints' = checkpoints
        BY <1>5 DEF DeleteEvent
    <2>2. paging' = [paging EXCEPT !.expected = @ \ {id}]
        BY <1>5 DEF DeleteEvent
    <2>3. paging' \in Pagings
        BY <2>2 DEF Pagings
    <2>4. RoomsKnown'
        BY <1>1, <2>1 DEF RoomsKnown, Room
    <2> QED BY <1>1, <2>1, <2>3, <2>4
<1> QED BY <1>3, <1>4, <1>5 DEF Writing

LEMMA PagingTypes ==
    ASSUME TypeOK, RoomsKnown, Paging
    PROVE  TypeOK' /\ RoomsKnown'
<1> USE DEF TypeOK
<1>1. eventOf' = eventOf /\ events' = events /\ checkpoints' = checkpoints /\ asking' = asking
    BY DEF Paging, FirstPage, FirstFrom, NextPage, NextPageFails, EndPaging, tables
<1>2. ASSUME rooms \subseteq rooms' PROVE RoomsKnown'
    BY <1>1, <1>2 DEF RoomsKnown, Room
<1>3. ASSUME NEW room \in Rooms, NEW direction \in {Backwards, Forwards},
             FirstPage(room, direction)
      PROVE  TypeOK' /\ RoomsKnown'
    <2>1. PICK page \in LoadNewestFiles(room) :
              paging' = [NoPaging EXCEPT
                           !.state = IF page = <<>> THEN "end" ELSE "pages",
                           !.newest = TRUE,
                           !.direction = direction,
                           !.room = room,
                           !.last = IF page = <<>> THEN None ELSE Last(page),
                           !.seen = ToSet(page),
                           !.expected = Files(room)]
        BY <1>3 DEF FirstPage
    <2>2. Files(room) \subseteq events
        BY DEF Files, InRoom
    <2>3. ToSet(page) \subseteq EventIds /\ (page # <<>> => Last(page) \in EventIds)
        BY <2>2, PagesTyped DEF LoadNewestFiles
    <2>4. paging' \in Pagings
        BY <2>1, <2>2, <2>3 DEF NoPaging, Pagings
    <2>5. rooms' = rooms \cup {room}
        BY <1>3 DEF FirstPage
    <2> QED BY <1>1, <1>2, <2>4, <2>5
<1>4. ASSUME NEW id \in EventIds, NEW direction \in {Backwards, Forwards},
             FirstFrom(id, direction)
      PROVE  TypeOK' /\ RoomsKnown'
    <2>1. Room(id) \in Rooms
        BY RoomProps
    <2>2. Files(Room(id)) \subseteq EventIds
        BY DEF Files, InRoom
    <2>3. paging' \in Pagings
        BY <1>4, <2>1, <2>2 DEF FirstFrom, NoPaging, Pagings
    <2>4. rooms' = rooms
        BY <1>4 DEF FirstFrom, tables
    <2> QED BY <1>1, <1>2, <2>3, <2>4
<1>5. ASSUME NextPage PROVE TypeOK' /\ RoomsKnown'
    <2>1. PICK page \in LoadFileEvents(paging.room, paging.last, paging.direction) : TakePage(page)
        BY <1>5 DEF NextPage
    <2>2. Files(paging.room) \cap Beyond(paging.last, paging.direction) \subseteq events
        BY DEF Beyond
    <2>3. ToSet(page) \subseteq EventIds /\ (page # <<>> => Last(page) \in EventIds)
        BY <2>2, PagesTyped DEF LoadFileEvents
    <2>4. paging' \in Pagings
        <3>1. CASE page = <<>>
            BY <2>1, <3>1 DEF TakePage, Pagings
        <3>2. CASE page # <<>>
            <4> DEFINE again == paging.seen \cap ToSet(page) # {}
            <4>1. (paging.twice \/ again) \in BOOLEAN
                BY DEF Pagings
            <4>2. paging' = [paging EXCEPT !.last = Last(page), !.seen = @ \cup ToSet(page),
                                           !.twice = @ \/ again]
                BY <2>1, <3>2 DEF TakePage
            <4> HIDE DEF again
            <4> QED BY <2>3, <3>2, <4>1, <4>2 DEF Pagings
        <3> QED BY <3>1, <3>2
    <2>5. rooms' = rooms
        BY <1>5 DEF NextPage, tables
    <2> QED BY <1>1, <1>2, <2>4, <2>5
<1>6. ASSUME NextPageFails \/ EndPaging PROVE TypeOK' /\ RoomsKnown'
    <2>1. paging' \in Pagings
        <3>1. CASE NextPageFails
            BY <3>1 DEF NextPageFails, Pagings
        <3>2. CASE EndPaging
            BY <3>2 DEF EndPaging, NoPaging, Pagings
        <3> QED BY <1>6, <3>1, <3>2
    <2>2. rooms' = rooms
        BY <1>6 DEF NextPageFails, EndPaging, tables
    <2> QED BY <1>1, <1>2, <2>1, <2>2
<1> QED BY <1>3, <1>4, <1>5, <1>6 DEF Paging

LEMMA AskingTypes ==
    ASSUME TypeOK, RoomsKnown, Asking
    PROVE  TypeOK' /\ RoomsKnown'
<1> USE DEF TypeOK
<1>1. eventOf' = eventOf /\ events' = events /\ checkpoints' = checkpoints /\ paging' = paging
    BY DEF Asking, CountEvents, CountCheckpoints, EndAsking, tables
<1>2. ASSUME rooms \subseteq rooms' PROVE RoomsKnown'
    BY <1>1, <1>2 DEF RoomsKnown, Room
<1>3. ASSUME NEW question \in Questions, CountEvents(question) PROVE TypeOK' /\ RoomsKnown'
    <2>1. rooms' = rooms \cup ({question} \ {Everything})
        BY <1>3 DEF CountEvents
    <2>2. rooms' \subseteq Rooms
        BY <2>1 DEF Questions
    <2>3. /\ Anything(question) \in BOOLEAN /\ (EventsAsked(question) # {}) \in BOOLEAN
          /\ EventsAsked(question) \in SUBSET EventIds
        BY DEF Anything, EventsAsked, InRoom
    <2>4. asking' = [NotAsking EXCEPT !.state = "asked", !.question = question,
                                      !.events = (EventsAsked(question) # {}),
                                      !.kept = EventsAsked(question),
                                      !.found = Anything(question)]
        BY <1>3 DEF CountEvents
    <2>5. asking' \in Askings
        BY <2>3, <2>4 DEF NotAsking, Askings
    <2> QED BY <1>1, <1>2, <2>1, <2>2, <2>5
<1>4. ASSUME CountCheckpoints PROVE TypeOK' /\ RoomsKnown'
    <2> DEFINE answer == Answer(asking.events, CheckpointsAsked(asking.question) # {})
    <2>1. answer \in BOOLEAN
        BY DEF Answer
    <2>2. asking' = [asking EXCEPT !.state = "told", !.answer = answer]
        BY <1>4 DEF CountCheckpoints
    <2> HIDE DEF answer
    <2>3. asking' \in Askings
        BY <2>1, <2>2 DEF Askings
    <2>4. rooms' = rooms
        BY <1>4 DEF CountCheckpoints, tables
    <2> QED BY <1>1, <1>2, <2>3, <2>4
<1>5. ASSUME EndAsking PROVE TypeOK' /\ RoomsKnown'
    <2>1. asking' \in Askings
        BY <1>5 DEF EndAsking, NotAsking, Askings, Questions
    <2>2. rooms' = rooms
        BY <1>5 DEF EndAsking, tables
    <2> QED BY <1>1, <1>2, <2>1, <2>2
<1> QED BY <1>3, <1>4, <1>5 DEF Asking

LEMMA NextTypes ==
    ASSUME TypeOK, RoomsKnown, [Next]_vars
    PROVE  TypeOK' /\ RoomsKnown'
<1>1. CASE UNCHANGED vars
    BY <1>1 DEF TypeOK, RoomsKnown, Room, vars, tables
<1> QED BY <1>1, WritingTypes, PagingTypes, AskingTypes DEF Next

-----------------------------------------------------------------------------
(* Paging through the files of a room.                                       *)

\* An event that stays in the table stays a file of its room, and stays beyond
\* the events it was beyond; the order of events does not change.
LEMMA QueriesStay ==
    ASSUME eventOf' = eventOf, NEW room, NEW from, NEW direction
    PROVE  /\ \A id \in Files(room) : id \in events' => id \in Files(room)'
           /\ \A id \in Beyond(from, direction) : id \in events' => id \in Beyond(from, direction)'
           /\ \A id \in events : Ordered(from, id, direction) => Ordered(from, id, direction)'
BY DEF Files, InRoom, Room, Beyond, Ordered, Time

LEMMA OrderStays ==
    ASSUME eventOf' = eventOf, NEW i, NEW j, NEW direction
    PROVE  Ordered(i, j, direction) => Ordered(i, j, direction)'
BY DEF Ordered, Time

\* Steps that leave the pages alone, and steps of the writer that take from the
\* table what nobody expects.
LEMMA PagesStay ==
    ASSUME PagesAhead, FilePages, eventOf' = eventOf, paging \in Pagings, paging' \in Pagings,
           paging'.state = paging.state, paging'.newest = paging.newest,
           paging'.direction = paging.direction,
           paging'.room = paging.room, paging'.last = paging.last, paging'.seen = paging.seen,
           paging'.twice = paging.twice, paging'.expected \subseteq paging.expected,
           paging'.expected \cap events \subseteq events'
    PROVE  PagesAhead' /\ FilePages'
<1>0. TurnsAround' = TurnsAround
    BY DEF TurnsAround
<1>1. ASSUME paging'.state = "pages", ~TurnsAround PROVE PagesAhead'
    <2>1. /\ paging.last \in EventIds
          /\ paging.expected \subseteq Files(paging.room)
          /\ paging.expected \ paging.seen \subseteq Beyond(paging.last, paging.direction)
          /\ \A id \in paging.seen : Ordered(id, paging.last, paging.direction)
          /\ paging.seen # {} => paging.last \in paging.seen
        BY <1>1 DEF PagesAhead
    <2>2. paging'.expected \subseteq events'
        BY <2>1 DEF Files, InRoom
    <2>3. paging'.expected \subseteq Files(paging.room)'
        BY <2>1, <2>2, QueriesStay
    <2>4. paging'.expected \ paging.seen \subseteq Beyond(paging.last, paging.direction)'
        BY <2>1, <2>2, QueriesStay
    <2>5. \A id \in paging.seen : Ordered(id, paging.last, paging.direction)'
        BY <2>1, OrderStays
    <2> QED BY <2>1, <2>3, <2>4, <2>5 DEF PagesAhead, Files, InRoom, Room, Beyond, Ordered, Time
<1>2. ASSUME paging'.state # "pages" \/ TurnsAround PROVE PagesAhead'
    BY <1>0, <1>2 DEF PagesAhead
<1>3. FilePages'
    <2>1. DistinctTimes' => DistinctTimes
        BY DEF DistinctTimes, Time
    <2> QED BY <1>0, <2>1 DEF FilePages
<1> QED BY <1>1, <1>2, <1>3

LEMMA WritingPages ==
    ASSUME TypeOK, TypeOK', PagesAhead, FilePages, Writing
    PROVE  PagesAhead' /\ FilePages'
<1>1. eventOf' = eventOf
    BY DEF Writing, SaveEvent, DeleteEvent, SavePage, Write
<1>2. paging \in Pagings /\ paging' \in Pagings
    BY DEF TypeOK
<1>3. ASSUME NEW id \in EventIds, DeleteEvent(id) PROVE PagesAhead' /\ FilePages'
    <2>1. paging' = [paging EXCEPT !.expected = @ \ {id}] /\ events' = events \ {id}
        BY <1>3 DEF DeleteEvent
    <2>2. /\ paging'.state = paging.state /\ paging'.newest = paging.newest
          /\ paging'.direction = paging.direction
          /\ paging'.room = paging.room /\ paging'.last = paging.last
          /\ paging'.seen = paging.seen /\ paging'.twice = paging.twice
          /\ paging'.expected = paging.expected \ {id}
        BY <1>2, <2>1 DEF Pagings
    <2>3. paging'.expected \cap events \subseteq events'
        BY <2>1, <2>2
    <2> QED BY <1>1, <1>2, <2>2, <2>3, PagesStay
<1>4. ASSUME paging' = paging, events \subseteq events' PROVE PagesAhead' /\ FilePages'
    BY <1>1, <1>2, <1>4, PagesStay
<1>5. ASSUME NEW id \in EventIds, SaveEvent(id) PROVE PagesAhead' /\ FilePages'
    BY <1>4, <1>5 DEF SaveEvent
<1>6. ASSUME NEW ids, NEW new, NEW old, SavePage(ids, new, old) PROVE PagesAhead' /\ FilePages'
    BY <1>4, <1>6 DEF SavePage
<1> QED BY <1>3, <1>5, <1>6 DEF Writing

\* The first page brings the newest files, and leaves only older ones to come; a
\* client that turns around is promised nothing.
LEMMA FirstPageAhead ==
    ASSUME TypeOK, TypeOK', NEW room \in Rooms, NEW direction \in {Backwards, Forwards},
           FirstPage(room, direction)
    PROVE  PagesAhead' /\ FilePages'
<1> DEFINE files == Files(room)
<1>1. PICK page \in Selected(files, Backwards, Limit) :
          paging' = [NoPaging EXCEPT
                       !.state = IF page = <<>> THEN "end" ELSE "pages",
                       !.newest = TRUE,
                       !.direction = direction,
                       !.room = room,
                       !.last = IF page = <<>> THEN None ELSE Last(page),
                       !.seen = ToSet(page),
                       !.expected = files]
    BY DEF FirstPage, LoadNewestFiles
<1>2. /\ paging'.state = (IF page = <<>> THEN "end" ELSE "pages")
      /\ paging'.newest = TRUE /\ paging'.room = room /\ paging'.direction = direction
      /\ paging'.last = (IF page = <<>> THEN None ELSE Last(page))
      /\ paging'.seen = ToSet(page) /\ paging'.expected = files /\ paging'.twice = FALSE
    BY <1>1 DEF NoPaging
<1>3. files \subseteq events
    BY DEF Files, InRoom
<1>4. ToSet(page) \subseteq EventIds /\ (page # <<>> => Last(page) \in EventIds)
    BY <1>3, PagesTyped
<1>5. IsFiniteSet(files)
    BY <1>3, FiniteTables DEF TypeOK
<1>6. /\ page = <<>> => files = {}
      /\ page # <<>> =>
            /\ Last(page) \in ToSet(page)
            /\ \A x \in ToSet(page) : Ordered(x, Last(page), Backwards)
            /\ \A y \in files \ ToSet(page) : Ordered(Last(page), y, Backwards)
    <2> HIDE DEF files
    <2> QED BY <1>5, LimitAssumption, PageProps
<1>7. eventOf' = eventOf /\ events' = events
    BY DEF FirstPage
<1>8. ASSUME page # <<>>, direction = Backwards PROVE PagesAhead'
    <2>1. files \ ToSet(page) \subseteq Beyond(Last(page), Backwards)
        BY <1>3, <1>6, <1>8 DEF Beyond
    <2> QED BY <1>2, <1>4, <1>6, <1>7, <1>8, <2>1
            DEF PagesAhead, Files, InRoom, Room, Beyond, Ordered, Time
<1>9. ASSUME page = <<>> PROVE PagesAhead'
    BY <1>2, <1>9 DEF PagesAhead
<1>10. FilePages'
    BY <1>2, <1>6 DEF FilePages
<1>11. ASSUME direction = Forwards PROVE PagesAhead'
    BY <1>2, <1>11 DEF PagesAhead, TurnsAround
<1> QED BY <1>8, <1>9, <1>10, <1>11

LEMMA FirstFromAhead ==
    ASSUME TypeOK, TypeOK', NEW id \in EventIds, NEW direction \in {Backwards, Forwards},
           FirstFrom(id, direction)
    PROVE  PagesAhead' /\ FilePages'
<1>1. /\ paging'.state = "pages" /\ paging'.room = Room(id) /\ paging'.direction = direction
      /\ paging'.last = id /\ paging'.seen = {} /\ paging'.twice = FALSE
      /\ paging'.expected = Files(Room(id)) \cap Beyond(id, direction)
    BY DEF FirstFrom, NoPaging
<1>2. eventOf' = eventOf /\ events' = events
    BY DEF FirstFrom, tables
<1>3. FilePages'
    BY <1>1 DEF FilePages
<1>4. PagesAhead'
    BY <1>1, <1>2 DEF PagesAhead, Files, InRoom, Room, Beyond, Ordered, Time
<1> QED BY <1>3, <1>4

\* The next page brings the rows that come first beyond the last one: what it does
\* not bring is beyond its own last row, and what it brings again has the time of
\* the row it continues from.
LEMMA NextPageAhead ==
    ASSUME TypeOK, TypeOK', PagesAhead, FilePages, NextPage, ~TurnsAround
    PROVE  PagesAhead' /\ FilePages'
<1> DEFINE direction == paging.direction
           last == paging.last
           ids == Files(paging.room) \cap Beyond(last, direction)
<1>1. PICK page \in Selected(ids, direction, Limit) : TakePage(page)
    BY DEF NextPage, LoadFileEvents
<1>2. /\ eventOf' = eventOf /\ events' = events
      /\ paging.state = "pages" /\ last \in EventIds
    BY DEF NextPage, tables, PagesAhead
<1>3. /\ paging \in Pagings /\ direction \in {Backwards, Forwards} /\ ids \subseteq events
      /\ eventOf \in [EventIds -> StoredEvents]
    BY DEF TypeOK, Pagings, Beyond
<1>4. /\ paging.expected \subseteq Files(paging.room)
      /\ paging.expected \ paging.seen \subseteq ids
      /\ \A id \in paging.seen : Ordered(id, last, direction)
      /\ paging.seen # {} => last \in paging.seen
    BY <1>2 DEF PagesAhead
<1>5. \A id \in ids : id # last /\ Ordered(last, id, direction)
    BY DEF Beyond
<1> HIDE DEF ids
<1>6. ToSet(page) \subseteq ids /\ ToSet(page) \subseteq EventIds /\ (page # <<>> => Last(page) \in EventIds)
    BY <1>3, PagesTyped
<1>7. /\ page = <<>> => ids = {}
      /\ page # <<>> =>
            /\ Last(page) \in ToSet(page)
            /\ \A x \in ToSet(page) : Ordered(x, Last(page), direction)
            /\ \A y \in ids \ ToSet(page) : Ordered(Last(page), y, direction)
    <2>1. IsFiniteSet(ids)
        BY <1>3, FiniteTables DEF TypeOK
    <2> QED BY <2>1, LimitAssumption, PageProps
<1>8. CASE page = <<>>
    <2>1. paging' = [paging EXCEPT !.state = "end"]
        BY <1>1, <1>8 DEF TakePage
    <2>2. /\ paging'.state = "end" /\ paging'.seen = paging.seen
          /\ paging'.expected = paging.expected /\ paging'.twice = paging.twice
        BY <1>3, <2>1 DEF Pagings
    <2>3. paging.expected \subseteq paging.seen
        BY <1>4, <1>7, <1>8
    <2>4. DistinctTimes' => DistinctTimes
        BY <1>2, <2>2 DEF DistinctTimes, Time
    <2> QED BY <2>2, <2>3, <2>4 DEF PagesAhead, FilePages
<1>9. CASE page # <<>>
    <2> DEFINE again == paging.seen \cap ToSet(page) # {}
    <2>1. /\ paging'.state = "pages" /\ paging'.direction = direction
          /\ paging'.room = paging.room /\ paging'.last = Last(page)
          /\ paging'.seen = paging.seen \cup ToSet(page)
          /\ paging'.expected = paging.expected
          /\ paging'.twice = (paging.twice \/ again)
        <3>1. paging' = [paging EXCEPT !.last = Last(page), !.seen = @ \cup ToSet(page),
                                       !.twice = @ \/ again]
            BY <1>1, <1>9 DEF TakePage
        <3> HIDE DEF again
        <3> QED BY <1>2, <1>3, <3>1 DEF Pagings
    <2>2. \A id \in paging'.seen : Ordered(id, Last(page), direction)
        <3>1. ASSUME NEW id \in paging.seen PROVE Ordered(id, Last(page), direction)
            <4>1. id \in EventIds
                BY <1>3 DEF Pagings
            <4>2. Ordered(id, last, direction) /\ Ordered(last, Last(page), direction)
                BY <1>4, <1>5, <1>6, <1>7, <1>9
            <4> QED BY <1>2, <1>3, <1>6, <1>9, <4>1, <4>2, OrderProps
        <3> QED BY <1>7, <1>9, <2>1, <3>1
    <2>3. paging'.expected \ paging'.seen \subseteq Beyond(Last(page), direction)
        <3>1. paging'.expected \ paging'.seen \subseteq ids \ ToSet(page)
            BY <1>4, <2>1
        <3>2. \A y \in ids \ ToSet(page) : y \in events /\ y # Last(page)
                                           /\ Ordered(Last(page), y, direction)
            BY <1>3, <1>7, <1>9
        <3> QED BY <3>1, <3>2 DEF Beyond
    <2>4. Last(page) \in paging'.seen
        BY <1>7, <1>9, <2>1
    <2>5. PagesAhead'
        <3>1. /\ paging'.last \in EventIds
              /\ paging'.expected \subseteq Files(paging.room)
            BY <1>4, <1>6, <1>9, <2>1
        <3> HIDE DEF direction
        <3> QED BY <1>2, <2>1, <2>2, <2>3, <2>4, <3>1
                DEF PagesAhead, Files, InRoom, Room, Beyond, Ordered, Time
    <2>6. ASSUME DistinctTimes' PROVE ~paging'.twice
        <3>1. \A i, j \in paging.seen : Time(i) = Time(j) => i = j
            BY <1>2, <2>1, <2>6 DEF DistinctTimes, Time
        <3>2. ~paging.twice
            BY <3>1 DEF FilePages, DistinctTimes
        <3>3. ASSUME NEW x \in paging.seen, x \in ToSet(page) PROVE FALSE
            <4>1. x \in EventIds /\ last \in paging.seen
                BY <1>3, <1>4 DEF Pagings
            <4>2. Ordered(x, last, direction) /\ Ordered(last, x, direction) /\ x # last
                BY <1>4, <1>5, <1>6, <3>3
            <4>3. Time(x) = Time(last)
                BY <1>2, <1>3, <4>1, <4>2, OrderProps
            <4> QED BY <3>1, <4>1, <4>2, <4>3
        <3> QED BY <2>1, <3>2, <3>3
    <2>7. FilePages'
        BY <2>1, <2>6 DEF FilePages
    <2> QED BY <2>5, <2>7
<1> QED BY <1>8, <1>9

LEMMA TakePageKeeps ==
    ASSUME paging \in Pagings, NEW page, TakePage(page)
    PROVE  paging'.newest = paging.newest /\ paging'.direction = paging.direction
BY DEF TakePage, Pagings

LEMMA PagingPages ==
    ASSUME TypeOK, TypeOK', PagesAhead, FilePages, Paging
    PROVE  PagesAhead' /\ FilePages'
<1>1. ASSUME NextPageFails PROVE PagesAhead' /\ FilePages'
    <2>1. /\ paging'.state = "failed" /\ paging'.seen = paging.seen
          /\ paging'.newest = paging.newest /\ paging'.direction = paging.direction
          /\ paging'.twice = paging.twice /\ eventOf' = eventOf
        BY <1>1 DEF NextPageFails, tables, TypeOK, Pagings
    <2>2. DistinctTimes' => DistinctTimes
        BY <2>1 DEF DistinctTimes, Time
    <2> QED BY <2>1, <2>2 DEF PagesAhead, FilePages, TurnsAround
<1>2. ASSUME EndPaging PROVE PagesAhead' /\ FilePages'
    BY <1>2 DEF EndPaging, NoPaging, PagesAhead, FilePages
<1>3. ASSUME NextPage, TurnsAround PROVE PagesAhead' /\ FilePages'
    <2>1. paging'.newest = paging.newest /\ paging'.direction = paging.direction
        BY <1>3, TakePageKeeps DEF NextPage, TypeOK
    <2>2. TurnsAround'
        BY <1>3, <2>1 DEF TurnsAround
    <2> QED BY <2>2 DEF PagesAhead, FilePages
<1> QED BY <1>1, <1>2, <1>3, FirstPageAhead, FirstFromAhead, NextPageAhead DEF Paging

LEMMA NextPages ==
    ASSUME TypeOK, TypeOK', PagesAhead, FilePages, [Next]_vars
    PROVE  PagesAhead' /\ FilePages'
<1>1. ASSUME eventOf' = eventOf, events' = events, paging' = paging
      PROVE  PagesAhead' /\ FilePages'
    BY <1>1, PagesStay DEF TypeOK
<1>2. CASE Asking \/ UNCHANGED vars
    <2>1. eventOf' = eventOf /\ events' = events /\ paging' = paging
        BY <1>2 DEF Asking, CountEvents, CountCheckpoints, EndAsking, vars, tables
    <2> QED BY <1>1, <2>1
<1> QED BY <1>2, WritingPages, PagingPages DEF Next

-----------------------------------------------------------------------------
(* The two statements of is_empty and is_room_indexed.                       *)

\* Whatever a step of the writer does, events that are still kept were counted, and
\* what there is after it is found.
LEMMA WritingAnswers ==
    ASSUME TypeOK, AnswerAhead, AnswersTrue, Watch
    PROVE  AnswerAhead' /\ AnswersTrue'
<1> DEFINE question == asking.question
           some == Anything(question)'
           left == EventsAsked(question)'
<1>1. asking \in Askings
    BY DEF TypeOK
<1>2. /\ asking'.state = asking.state
      /\ asking.state # "asked" => asking' = asking
      /\ asking.state = "asked" =>
            /\ asking'.question = question
            /\ asking'.events = asking.events
            /\ asking'.kept = asking.kept \cap left
            /\ asking'.found = (asking.found \/ some)
    <2>1. PICK q : q = asking.question
        OBVIOUS
    <2> QED BY <1>1, <2>1, WatchProps
<1>3. CASE asking.state = "asked"
    <2>1. /\ asking.kept # {} => asking.events
          /\ asking.events => asking.found
        BY <1>3 DEF AnswerAhead
    <2>2. Anything(asking.question)' => asking'.found
        <3>1. some => asking'.found
            BY <1>2, <1>3
        <3> QED BY <1>2, <1>3, <3>1
    <2>3. asking'.kept # {} => asking'.events
        BY <1>2, <1>3, <2>1
    <2>4. asking'.events => asking'.found
        BY <1>2, <1>3, <2>1
    <2> QED BY <1>2, <1>3, <2>2, <2>3, <2>4 DEF AnswerAhead, AnswersTrue
<1>4. CASE asking.state # "asked"
    BY <1>2, <1>4 DEF AnswerAhead, AnswersTrue
<1> QED BY <1>3, <1>4

\* The first statement.
LEMMA CountEventsAnswers ==
    ASSUME TypeOK, NEW question \in Questions, CountEvents(question)
    PROVE  AnswerAhead' /\ AnswersTrue'
<1> DEFINE asked == EventsAsked(question)
           some == asked # {}
           truth == Anything(question)
<1>1. asking' = [NotAsking EXCEPT !.state = "asked", !.question = question,
                                  !.events = some, !.kept = asked, !.found = truth]
    BY DEF CountEvents
<1>2. some => truth
    BY DEF Anything
<1>3. /\ asking'.state = "asked" /\ asking'.question = question
      /\ asking'.events = some /\ asking'.kept = asked /\ asking'.found = truth
    <2> HIDE DEF asked, some, truth
    <2> QED BY <1>1 DEF NotAsking
<1>4. eventOf' = eventOf /\ events' = events /\ checkpoints' = checkpoints
    BY DEF CountEvents
<1>5. Anything(asking.question)' = truth
    BY <1>3, <1>4 DEF Anything, EventsAsked, CheckpointsAsked, InRoom, Room
<1>6. AnswerAhead'
    BY <1>2, <1>3, <1>5 DEF AnswerAhead
<1> QED BY <1>3, <1>6 DEF AnswersTrue

\* The second: the answer is TRUE if the first counted an event, and only if one of
\* the two found something.
LEMMA CountCheckpointsAnswers ==
    ASSUME TypeOK, AnswerAhead, CountCheckpoints
    PROVE  AnswerAhead' /\ AnswersTrue'
<1> DEFINE some == CheckpointsAsked(asking.question) # {}
           answer == asking.events \/ some
<1>1. asking' = [asking EXCEPT !.state = "told", !.answer = answer]
    BY DEF CountCheckpoints, Answer
<1>2. asking \in Askings
    BY DEF TypeOK
<1>3. /\ asking.kept # {} => asking.events
      /\ asking.events \/ Anything(asking.question) => asking.found
    BY DEF AnswerAhead, CountCheckpoints
<1>4. some => Anything(asking.question)
    BY DEF Anything
<1>5. (asking.kept # {} => answer) /\ (answer => asking.found)
    BY <1>3, <1>4
<1> HIDE DEF answer
<1>6. /\ asking'.state = "told" /\ asking'.answer = answer
      /\ asking'.kept = asking.kept /\ asking'.found = asking.found
    BY <1>1, <1>2 DEF Askings
<1> QED BY <1>5, <1>6 DEF AnswerAhead, AnswersTrue

LEMMA NextAnswers ==
    ASSUME TypeOK, AnswerAhead, AnswersTrue, [Next]_vars
    PROVE  AnswerAhead' /\ AnswersTrue'
<1>1. ASSUME Writing PROVE Watch
    BY <1>1 DEF Writing, SaveEvent, DeleteEvent, SavePage, Write
<1>2. ASSUME EndAsking PROVE AnswerAhead' /\ AnswersTrue'
    BY <1>2 DEF EndAsking, NotAsking, AnswerAhead, AnswersTrue
<1>3. CASE Paging \/ UNCHANGED vars
    <2>1. eventOf' = eventOf /\ events' = events /\ checkpoints' = checkpoints /\ asking' = asking
        BY <1>3 DEF Paging, FirstPage, FirstFrom, NextPage, NextPageFails, EndPaging, vars, tables
    <2>2. /\ Anything(asking.question)' = Anything(asking.question)
          /\ (CheckpointsAsked(asking.question) # {})' = (CheckpointsAsked(asking.question) # {})
        BY <2>1 DEF Anything, EventsAsked, CheckpointsAsked, InRoom, Room
    <2> QED BY <2>1, <2>2 DEF AnswerAhead, AnswersTrue
<1> QED BY <1>1, <1>2, <1>3, WritingAnswers, CountEventsAnswers, CountCheckpointsAnswers
        DEF Next, Asking

-----------------------------------------------------------------------------
(* The invariants.                                                           *)

\* What pages will bring, to a client that does not turn around, is stored beyond
\* the event they go on from; what they brought is not; and a client that asks
\* whether there is anything has counted the events that were there all along.
THEOREM QueriesInvariant == Spec => []QueriesInv
<1>1. Init => QueriesInv
    <2> SUFFICES ASSUME Init PROVE QueriesInv
        OBVIOUS
    <2>1. TypeOK
        BY InitTypes
    <2>2. RoomsKnown
        BY DEF Init, RoomsKnown, RoomsOf
    <2>3. paging = NoPaging /\ asking = NotAsking
        BY DEF Init
    <2>4. PagesAhead /\ FilePages
        BY <2>3 DEF NoPaging, PagesAhead, FilePages
    <2>5. AnswerAhead /\ AnswersTrue
        BY <2>3 DEF NotAsking, AnswerAhead, AnswersTrue
    <2> QED BY <2>1, <2>2, <2>4, <2>5 DEF QueriesInv
<1>2. QueriesInv /\ [Next]_vars => QueriesInv'
    BY NextTypes, NextPages, NextAnswers DEF QueriesInv
<1> QED BY <1>1, <1>2, PTL DEF Spec

\* Paging through the files of a room, with load_file_events called again from the
\* last file of each page, and not Forwards after a page of the newest files, ends with every file that was in the room throughout,
\* and shows none twice if no two files have one time, for any limit, any number of
\* files and any events saved or deleted between two pages.
THEOREM PagingFindsFiles == Spec => []FilePages
<1>1. QueriesInv => FilePages
    BY DEF QueriesInv
<1> QED BY <1>1, QueriesInvariant, PTL

\* is_empty and is_room_indexed count an event that was there through the whole
\* call, and find nothing where there was neither an event nor a checkpoint at any
\* moment of it, for any number of writes between their statements.
THEOREM AnswersAreTrue == Spec => []AnswersTrue
<1>1. QueriesInv => AnswersTrue
    BY DEF QueriesInv
<1> QED BY <1>1, QueriesInvariant, PTL

\* The context of an event in load_event_context is next to it: nothing of the room
\* lies between, however many events have one time, and for equal limits it is as
\* long as was asked for or all there is.
THEOREM ContextIsAdjacent == Spec => []ContextAdjacent
<1>1. ASSUME TypeOK PROVE ContextAdjacent
    <2>1. ASSUME NEW id \in events, NEW n \in 0..MaxContext,
                 NEW before \in ContextBefore(id, n, n)
          PROVE  LET all == InRoom(Room(id)) \cap Beyond(id, Backwards) IN
                 /\ Len(before) = n \/ ToSet(before) = all
                 /\ \A i \in ToSet(before), j \in all :
                       Time(j) > Time(i) => j \in ToSet(before)
        <3> DEFINE all == InRoom(Room(id)) \cap Beyond(id, Backwards)
        <3>1. n \in Nat
            BY BoundsAssumption
        <3>2. CASE n = 0
            <4>1. before = <<>>
                BY <3>2 DEF ContextBefore
            <4>2. Len(before) = 0 /\ ToSet(before) = {}
                BY <4>1 DEF ToSet
            <4> QED BY <3>2, <4>2
        <3>3. CASE n # 0
            <4>1. before \in Selected(all, Backwards, n)
                BY <3>3 DEF ContextBefore
            <4>2. /\ Len(before) = n \/ ToSet(before) = all
                  /\ \A i \in ToSet(before), j \in all :
                        ~Ordered(i, j, Backwards) => j \in ToSet(before)
                  /\ ToSet(before) \subseteq EventIds /\ all \subseteq EventIds
                BY <1>1, <3>1, <4>1, ContextOfOne
            <4>3. \A i \in EventIds : Time(i) \in Nat
                BY <1>1, OrderProps DEF TypeOK
            <4> QED BY <4>2, <4>3 DEF Ordered
        <3> QED BY <3>2, <3>3
    <2>2. ASSUME NEW id \in events, NEW n \in 0..MaxContext,
                 NEW after \in ContextAfter(id, n)
          PROVE  LET all == InRoom(Room(id)) \cap Beyond(id, Forwards) IN
                 /\ Len(after) = n \/ ToSet(after) = all
                 /\ \A i \in ToSet(after), j \in all :
                       Time(j) < Time(i) => j \in ToSet(after)
        <3> DEFINE all == InRoom(Room(id)) \cap Beyond(id, Forwards)
        <3>1. n \in Nat
            BY BoundsAssumption
        <3>2. CASE n = 0
            <4>1. after = <<>>
                BY <3>2 DEF ContextAfter
            <4>2. Len(after) = 0 /\ ToSet(after) = {}
                BY <4>1 DEF ToSet
            <4> QED BY <3>2, <4>2
        <3>3. CASE n # 0
            <4>1. after \in Selected(all, Forwards, n)
                BY <3>3 DEF ContextAfter
            <4>2. /\ Len(after) = n \/ ToSet(after) = all
                  /\ \A i \in ToSet(after), j \in all :
                        ~Ordered(i, j, Forwards) => j \in ToSet(after)
                  /\ ToSet(after) \subseteq EventIds /\ all \subseteq EventIds
                BY <1>1, <3>1, <4>1, ContextOfOne
            <4>3. \A i \in EventIds : Time(i) \in Nat
                BY <1>1, OrderProps DEF TypeOK
            <4> QED BY <4>2, <4>3 DEF Ordered, Backwards, Forwards
        <3> QED BY <3>2, <3>3
    <2> QED BY <2>1, <2>2 DEF ContextAdjacent
<1>2. QueriesInv => ContextAdjacent
    BY <1>1 DEF QueriesInv
<1> QED BY <1>2, QueriesInvariant, PTL

=============================================================================
