---------------------------- MODULE SeshatEvents ----------------------------
(***************************************************************************)
(* Events and the JSON they are stored as.  The source of an event is      *)
(* whatever the caller of Event::new gives: the bindings serialize the     *)
(* event itself, other clients of the library store the event as the       *)
(* homeserver sent it.  A reindex parses the second form only.             *)
(***************************************************************************)
EXTENDS Integers

EventTypes == {"Message", "Name", "Topic"}

\* msgtype: None, or a string; m.image stands for FILE_EVENT_TYPES.
None == "none"
MsgTypes == {None, "m.text", "m.image"}
FileEventTypes == {"m.image"}

\* What the parser returns instead of an event: an error.
Invalid == [error |-> TRUE]

\* An event without its source.
EventFields ==
    {"event_type", "content_value", "msgtype", "event_id", "sender", "server_ts", "room_id"}

\* Senders are not told apart.
Sender == "sender"

\* The msgtype that a parsed event gets: content.msgtype is not read.
ParsedMsgType(type) == IF type = "Message" THEN "m.text" ELSE None

\* Event::to_sql of its type, and the type of a Matrix event
MatrixType(type) ==
    CASE type = "Message" -> "m.room.message"
      [] type = "Name" -> "m.room.name"
      [] type = "Topic" -> "m.room.topic"

\* The key of a Matrix event's content that holds its text.
ContentKey(type) ==
    CASE type = "Message" -> "body"
      [] type = "Name" -> "name"
      [] type = "Topic" -> "topic"

\* The event as a homeserver sends it: what clients of the library store.
MatrixJson(e) ==
    [type |-> MatrixType(e.event_type),
     content |-> [key \in {ContentKey(e.event_type)} |-> e.content_value],
     event_id |-> e.event_id,
     sender |-> e.sender,
     origin_server_ts |-> e.server_ts,
     room_id |-> e.room_id]

\* event_to_json, serde's form of an Event; n_new_event serializes an event
\* with an empty source to get the source of the real one.
EventToJson(e) == [key \in EventFields |-> e[key]]

\* RecoveryDatabase::event_from_json
EventFromJson(json) ==
    IF /\ {"type", "content", "event_id", "sender", "origin_server_ts", "room_id"}
             \subseteq DOMAIN json
       /\ \E type \in EventTypes :
             /\ json.type = MatrixType(type)
             /\ ContentKey(type) \in DOMAIN json.content
       /\ json.origin_server_ts >= 0
    THEN LET type == CHOOSE type \in EventTypes : json.type = MatrixType(type) IN
         [event_type |-> type,
          content_value |-> json.content[ContentKey(type)],
          msgtype |-> ParsedMsgType(type),
          event_id |-> json.event_id,
          sender |-> json.sender,
          server_ts |-> json.origin_server_ts,
          room_id |-> json.room_id]
    ELSE Invalid
=============================================================================
