-------------------------------- MODULE Wire --------------------------------
(***************************************************************************)
(* The bytes of the simulation: append_item and read_field, which encode   *)
(* by type; the messages of both Raft variants; and the five kinds of      *)
(* events.  A buffer is a sequence of scalars <<width, value>>, the width  *)
(* in bytes; reading a scalar of another width, or past the end, is not    *)
(* sound.  Writers and readers are separate code, so they are separate     *)
(* definitions: a list of the fields written and a list of those read.     *)
(***************************************************************************)
EXTENDS Integers, SequencesExt

CONSTANTS
  NodeIDs,     \* some node identifiers
  Numbers,     \* some terms and log positions
  Keys,        \* some strings: sequences of characters, which are numbers
  Values,      \* some strings
  MaxEntries   \* bound on the log entries of a request

VARIABLES
  data,    \* Event::data of the event in the queue
  sent,    \* history: what was encoded into it
  heard,   \* history: what its receiver decoded, or Unheard
  asked    \* history: the client's command that this is about, or NoCommand

vars == <<data, sent, heard, asked>>

-----------------------------------------------------------------------------
(* append_item and read_field *)

Scalar(width) == [is |-> "scalar", width |-> width]
Optional(type) == [is |-> "optional", of |-> type]
Container(type) == [is |-> "container", of |-> type]
Class(written, read) == [is |-> "class", written |-> written, read |-> read]
Command == [is |-> "command"]   \* kv Command
Bytes == [is |-> "bytes"]       \* a container of bytes: here, a buffer

Field(name, type) == [name |-> name, type |-> type]

Byte == Scalar(1)
Int32 == Scalar(4)
TIndex == Scalar(8)
Size == Scalar(8)
Text == Container(Byte)

\* Faulty: the two halves of an identifier are read in the wrong order.
NodeIDReadSwapped == <<Field("generation", Int32), Field("index", Int32)>>

NodeIDRead == <<Field("index", Int32), Field("generation", Int32)>>

NodeID == Class(<<Field("index", Int32), Field("generation", Int32)>>, NodeIDRead)

CommandType == [GET |-> 0, SET |-> 1, DEL |-> 2]

\* An optional value is sent of a SET only, and read of a SET only.
CommandWritten(command) ==
  <<Field("type", Byte), Field("key", Text)>> \o
  IF command.type = CommandType.SET
  THEN <<Field("value", Optional(Text))>> ELSE <<>>

\* Faulty: the value stays in the buffer.
CommandReadWithoutValue(type) == <<>>

CommandRead(type) ==
  IF type = CommandType.SET THEN <<Field("value", Optional(Text))>> ELSE <<>>

ByteSize(buffer) == FoldLeft(LAMBDA n, scalar : n + scalar[1], 0, buffer)

RECURSIVE append_item(_, _)

BuildPayload(fields, value) ==
  FlattenSeq([i \in DOMAIN fields |->
                append_item(fields[i].type, value[fields[i].name])])

append_item(type, value) ==
  CASE type.is = "scalar" -> << <<type.width, value>> >>
    [] type.is = "optional" ->
         IF value = <<>> THEN append_item(Byte, 0)
         ELSE append_item(Byte, 1) \o append_item(type.of, value[1])
    [] type.is = "container" ->
         append_item(Size, Len(value)) \o
         FlattenSeq([i \in DOMAIN value |-> append_item(type.of, value[i])])
    [] type.is = "bytes" -> append_item(Size, ByteSize(value)) \o value
    [] type.is = "class" -> BuildPayload(type.written, value)
    [] type.is = "command" -> BuildPayload(CommandWritten(value), value)

\* A reader: the value read last, the rest of the buffer, and whether all that
\* was read was there.
Reader(buffer) == [value |-> 0, rest |-> buffer, sound |-> TRUE]

Wild == [value |-> 0, rest |-> <<>>, sound |-> FALSE]

ReadScalar(width, in) ==
  IF in.rest # <<>> /\ in.rest[1][1] = width
  THEN [in EXCEPT !.value = in.rest[1][2], !.rest = Tail(in.rest)]
  ELSE Wild

\* The scalars that make up the next size bytes.
ReadBytes(size, in) ==
  LET cut == FoldLeft(LAMBDA acc, scalar :
                        IF acc.left > 0
                        THEN [left |-> acc.left - scalar[1], n |-> acc.n + 1]
                        ELSE acc,
                      [left |-> size, n |-> 0], in.rest)
  IN  IF cut.left # 0 THEN Wild
      ELSE [in EXCEPT !.value = SubSeq(in.rest, 1, cut.n),
                      !.rest = SubSeq(in.rest, cut.n + 1, Len(in.rest))]

RECURSIVE read_field(_, _)

ReadFields(fields, in) ==
  FoldLeft(LAMBDA acc, field :
             LET r == read_field(field.type, acc)
             IN  [r EXCEPT !.value = acc.value @@ (field.name :> r.value)],
           [in EXCEPT !.value = <<>>], fields)

ReadElements(type, count, in) ==
  FoldLeft(LAMBDA acc, i :
             LET r == read_field(type, acc)
             IN  [r EXCEPT !.value = Append(acc.value, r.value)],
           [in EXCEPT !.value = <<>>], [i \in 1..count |-> i])

read_field(type, in) ==
  CASE ~in.sound -> Wild
    [] in.sound /\ type.is = "scalar" -> ReadScalar(type.width, in)
    [] in.sound /\ type.is = "optional" ->
         LET flag == read_field(Byte, in)
             inner == read_field(type.of, flag)
         IN  IF flag.value = 1 THEN [inner EXCEPT !.value = <<@>>]
             ELSE [flag EXCEPT !.value = <<>>]
    [] in.sound /\ type.is = "container" ->
         LET size == read_field(Size, in)
         IN  ReadElements(type.of, size.value, size)
    [] in.sound /\ type.is = "bytes" ->
         LET size == read_field(Size, in) IN ReadBytes(size.value, size)
    [] in.sound /\ type.is = "class" -> ReadFields(type.read, in)
    [] in.sound /\ type.is = "command" ->
         LET head == ReadFields(<<Field("type", Byte), Field("key", Text)>>, in)
             tail == ReadFields(CommandRead(head.value.type), head)
         IN  [tail EXCEPT !.value = @ @@ head.value @@ ("value" :> <<>>)]

-----------------------------------------------------------------------------
(* Messages *)

MessageType == <<
  "RequestVote", "RequestVoteResponse", "AppendEntries", "AppendEntriesResponse",
  "HybridAppendEntriesResponse", "client_command_redirected",
  "client_command_redirected_response", "set_peers", "client_command",
  "client_command_response", "start">>

PeersList == Class(<<Field("peers", Container(NodeID))>>,
                   <<Field("peers", Container(NodeID))>>)

RequestVote ==
  Class(<<Field("term", TIndex), Field("candidate_id", NodeID),
          Field("last_log_index", TIndex), Field("last_log_term", TIndex)>>,
        <<Field("term", TIndex), Field("candidate_id", NodeID),
          Field("last_log_index", TIndex), Field("last_log_term", TIndex)>>)

RequestVoteResponse ==
  Class(<<Field("term", TIndex), Field("is_ack", TIndex)>>,
        <<Field("term", TIndex), Field("is_ack", TIndex)>>)

LogEntry == Class(<<Field("term", TIndex), Field("command", Command)>>,
                  <<Field("term", TIndex), Field("command", Command)>>)

AppendEntries ==
  Class(<<Field("term", TIndex), Field("leader_id", NodeID),
          Field("last_log_index", TIndex), Field("last_log_term", TIndex),
          Field("log_entries", Container(LogEntry)),
          Field("leader_commit_index", TIndex)>>,
        <<Field("term", TIndex), Field("leader_id", NodeID),
          Field("last_log_index", TIndex), Field("last_log_term", TIndex),
          Field("log_entries", Container(LogEntry)),
          Field("leader_commit_index", TIndex)>>)

\* Status is an enumeration without a type of its own: an int.
AppendResponse ==
  Class(<<Field("status", Int32), Field("term", TIndex),
          Field("match_index", TIndex)>>,
        <<Field("status", Int32), Field("term", TIndex),
          Field("match_index", TIndex)>>)

HybridAppendResponse ==
  Class(<<Field("status", Int32), Field("term", TIndex),
          Field("match_index", TIndex), Field("conflict_term", TIndex),
          Field("conflict_index", TIndex)>>,
        <<Field("status", Int32), Field("term", TIndex),
          Field("match_index", TIndex), Field("conflict_term", TIndex),
          Field("conflict_index", TIndex)>>)

CommandResponse ==
  Class(<<Field("status", Int32), Field("command", Command),
          Field("value", Optional(Text))>>,
        <<Field("status", Int32), Field("command", Command),
          Field("value", Optional(Text))>>)

ClientRedirect ==
  Class(<<Field("reply_to", NodeID), Field("command", Command)>>,
        <<Field("reply_to", NodeID), Field("command", Command)>>)

\* What the handler of a type of message takes its payload for.
Payload(type) ==
  CASE type = "RequestVote" -> RequestVote
    [] type = "RequestVoteResponse" -> RequestVoteResponse
    [] type = "AppendEntries" -> AppendEntries
    [] type = "AppendEntriesResponse" -> AppendResponse
    [] type = "HybridAppendEntriesResponse" -> HybridAppendResponse
    [] type = "client_command_redirected" -> ClientRedirect
    [] type \in {"client_command_redirected_response", "client_command_response"}
         -> CommandResponse
    [] type = "set_peers" -> PeersList
    [] type = "client_command" -> Command
    [] type = "start" -> Class(<<>>, <<>>)

\* The name of a type is a string; one character stands for it.
Name(type) == <<CHOOSE i \in DOMAIN MessageType : MessageType[i] = type>>

MessageFields == <<Field("type", Text), Field("payload", Bytes)>>

\* The payload of a message is bytes to all but the nodes at its ends.
Serialize(msg) ==
  BuildPayload(MessageFields, [type |-> Name(msg.type), payload |-> msg.payload])

\* What is left over is not looked at; all is TRUE when nothing is.
Deserialize(buffer) ==
  LET m == ReadFields(MessageFields, Reader(buffer))
  IN  [type |-> MessageType[m.value.type[1]], payload |-> m.value.payload,
       all |-> m.sound /\ m.rest = <<>>]

\* The two ends of a message: its payload from a record, and to a record.
Compose(msg) == [msg EXCEPT !.payload = append_item(Payload(msg.type), @)]

Understand(msg) ==
  LET p == read_field(Payload(msg.type), Reader(msg.payload))
  IN  [msg EXCEPT !.payload = p.value, !.all = @ /\ p.sound /\ p.rest = <<>>]

-----------------------------------------------------------------------------
(* Events *)

Kind == [Message |-> 0, LocalMessage |-> 1, Timer |-> 2, NodeStatus |-> 3,
         PartitionPair |-> 4]

DeliveryStatus == [Sended |-> 0, Received |-> 1, Failed |-> 2]

MessageEvent ==
  Class(<<Field("kind", Byte), Field("status", Byte), Field("from", NodeID),
          Field("to", NodeID), Field("wire", Bytes)>>,
        <<Field("kind", Byte), Field("status", Byte), Field("from", NodeID),
          Field("to", NodeID), Field("wire", Bytes)>>)

LocalMessageEvent ==
  Class(<<Field("kind", Byte), Field("from", NodeID), Field("wire", Bytes)>>,
        <<Field("kind", Byte), Field("from", NodeID), Field("wire", Bytes)>>)

TimerEvent ==
  Class(<<Field("kind", Byte), Field("token", Size), Field("name", Text)>>,
        <<Field("kind", Byte), Field("token", Size), Field("name", Text)>>)

NodeStatusEvent ==
  Class(<<Field("kind", Byte), Field("status", Byte), Field("node_id", NodeID)>>,
        <<Field("kind", Byte), Field("status", Byte), Field("node_id", NodeID)>>)

PartitionPairEvent ==
  Class(<<Field("kind", Byte), Field("endpoint_a", NodeID),
          Field("endpoint_b", NodeID), Field("cut", Byte)>>,
        <<Field("kind", Byte), Field("endpoint_a", NodeID),
          Field("endpoint_b", NodeID), Field("cut", Byte)>>)

Event == [Message |-> MessageEvent, LocalMessage |-> LocalMessageEvent,
          Timer |-> TimerEvent, NodeStatus |-> NodeStatusEvent,
          PartitionPair |-> PartitionPairEvent]

HasMessage(kind) == kind \in {"Message", "LocalMessage"}

\* What is sent besides the fields of p: its kind, and its message as bytes.
Encode(p) ==
  BuildPayload(Event[p.kind].written,
               [kind |-> Kind[p.kind]] @@ p @@
               (IF HasMessage(p.kind) THEN [wire |-> Serialize(p.msg)] ELSE <<>>))

ClassifySimulationEvent(buffer) ==
  {kind \in DOMAIN Kind : read_field(Byte, Reader(buffer)).value = Kind[kind]}

IsKnown(kind, v) ==
  CASE kind = "Message" -> v.status \in 0..2
    [] kind = "NodeStatus" -> v.status \in 0..1
    [] kind = "PartitionPair" -> v.cut \in 0..1
    [] OTHER -> TRUE

\* Faulty: any kind of event will do.
TryDecodeAnyKind(kind, buffer) ==
  {r \in {ReadFields(Event[kind].read, Reader(buffer))} :
     /\ IsKnown(kind, r.value)
     /\ r.rest = <<>>}

\* What the five TryDecode functions accept: nothing, or what they read.
TryDecode(kind, buffer) ==
  {r \in {ReadFields(Event[kind].read, Reader(buffer))} :
     /\ r.value.kind = Kind[kind]
     /\ IsKnown(kind, r.value)
     /\ r.rest = <<>>}

\* A packet with its message's payload in the one form or the other.
Composed(p) == IF HasMessage(p.kind) THEN [p EXCEPT !.msg = Compose(@)] ELSE p
Understood(p) == IF HasMessage(p.kind) THEN [p EXCEPT !.msg = Understand(@)] ELSE p

\* A decoded event, its message deserialised, as a packet again.
Packet(kind, r) ==
  [kind |-> kind] @@
  (IF HasMessage(kind) THEN [msg |-> Deserialize(r.value.wire)] ELSE <<>>) @@ r.value

-----------------------------------------------------------------------------
(* What nodes, tests and the scenario send *)

None == <<>>

Commands ==
  [type : {CommandType.GET, CommandType.DEL}, key : Keys, value : {None}] \cup
  [type : {CommandType.SET}, key : Keys, value : {<<v>> : v \in Values}]

Entries ==
  UNION {[1..n -> [term : Numbers, command : Commands]] : n \in 0..MaxEntries}

\* Of the large requests, those whose numbers tell their fields apart.
Payloads(type, own) ==
  CASE type = "RequestVote" ->
         [term : Numbers, candidate_id : {own}, last_log_index : Numbers,
          last_log_term : Numbers]
    [] type = "RequestVoteResponse" -> [term : Numbers, is_ack : 0..1]
    [] type = "AppendEntries" ->
         {r \in [term : Numbers, leader_id : {own}, last_log_index : Numbers,
                 last_log_term : Numbers, log_entries : Entries,
                 leader_commit_index : Numbers] :
            r.last_log_index # r.last_log_term /\ r.term # r.leader_commit_index}
    [] type = "AppendEntriesResponse" ->
         [status : 0..1, term : Numbers, match_index : Numbers]
    [] type = "HybridAppendEntriesResponse" ->
         [status : 0..1, term : Numbers, match_index : Numbers,
          conflict_term : Numbers, conflict_index : Numbers]
    [] type = "set_peers" -> [peers : UNION {[1..n -> NodeIDs] : n \in 0..2}]
    [] type = "client_command" -> Commands
    [] type = "start" -> {None}

Messages(types, own) ==
  UNION {[type : {type}, payload : Payloads(type, own)] : type \in types}

\* The packets that start an exchange.
Packets ==
  UNION {[kind : {"Message"}, status : {DeliveryStatus.Sended}, from : {own},
          to : NodeIDs \ {own},
          msg : Messages({"RequestVote", "RequestVoteResponse", "AppendEntries",
                          "AppendEntriesResponse", "HybridAppendEntriesResponse"},
                         own)] : own \in NodeIDs} \cup
  UNION {[kind : {"LocalMessage"}, from : NodeIDs, to : {own},
          msg : Messages({"set_peers", "client_command", "start"}, own)]
         : own \in NodeIDs} \cup
  [kind : {"Timer"}, token : 1..2, name : Keys] \cup
  [kind : {"NodeStatus"}, status : 0..1, node_id : NodeIDs] \cup
  [kind : {"PartitionPair"}, endpoint_a : NodeIDs, endpoint_b : NodeIDs,
   cut : 0..1]

-----------------------------------------------------------------------------
(* Exchanges *)

Unheard == None

Init ==
  /\ sent \in Packets
  /\ data = Encode(Composed(sent))
  /\ heard = Unheard
  /\ asked = None

\* An event with this packet is queued.
Post(p) ==
  /\ data' = Encode(Composed(p))
  /\ sent' = p
  /\ heard' = Unheard

\* The gateway encodes anew what it decoded, as received or as failed.
HandleSend(p) ==
  /\ p.status = DeliveryStatus.Sended
  /\ \E status \in {DeliveryStatus.Received, DeliveryStatus.Failed} :
       LET q == [p EXCEPT !.status = status]
       IN  /\ data' = Encode(q)
           /\ sent' = [sent EXCEPT !.status = status]
  /\ UNCHANGED <<heard, asked>>

\* The gateway or a node has the packet for itself.
Hear(p) ==
  /\ p.kind = "Message" => p.status = DeliveryStatus.Received
  /\ heard' = <<Understood(p)>>
  /\ UNCHANGED <<data, sent, asked>>

\* EventManager hands the event to the gateway or to a node.
OnEvent ==
  /\ heard = Unheard
  /\ \E kind \in ClassifySimulationEvent(data) :
       \E r \in TryDecode(kind, data) :
         \/ kind = "Message" /\ HandleSend(Packet(kind, r))
         \/ Hear(Packet(kind, r))

\* A node forwards the command it was given to the leader.
ForwardCommandToLeader(leader) ==
  \E p \in ToSet(heard) :
    /\ HasMessage(p.kind)
    /\ p.msg.type = "client_command"
    /\ asked' = <<sent.msg.payload>>
    /\ Post([kind |-> "Message", status |-> DeliveryStatus.Sended,
             from |-> sent.to, to |-> leader,
             msg |-> [type |-> "client_command_redirected",
                      payload |-> [reply_to |-> sent.to, command |-> p.msg.payload]]])

\* The leader executes the command and answers the node that redirected it.
ExecuteClientCommand(status, value) ==
  \E p \in ToSet(heard) :
    /\ HasMessage(p.kind)
    /\ p.msg.type = "client_command_redirected"
    /\ Post([kind |-> "Message", status |-> DeliveryStatus.Sended,
             from |-> p.to, to |-> p.msg.payload.reply_to,
             msg |-> [type |-> "client_command_redirected_response",
                      payload |-> [status |-> status,
                                   command |-> p.msg.payload.command,
                                   value |-> value]]])
    /\ UNCHANGED asked

ClientCommandsMatch(scheduled, response) ==
  /\ scheduled.type = response.type
  /\ scheduled.key = response.key
  /\ scheduled.type = CommandType.SET => scheduled.value = response.value

\* A node passes the answer on to its client if it is one it waits for.
HandleClientCommandRedirectedResponse(client) ==
  \E p \in ToSet(heard) :
    /\ HasMessage(p.kind)
    /\ p.msg.type = "client_command_redirected_response"
    /\ ClientCommandsMatch(asked[1], p.msg.payload.command)
    /\ Post([kind |-> "LocalMessage", from |-> p.to, to |-> client,
             msg |-> [type |-> "client_command_response",
                      payload |-> p.msg.payload]])
    /\ UNCHANGED asked

Next ==
  \/ OnEvent
  \/ \E leader \in NodeIDs : ForwardCommandToLeader(leader)
  \/ \E status \in 0..1, value \in {None} \cup {<<v>> : v \in Values} :
       ExecuteClientCommand(status, value)
  \/ \E client \in NodeIDs : HandleClientCommandRedirectedResponse(client)

Spec == Init /\ [][Next]_vars

-----------------------------------------------------------------------------
(* Properties *)

\* What a receiver decodes, after any number of trips through events, messages
\* and payloads, is what was encoded; and every reader stops at the end of its
\* buffer, no sooner and no later, although only the events are checked for it.
ReadsWhatWasWritten ==
  \A p \in ToSet(heard) :
    /\ \A field \in DOMAIN p \cap DOMAIN sent :
         IF field = "msg"
         THEN p.msg = [all |-> TRUE] @@ sent.msg
         ELSE p[field] = sent[field]
    /\ DOMAIN sent \ {"to"} \subseteq DOMAIN p

\* Exactly one of the five decoders accepts an event, the one of its kind.
OneDecoderAccepts ==
  \A kind \in DOMAIN Kind : TryDecode(kind, data) # {} <=> kind = sent.kind

\* The answer to a redirected command is recognised by the node that waits for
\* it, though the command was encoded by three nodes in turn, of which none
\* encodes the value of a GET or DEL.
AnswersAreRecognised ==
  \A p \in ToSet(heard) :
    HasMessage(p.kind) /\ p.msg.type = "client_command_redirected_response"
    => ClientCommandsMatch(asked[1], p.msg.payload.command)

=============================================================================
