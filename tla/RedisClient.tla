----------------------------- MODULE RedisClient -----------------------------
(***************************************************************************)
(* RedisClient (src/redis_client.hpp): a connection to Redis on which one  *)
(* command at a time waits for its reply, and the RESP replies, as units   *)
(* of which any number arrives with one recv().  A unit is a line (prefix  *)
(* and number), the CRLF after a bulk string or in it, or a piece of one.  *)
(***************************************************************************)
EXTENDS Integers, Sequences, SequencesExt

Unit(t, n) == [t |-> t, n |-> n]
CRLF == Unit("crlf", 0)

(* What Redis sends. *)
Line(prefix, n) == <<Unit(prefix, n)>>
Bulk(payload)   == Line("$", Len(payload)) \o payload \o <<CRLF>>
Array(items)    == Line("*", Len(items)) \o FlattenSeq(items)

-----------------------------------------------------------------------------
(* A connection: state "down" is invalid_socket, "cut" one whose peer is   *)
(* gone while units it sent may still arrive.  `request' is what Redis has *)
(* yet to run, `stream' what it sent, `subscribed' what it knows of it;    *)
(* `value' is what read_value has read so far, `todo' how many elements    *)
(* its array still lacks.                                                  *)

Value(type, bulk) == [type |-> type, bulk |-> bulk, array |-> <<>>]
NoValue == Value("none", <<>>)
ErrorValue == Value("Error", <<>>)

Disconnected == [state |-> "down", request |-> "none", subscribed |-> FALSE, stream |-> <<>>,
                 buffer |-> <<>>, value |-> NoValue, todo |-> 0]
(* Mutant: disconnect() keeps the buffer. *)
DisconnectKeepsBuffer(link) ==
  [Disconnected EXCEPT !.buffer = link.buffer, !.value = link.value, !.todo = link.todo]

(* disconnect(), also of what was received and not used.  The value being  *)
(* read is read_value's own.                                               *)
Disconnect(link) == [Disconnected EXCEPT !.value = link.value, !.todo = link.todo]

Connect(link) == [Disconnect(link) EXCEPT !.state = "up"]

(* Mutant: a command connects by itself. *)
CommandReconnects(link, name) ==
  LET to == IF link.state = "down" THEN Connect(link) ELSE link
  IN  IF to.state = "up" THEN [to EXCEPT !.request = name] ELSE to

(* Without a connection command() sends nothing; on one that was cut what  *)
(* it sends is lost.                                                       *)
Command(link, name) ==
  IF link.state = "up" THEN [link EXCEPT !.request = name] ELSE link

From(units, i) == SubSeq(units, i, Len(units))

(* recv() returns n units. *)
Received(link, n) ==
  [link EXCEPT !.buffer = @ \o SubSeq(link.stream, 1, n), !.stream = From(@, n + 1)]

-----------------------------------------------------------------------------
(* read_value, one line or bulk string a step.                             *)

Answered(link) == link.value # NoValue /\ link.todo = 0
(* Mutant: what is left of the buffer is dropped with each value. *)
AfterAnswerClears(link) == [link EXCEPT !.value = NoValue, !.buffer = <<>>]

AfterAnswer(link) == [link EXCEPT !.value = NoValue]

(* Mutant: recv() == 0 is taken for "nothing yet". *)
EndedByErrorOnly(link) == link.state = "down"

(* recv() finds the end of the connection. *)
Ended(link) == link.state = "down" \/ (link.state = "cut" /\ link.stream = <<>>)

(* How many units of the buffer the next line or bulk string takes; the    *)
(* size of a bulk string is told before it, whatever it holds.             *)
Extent(buffer) == IF Head(buffer).t = "$" THEN Head(buffer).n + 2 ELSE 1

Arrived(link) == link.buffer # <<>> /\ Extent(link.buffer) <= Len(link.buffer)

CanRead(link) == ~Answered(link) /\ (Arrived(link) \/ Ended(link))

(* An element, or a value that is no array.                                *)
Taken(link, value) ==
  IF link.value = NoValue THEN [link EXCEPT !.value = value]
  ELSE [link EXCEPT !.value.array = Append(@, value), !.todo = @ - 1]

Scalar(units) ==
  CASE Head(units).t = "$" -> Value("Bulk", SubSeq(units, 2, Len(units) - 1))
    [] Head(units).t = ":" -> Value("Integer", <<>>)
    [] OTHER               -> ErrorValue

(* The rest of an array whose connection ends is errors: the array itself  *)
(* is not one.                                                             *)
ReadOn(link) ==
  LET head == Head(link.buffer)
      n    == Extent(link.buffer)
      rest == [link EXCEPT !.buffer = From(@, n + 1)]
  IN  CASE ~Arrived(link) -> Taken(Disconnect(link), ErrorValue)
        [] Arrived(link) /\ head.t = "*" ->
             [rest EXCEPT !.value = Value("Array", <<>>), !.todo = head.n]
        [] OTHER -> Taken(rest, Scalar(SubSeq(link.buffer, 1, n)))

=============================================================================
