------------------------------- MODULE NetWire --------------------------------
(***************************************************************************)
(* The datagram format of RF::net (src/src/net/utils.cpp).  A message is   *)
(* written as its kind, its application id and its bodies, each preceded   *)
(* by its size, all numbers big endian; deserialize_internal reads it back *)
(* with one pass of its while loop per body.                               *)
(*                                                                         *)
(* A number takes Width bytes of Base values each: 8 and 256 in the code,  *)
(* less for TLC.  The datagrams read here are those a peer wrote, whole or *)
(* cut short.                                                              *)
(***************************************************************************)
EXTENDS Integers, Sequences, SequencesExt

CONSTANTS
  Width,      \* sizeof(ulong)
  Base,       \* the number of values of a byte
  Messages    \* the messages written: [id, app_id, payload]

\* What the bytes of a number count for: Power[n] is Base^n.
Power[n \in 0 .. Width] == IF n = 0 THEN 1 ELSE Base * Power[n - 1]

Byte  == 0 .. Base - 1
Ulong == 0 .. Power[Width] - 1

\* What the constants are assumed to be.
WireAssumption ==
  /\ Width \in Nat \ {0}
  /\ Base \in Nat \ {0, 1}

MessageAssumption ==
  \A m \in Messages :
    /\ m \in [id : Ulong, app_id : Ulong, payload : Seq(Seq(Byte))]
    /\ \A i \in DOMAIN m.payload : Len(m.payload[i]) \in Ulong

-------------------------------------------------------------------------------
(* Writing *)

\* native_to_big_endian_ulong: the last byte is cut off Width times, and comes to
\* stand before those cut off already.
BigEndian(v) ==
  LET rest[i \in 0 .. Width] == IF i = 0 THEN v ELSE rest[i - 1] \div Base
  IN  [i \in 1 .. Width |-> rest[Width - i] % Base]

\* big_endian_to_native_ulong, with the shift's wrap-around.
Native(bytes) ==
  LET value[i \in 0 .. Width] ==
        IF i = 0 THEN 0 ELSE (value[i - 1] * Base + bytes[i]) % Power[Width]
  IN  value[Width]

\* serialize_internal: a body as it is written.
WriteBody(body) == BigEndian(Len(body)) \o body

Serialize(m) ==
  BigEndian(m.id) \o BigEndian(m.app_id)
    \o FlattenSeq([i \in DOMAIN m.payload |-> WriteBody(m.payload[i])])

-------------------------------------------------------------------------------
(* Reading *)

VARIABLES
  written,   \* history: the message that was written
  data,      \* the bytes that arrived
  pc,        \* Header, Bodies, Done or Threw
  offset,    \* how many bytes have been read
  message    \* what has been read of the message

vars == <<written, data, pc, offset, message>>

NoMessage == [id |-> 0, app_id |-> 0, payload |-> <<>>]

Init ==
  /\ written \in Messages
  /\ \E cut \in 0 .. Len(Serialize(written)) :
       data = SubSeq(Serialize(written), 1, cut)
  /\ pc = "Header"
  /\ offset = 0
  /\ message = NoMessage

Number(at) == Native(SubSeq(data, at + 1, at + Width))

Throw == pc' = "Threw" /\ UNCHANGED <<written, data, offset, message>>

\* "Invalid message: too short"
TooShort ==
  /\ pc = "Header"
  /\ Len(data) < 2 * Width
  /\ Throw

ReadHeader ==
  /\ pc = "Header"
  /\ Len(data) >= 2 * Width
  /\ message' = [NoMessage EXCEPT !.id = Number(0), !.app_id = Number(Width)]
  /\ offset' = 2 * Width
  /\ pc' = "Bodies"
  /\ UNCHANGED <<written, data>>

\* A size follows; that many bytes are still there or not.
HasSize == pc = "Bodies" /\ offset + Width <= Len(data)
BodyEnd == offset + Width + Number(offset)

\* "Invalid message: body size exceeds remaining data"
BodyTooLong ==
  /\ HasSize
  /\ BodyEnd > Len(data)
  /\ Throw

\* Mutant: the size of the body is not skipped afterwards.
Mut_ReadBody ==
  /\ HasSize
  /\ BodyEnd <= Len(data)
  /\ message' = [message EXCEPT !.payload =
                   Append(@, SubSeq(data, offset + Width + 1, BodyEnd))]
  /\ offset' = offset + Width
  /\ UNCHANGED <<written, data, pc>>

ReadBody ==
  /\ HasSize
  /\ BodyEnd <= Len(data)
  /\ message' = [message EXCEPT !.payload =
                   Append(@, SubSeq(data, offset + Width + 1, BodyEnd))]
  /\ offset' = BodyEnd
  /\ UNCHANGED <<written, data, pc>>

\* Less than a size is left, and is ignored.
Return ==
  /\ pc = "Bodies"
  /\ offset + Width > Len(data)
  /\ pc' = "Done"
  /\ UNCHANGED <<written, data, offset, message>>

Next == TooShort \/ ReadHeader \/ BodyTooLong \/ ReadBody \/ Return

Spec == Init /\ [][Next]_vars

-------------------------------------------------------------------------------
(* What makes the format correct *)

\* A datagram that arrives whole is read, and gives the message written, for all
\* numbers of bodies, empty ones included.
RoundTrip ==
  data = Serialize(written) =>
    /\ pc # "Threw"
    /\ pc = "Done" => message = written

\* What is read of a datagram cut short is either rejected or the message written
\* with its last bodies missing, never a changed or a partial body.
CutShowsNoGarbage ==
  pc = "Done" =>
    /\ message.id = written.id /\ message.app_id = written.app_id
    /\ IsPrefix(message.payload, written.payload)

===============================================================================
