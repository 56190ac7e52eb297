------------------------------ MODULE Framing -------------------------------
(***************************************************************************)
(* The length-prefixed frames of both phone transports                     *)
(* (node/ble/framing.py).  A byte has Base values and a length two bytes,  *)
(* so a small Base keeps every edge of the format: lengths that do not fit *)
(* the prefix, lengths that no packet may have, and packets whose bytes    *)
(* read as lengths when a stream is out of step.                           *)
(***************************************************************************)
EXTENDS Naturals, Sequences

CONSTANTS
    Base,       \* 256
    MaxFrame    \* MAX_FRAME, 460

ASSUME FramingAssumption ==
    /\ Base \in Nat \ {0, 1}
    /\ MaxFrame \in Nat /\ MaxFrame < Base * Base

Bytes == 0 .. Base - 1

\* struct.pack(">H", ...) raises for a length that has no two-byte form.
Frameable(length) == length < Base * Base

\* The length in one byte.
FrameOneByte(packet) == <<0, Len(packet)>> \o packet

\* frame()
Frame(packet) == <<Len(packet) \div Base, Len(packet) % Base>> \o packet

\* The stream a sequence of packets makes.
Frames[packets \in Seq(Seq(Bytes))] ==
    IF packets = <<>> THEN <<>> ELSE Frame(Head(packets)) \o Frames[Tail(packets)]

\* struct.unpack_from(">H", ...)
Length(buf) == Base * buf[1] + buf[2]

Complete(buf) == Len(buf) >= 2 + Length(buf)

\* FrameAssembler.feed, with the new bytes already in the buffer: the packets
\* that are complete and the bytes that stay.  A length that is out of range
\* empties the buffer, and what was decoded before it in this call is lost.
Feed[buf \in Seq(Bytes)] ==
    IF Len(buf) < 2 THEN [packets |-> <<>>, buf |-> buf, corrupt |-> FALSE]
    ELSE IF Length(buf) > MaxFrame THEN [packets |-> <<>>, buf |-> <<>>, corrupt |-> TRUE]
    ELSE IF ~Complete(buf) THEN [packets |-> <<>>, buf |-> buf, corrupt |-> FALSE]
    ELSE LET packet == SubSeq(buf, 3, 2 + Length(buf))
             rest == Feed[SubSeq(buf, 3 + Length(buf), Len(buf))]
         IN  [rest EXCEPT !.packets = IF rest.corrupt THEN <<>> ELSE <<packet>> \o @]
=============================================================================
