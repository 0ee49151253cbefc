---------------------------- MODULE AccessoryLink ----------------------------
(***************************************************************************)
(* The bytes between Android and the accessory: Port.write and PortStatus  *)
(* of AccessoryBridge.java put frames on the connection, the receiver      *)
(* thread of bridge.c reads them back through readAllAccessory, whose      *)
(* reads return as many bytes as the connection has, and main takes the    *)
(* port out of a status.  USB goes through the receive buffer of usb.c,    *)
(* Bluetooth through a socket.  The other way the sender thread writes its *)
(* messages through writeAllAccessory, piece by piece.                     *)
(*                                                                         *)
(* Bytes are numbers.  The payload of a data frame is 1, 2, 3 ..., so that *)
(* a byte that is lost, doubled or moved shows.                            *)
(***************************************************************************)
EXTENDS Integers, Sequences, SequencesExt

CONSTANTS Ports,         \* the ports Android uses
          Sizes,         \* sizes of the data it writes
          Transports,    \* "USB", "BT"
          length,        \* size of the USB receive buffer
          MaxFrames      \* bound: frames both sides send

ASSUME LinkAssumption ==
  /\ \A p \in Ports : p \in Nat /\ 0 < p /\ p < 400
  /\ \A n \in Sizes : n \in Nat /\ n <= 4000
  /\ Transports \subseteq {"USB", "BT"}
  /\ length \in Nat \ {0}
  /\ MaxFrames \in Nat

VARIABLES transport,
          lost,      \* is the connection lost?
          sent,      \* the frames Android has written
          wire,      \* bytes written and not yet read or transferred
          usb,       \* valid data in receiveBuffer
          part,      \* what the receiver reads: "header", "payload", or "ended"
          buffer,    \* the bytes of that part read so far
          size,      \* the bytes readAllAccessory has still to read
          port,      \* of the header read last
          queued,    \* the messages the receiver has queued
          handled,   \* number of them main has handled
          target,    \* the port of the last status it handled
          polled,    \* the messages the sender has taken out of its queue
          writes,    \* what it writes: "header", "payload", nothing ("idle"), or "ended"
          rest,      \* the bytes of that part writeAllAccessory has still to write
          written    \* the bytes on their way to Android

android  == <<lost, sent>>
reading  == <<part, buffer, size, port>>
handling == <<handled, target>>
sending  == <<polled, writes, rest, written>>
vars     == <<transport, lost, sent, wire, usb, part, buffer, size, port, queued,
              handled, target, polled, writes, rest, written>>

Smaller(a, b) == IF a < b THEN a ELSE b
Skip(s, n) == SubSeq(s, n + 1, Len(s))

Low(n)  == n % 256
High(n) == (n \div 256) % 256
Signed8(b)   == IF b < 128 THEN b ELSE b - 256
Signed16(n)  == IF n < 32768 THEN n ELSE n - 65536

\* A frame: a status for port about on port 0, or size bytes of data on port.
Frames == [port : {0}, about : Ports, size : {4}] \union [port : Ports, about : {0}, size : Sizes]

\* The payload; of a status the port, STREAM_EOF and a zero.
Payload(f) ==
  IF f.port = 0 THEN <<Low(f.about), High(f.about), 3, 0>> ELSE [i \in 1 .. f.size |-> i]

Header(f) == <<Low(f.port), High(f.port), Low(f.size), High(f.size)>>

\* buffer[0] + (buffer[1] << 8), of unsigned bytes, kept in a short.
UnsignedShort(low, high) == Signed16(low + 256 * high)

\* MUTANT of StatusPort: the low byte only.
StatusPortLow(low, high) == Signed8(low)

\* casted_buffer[0] | (casted_buffer[1] << 8), of signed bytes: a negative low byte
\* fills all the bits above it.
StatusPort(low, high) ==
  IF Signed8(low) < 0 THEN Signed8(low) ELSE Signed8(low) + 256 * Signed8(high)
-----------------------------------------------------------------------------
Init ==
  /\ transport \in Transports
  /\ lost = FALSE
  /\ sent = << >>
  /\ wire = << >>
  /\ usb = << >>
  /\ part = "header" /\ buffer = << >> /\ size = 4 /\ port = 0
  /\ queued = << >>
  /\ handled = 0 /\ target = 0
  /\ polled = << >> /\ writes = "idle" /\ rest = << >> /\ written = << >>

\* Header and payload are written under one lock.
AndroidWrite ==
  /\ ~lost
  /\ Len(sent) + Len(polled) < MaxFrames
  /\ \E f \in Frames :
       /\ sent' = Append(sent, f)
       /\ wire' = wire \o Header(f) \o Payload(f)
  /\ UNCHANGED <<transport, lost, usb, reading, queued, handling, sending>>

\* Some of what is on its way may still arrive.
Lost ==
  /\ ~lost
  /\ lost' = TRUE
  /\ \E n \in 0 .. Len(wire) : wire' = SubSeq(wire, 1, n)
  /\ UNCHANGED <<transport, sent, usb, reading, queued, handling, sending>>

\* MUTANT of UsbTransfer: what is left in the buffer is overwritten.
UsbTransferEarly ==
  /\ transport = "USB" /\ part # "ended" /\ size > 0
  /\ \E n \in 1 .. Smaller(length, Len(wire)) :
       /\ usb' = SubSeq(wire, 1, n)
       /\ wire' = Skip(wire, n)
  /\ UNCHANGED <<transport, android, reading, queued, handling, sending>>

\* readAccessoryUSB fills its empty buffer.
UsbTransfer ==
  /\ transport = "USB" /\ part # "ended" /\ size > 0
  /\ usb = << >>
  /\ \E n \in 1 .. Smaller(length, Len(wire)) :
       /\ usb' = SubSeq(wire, 1, n)
       /\ wire' = Skip(wire, n)
  /\ UNCHANGED <<transport, android, reading, queued, handling, sending>>

\* One turn of readAllAccessory that gives n bytes of s.
Take(s, n) ==
  /\ buffer' = buffer \o SubSeq(s, 1, n)
  /\ size' = size - n
  /\ UNCHANGED <<part, port>>

\* readAccessoryUSB from its buffer.
UsbRead ==
  /\ part # "ended" /\ size > 0
  /\ usb # << >>
  /\ LET n == Smaller(size, Len(usb))
     IN  Take(usb, n) /\ usb' = Skip(usb, n)
  /\ UNCHANGED <<transport, android, wire, queued, handling, sending>>

\* readAccessoryBT.  A read of a closed socket gives 0 bytes, which changes
\* nothing: readAllAccessory calls it again.
BtRead ==
  /\ transport = "BT" /\ part # "ended" /\ size > 0
  /\ \E n \in 1 .. Smaller(size, Len(wire)) :
       Take(wire, n) /\ wire' = Skip(wire, n)
  /\ UNCHANGED <<transport, android, usb, queued, handling, sending>>

\* MUTANT of ReadError: an error after the first bytes of a part is overlooked.
ReadErrorOverlooked ==
  /\ lost /\ part # "ended" /\ size > 0 /\ usb = << >>
  /\ buffer = << >>
  /\ part' = "ended"
  /\ UNCHANGED <<transport, android, wire, usb, buffer, size, port, queued, handling, sending>>

\* A read fails: USB, or a socket that was reset and not closed.
ReadError ==
  /\ lost /\ part # "ended" /\ size > 0 /\ usb = << >>
  /\ part' = "ended"
  /\ UNCHANGED <<transport, android, wire, usb, buffer, size, port, queued, handling, sending>>

HeaderRead ==
  /\ part = "header" /\ size = 0
  /\ port' = UnsignedShort(buffer[1], buffer[2])
  /\ size' = UnsignedShort(buffer[3], buffer[4])
  /\ part' = "payload" /\ buffer' = << >>
  /\ UNCHANGED <<transport, android, wire, usb, queued, handling, sending>>

\* MUTANT of PayloadRead: an empty payload is waited for.
PayloadReadSome ==
  /\ part = "payload" /\ size = 0 /\ buffer # << >>
  /\ queued' = Append(queued, [port |-> port, payload |-> buffer])
  /\ part' = "header" /\ size' = 4 /\ buffer' = << >>
  /\ UNCHANGED <<transport, android, wire, usb, port, handling, sending>>

PayloadRead ==
  /\ part = "payload" /\ size = 0
  /\ queued' = Append(queued, [port |-> port, payload |-> buffer])
  /\ part' = "header" /\ size' = 4 /\ buffer' = << >>
  /\ UNCHANGED <<transport, android, wire, usb, port, handling, sending>>

\* main and, for port 0, PortStatusOnBytesReceived.
Handle ==
  /\ handled < Len(queued)
  /\ handled' = handled + 1
  /\ LET m == queued[handled + 1]
     IN  target' = IF m.port = 0 THEN StatusPort(m.payload[1], m.payload[2]) ELSE target
  /\ UNCHANGED <<transport, android, wire, usb, reading, queued, sending>>

\* The sender takes its next message.
PollSend ==
  /\ writes = "idle" /\ Len(sent) + Len(polled) < MaxFrames
  /\ \E f \in Frames : polled' = Append(polled, f) /\ rest' = Header(f)
  /\ writes' = "header"
  /\ UNCHANGED <<transport, android, wire, usb, reading, queued, handling, written>>

\* How many of n bytes one write may take: libusb all of them, a socket as many as it
\* has room for.
writeAccessoryUSB(n) == {n}
writeAccessoryBT(n) == 1 .. n
Writable(n) == IF transport = "USB" THEN writeAccessoryUSB(n) ELSE writeAccessoryBT(n)

\* MUTANT of writeAllAccessory: the buffer does not advance with the size.
writeAllAccessoryAgain ==
  /\ writes \in {"header", "payload"} /\ rest # << >> /\ ~lost
  /\ \E n \in Writable(Len(rest)) :
       /\ written' = written \o SubSeq(rest, 1, n)
       /\ rest' = SubSeq(rest, 1, Len(rest) - n)
  /\ UNCHANGED <<transport, android, wire, usb, reading, queued, handling, polled, writes>>

\* One turn of writeAllAccessory.
writeAllAccessory ==
  /\ writes \in {"header", "payload"} /\ rest # << >> /\ ~lost
  /\ \E n \in Writable(Len(rest)) :
       /\ written' = written \o SubSeq(rest, 1, n)
       /\ rest' = Skip(rest, n)
  /\ UNCHANGED <<transport, android, wire, usb, reading, queued, handling, polled, writes>>

\* An error: the rest of the message is not written, nor any other.
WriteError ==
  /\ writes \in {"header", "payload"} /\ rest # << >> /\ lost
  /\ writes' = "ended" /\ rest' = << >>
  /\ UNCHANGED <<transport, android, wire, usb, reading, queued, handling, polled, written>>

\* After the header the payload, after that the next message.
PartWritten ==
  /\ writes \in {"header", "payload"} /\ rest = << >>
  /\ IF writes = "header"
     THEN writes' = "payload" /\ rest' = Payload(polled[Len(polled)])
     ELSE writes' = "idle" /\ UNCHANGED rest
  /\ UNCHANGED <<transport, android, wire, usb, reading, queued, handling, polled, written>>

Send == PollSend \/ writeAllAccessory \/ WriteError \/ PartWritten

Receive == UsbTransfer \/ UsbRead \/ BtRead \/ HeaderRead \/ PayloadRead

Next == AndroidWrite \/ Lost \/ Receive \/ ReadError \/ Handle \/ Send

Spec == Init /\ [][Next]_vars

\* The receiver and main go on while they can, and a USB transfer fails when the
\* device is gone; a Bluetooth socket may be closed and never give an error.
FairSpec ==
  /\ Spec
  /\ WF_vars(Receive)
  /\ WF_vars(Handle)
  /\ WF_vars(ReadError /\ transport = "USB")
-----------------------------------------------------------------------------
\* What the receiver queues is what Android wrote, frame by frame, byte by byte
\* and in that order, however the connection cuts the stream into reads: it never
\* takes payload for a header.  And what is on its way to Android is the beginning of
\* the sender's messages, one after the other, however it was cut into writes.
FramesIntact ==
  /\ \A i \in 1 .. Len(queued) :
       /\ i <= Len(sent)
       /\ queued[i] = [port |-> sent[i].port, payload |-> Payload(sent[i])]
  /\ LET stream == FlattenSeq([i \in 1 .. Len(polled) |-> Header(polled[i]) \o Payload(polled[i])])
     IN  /\ IsPrefix(written, stream)
         /\ writes = "idle" => written = stream

\* A status is applied to the port it is about (bridge.c: close and eof "can be
\* send from services on one end of the port to the other service on the other
\* remote device"), for the ports whose low byte is below 128: the others are those
\* the signed bytes of StatusPort turn into a negative number.
StatusReachesPort ==
  handled > 0 /\ queued[handled].port = 0 /\ Low(sent[handled].about) < 128 =>
    target = sent[handled].about

\* What Android writes arrives, unless the connection is lost.
FrameArrives == \A n \in 1 .. MaxFrames : Len(sent) >= n ~> (Len(queued) >= n \/ lost)

\* When a USB connection is lost, the receiver ends, and with it the bridge.
LostUsbEnds == (transport = "USB" /\ lost) ~> part = "ended"
=============================================================================
