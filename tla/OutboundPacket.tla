---------------------------- MODULE OutboundPacket ----------------------------
(***************************************************************************)
(* A client that applies the operations of an OutboundPacketStream in any  *)
(* order in which they do not throw: an operation that throws leaves the   *)
(* packet as it was.                                                       *)
(*                                                                         *)
(* The stream does not check everything.  An argument is accepted when no  *)
(* message is open, a second top-level element after the first, and a      *)
(* message is closed whose array brackets do not match, though the bytes   *)
(* are then no OSC packet: "misused" remembers it.                         *)
(***************************************************************************)
EXTENDS PacketStream

CONSTANTS Capacity,         \* the bytes of the buffer
          AddressLengths,   \* of the address patterns of messages
          StringLengths,    \* of string and symbol arguments
          BlobSizes         \* of blob arguments

ASSUME CapacityAssumption == Capacity \in Nat

ASSUME LengthsAssumption ==
  AddressLengths \subseteq Nat /\ StringLengths \subseteq Nat /\ BlobSizes \subseteq Nat

VARIABLES packet,     \* the stream
          misused     \* history: whether the client left the protocol since Clear()

vars == <<packet, misused>>

\* The bytes of an argument of each type: 0 for bool, nil and infinitum; 4 for
\* int32, float, char, RGBA and MIDI; 8 for int64, time tag and double.
ArgumentBytes ==
  {0, 4, 8} \cup {StringBytes(n) : n \in StringLengths} \cup {BlobBytes(n) : n \in BlobSizes}

Init == packet = NewPacket(Capacity) /\ misused = FALSE

\* The bytes stay in the buffer, to be written again before they are read.
Clear ==
  /\ packet' = NewPacket(Capacity)
  /\ misused' = FALSE

\* The outermost element has no slot, and only one has a place in a packet.
Again == ~packet.isOpen /\ packet.cursor > 0

OpenBundle ==
  /\ ~packet.inMessage
  /\ BundleFits(packet)
  /\ packet' = BeginBundle(packet)
  /\ misused' = (misused \/ Again)

CloseBundle ==
  /\ packet.isOpen
  /\ ~packet.inMessage
  /\ packet' = EndBundle(packet)
  /\ UNCHANGED misused

OpenMessage ==
  \E length \in AddressLengths :
    /\ ~packet.inMessage
    /\ MessageFits(packet, length)
    /\ packet' = BeginMessage(packet, length)
    /\ misused' = (misused \/ Again)

CloseMessage ==
  /\ packet.inMessage
  /\ packet' = EndMessage(packet)
  /\ misused' = (misused \/ packet.depth # 0)

Argument ==
  \E bytes \in ArgumentBytes :
    /\ ArgumentFits(packet, bytes)
    /\ packet' = AddArgument(packet, bytes)
    /\ misused' = (misused \/ ~packet.inMessage)

\* ArrayInitiator and ArrayTerminator.
Bracket ==
  \E level \in {1, -1} :
    /\ ArgumentFits(packet, 0)
    /\ packet' = AddBracket(packet, level)
    /\ misused' = (misused \/ ~packet.inMessage)

Next ==
  \/ Clear
  \/ OpenBundle \/ CloseBundle
  \/ OpenMessage \/ CloseMessage
  \/ Argument \/ Bracket

Spec == Init /\ [][Next]_vars

-----------------------------------------------------------------------------
(* No pointer of the stream ever leaves the buffer. *)
TypeOK == packet \in Packet(Capacity) /\ misused \in BOOLEAN

(***************************************************************************)
(* Whatever the client does, arguments outside a message included: the     *)
(* finished packet fits the buffer at any moment, so that closing a        *)
(* message needs no check; and while a message is built its arguments,     *)
(* written upwards, stay clear of its type tags, written downwards.        *)
(***************************************************************************)
FitsTheBuffer ==
  /\ Size(packet) <= Capacity
  /\ packet.cursor <= packet.args
  /\ packet.inMessage => packet.args + packet.tags < Capacity

(***************************************************************************)
(* "size() is valid even while building a message": closing a message does *)
(* not change it.                                                          *)
(***************************************************************************)
SizeIsValid ==
  [][CloseMessage => Size(packet') = Size(packet)]_vars

(***************************************************************************)
(* The slot of an open element holds the offset of the slot of the         *)
(* enclosing one until the element is closed, so every chain of slots      *)
(* leads down to the outermost element.                                    *)
(***************************************************************************)
OpenElementsNest ==
  packet.isOpen /\ packet.element # 0 =>
    /\ packet.words[packet.element] < packet.element
    /\ packet.element + 4 <= packet.cursor

(***************************************************************************)
(* A packet whose bundles and messages are all closed is one that the      *)
(* receiver's parser takes apart to its last byte, and no element of which *)
(* it refuses, if the client kept to the protocol: closed its arrays, too. *)
(***************************************************************************)
ReadyIsReadable ==
  IsReady(packet) /\ Size(packet) > 0 /\ ~misused => Reads(packet, Size(packet))
====
